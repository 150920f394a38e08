-------------------------- MODULE CommandPath_proofs --------------------------
(***************************************************************************)
(* Proofs about the command path: for any number of commands, any depth of *)
(* the readers, any capacity of the transmit queues and any selection of   *)
(* topics, the queues keep their types and limits, the master sees the     *)
(* setpoints of a topic in the order they were sent, the newest command of *)
(* a topic is never dropped, and a Zenoh command reaches the master        *)
(* without gaps.                                                           *)
(***************************************************************************)
EXTENDS CommandPath, FiniteSetTheorems, TLAPS

(* The worker is converting a command of topic t.                          *)
Serving(t) == phase = "handling" /\ topic = t

(* The last command that arrived is the youngest that is kept.             *)
Newest(t) ==
    IF pending[t] # <<>> THEN pending[t][Len(pending[t])].stamp = arrived[t]
    ELSE IF Serving(t) THEN batch[Len(batch)].stamp = arrived[t]
    ELSE arrived[t] = handled[t]
NewestKept == \A t \in Topic : Newest(t)

(* Commands wait in the order they were sent, behind those that are done.  *)
Increasing(q) == \A i, j \in 1..Len(q) : i < j => q[i].stamp < q[j].stamp
Within(q, low, high) == \A i \in 1..Len(q) : low < q[i].stamp /\ q[i].stamp <= high
WaitInOrder(t) ==
    /\ handled[t] <= sent
    /\ Increasing(pending[t])
    /\ Within(pending[t], handled[t], sent)
    /\ Serving(t) => /\ Increasing(batch)
                     /\ Within(batch, handled[t], sent)
                     /\ Within(pending[t], batch[Len(batch)].stamp, sent)
WaitingInOrder == \A t \in Topic : WaitInOrder(t)

(* What has been pushed of topic t is before its frontier, and what will   *)
(* be pushed is not.                                                       *)
Frontier(t) == IF Serving(t) THEN <<batch[1].stamp, next>> ELSE <<handled[t] + 1, 0>>
PoppedBefore == \A t \in Topic : Before(popped[t], Frontier(t))
QueuedBefore ==
    \A c \in Channel : \A i \in 1..Len(tx[c]) : Before(At(tx[c][i]), Frontier(tx[c][i].topic))
OwnChannel == \A c \in Channel : \A i \in 1..Len(tx[c]) : channel[tx[c][i].topic] = c

(* A Zenoh command in progress: all elements so far are in the queue, or   *)
(* one was refused and the rest is given up.                               *)
Unbroken ==
    ~IsDds => \E k \in 0..(next - 1) :
        /\ accepted = 1..k
        /\ phase = "handling" /\ next <= Len(batch[1].elements) => k = next - 1

(* The inductive invariant.                                                *)
QueuesInOrder == PoppedBefore /\ QueuedBefore /\ OwnChannel /\ SetpointsAdvance
IInv == TypeOK /\ NewestKept /\ WaitingInOrder /\ QueuesInOrder /\ Unbroken

-----------------------------------------------------------------------------
(* Topics and channels.                                                    *)

(* The topics of the subscribers are topics, and no two are the same.      *)
LEMMA TopicsDistinct ==
  /\ Topics \in Seq(Topic)
  /\ \A i, j \in 1..Len(Topics) : Topics[i] = Topics[j] => i = j
<1>1. CASE IsDds
  BY <1>1 DEF Topics, Topic
<1>2. CASE ~IsDds
  BY <1>2, TopicsAssumption DEF Topics, IsInjective
<1> QED BY <1>1, <1>2

(* While the worker takes or handles commands it serves one of them.       *)
LEMMA TopicServed ==
  ASSUME TypeOK, phase \in {"taking", "handling"}
  PROVE  /\ topic \in Topic
         /\ current \in 1..subscribers
         /\ 1..subscribers \subseteq 1..Len(Topics)
<1>0. Len(Topics) \in Nat
  BY TopicsDistinct
<1>1. current \in 1..subscribers /\ 1..subscribers \subseteq 1..Len(Topics)
  BY <1>0 DEF TypeOK
<1>2. topic \in Topic
  BY <1>1, TopicsDistinct DEF topic
<1> QED BY <1>1, <1>2

(* Every topic has a channel and a type a PDO can have.                    *)
LEMMA ChannelOfTopic ==
  \A t \in Topic : /\ channel[t] \in Channel
                   /\ expected_type[t] \in PdoType
                   /\ decoded_type[t] \in PdoType
<1> SUFFICES ASSUME NEW t \in Topic
             PROVE  /\ channel[t] \in Channel
                    /\ expected_type[t] \in PdoType
                    /\ decoded_type[t] \in PdoType
  OBVIOUS
<1>1. DOMAIN channel = Topic
  BY DEF channel, Topic
<1>2. channel[t] \in Channel
  BY <1>1 DEF Channel, Range
<1>3. expected_type[t] \in PdoType /\ decoded_type[t] \in PdoType
  BY DEF expected_type, decoded_type, PdoType, Topic
<1> QED BY <1>2, <1>3

-----------------------------------------------------------------------------
(* The sequences the commands wait in.                                     *)

(* The stamps of commands are numbers.                                     *)
LEMMA StampsAreNumbers ==
  ASSUME NEW q \in Seq(Message), NEW i \in 1..Len(q)
  PROVE  q[i].stamp \in 1..MaxCommands /\ q[i].stamp \in Int
<1>1. q[i] \in Message
  OBVIOUS
<1>2. q[i].stamp \in 1..MaxCommands
  BY <1>1 DEF Message
<1> QED BY <1>2, BoundsAssumption

(* The reader's history keeps the command that arrives as its last, and of *)
(* the earlier ones the youngest, in their order.                          *)
LEMMA KeepFacts ==
  ASSUME NEW q \in Seq(Message), NEW m \in Message, Len(q) <= Depth
  PROVE  /\ Keep(q, m) \in Seq(Message)
         /\ Keep(q, m) # <<>>
         /\ Len(Keep(q, m)) <= Depth
         /\ Keep(q, m)[Len(Keep(q, m))] = m
         /\ \E d \in {0, 1} : \A i \in 1..(Len(Keep(q, m)) - 1) :
                i + d \in 1..Len(q) /\ Keep(q, m)[i] = q[i + d]
<1>0. Depth \in Nat \ {0}
  BY BoundsAssumption DEF Depth
<1>1. CASE Len(q) < Depth
  <2>1. Keep(q, m) = Append(q, m)
    BY <1>1 DEF Keep
  <2>2. Len(Append(q, m)) = Len(q) + 1 /\ Len(q) \in Nat
    OBVIOUS
  <2>3. \A i \in 1..Len(q) : i + 0 \in 1..Len(q) /\ Append(q, m)[i] = q[i + 0]
    OBVIOUS
  <2>4. Append(q, m)[Len(q) + 1] = m
    OBVIOUS
  <2>5. Append(q, m) \in Seq(Message) /\ Append(q, m) # <<>>
    OBVIOUS
  <2>6. 1..(Len(Append(q, m)) - 1) = 1..Len(q)
    BY <2>2
  <2> QED BY <1>0, <1>1, <2>1, <2>2, <2>3, <2>4, <2>5, <2>6
<1>2. CASE ~(Len(q) < Depth)
  <2> DEFINE r == Tail(q)
  <2>1. Keep(q, m) = Append(r, m)
    BY <1>2 DEF Keep
  <2>2. Len(q) \in Nat \ {0} /\ Len(q) = Depth
    BY <1>0, <1>2
  <2>3. r \in Seq(Message) /\ Len(r) = Len(q) - 1
    BY <2>2
  <2>4. Len(Append(r, m)) = Len(q) /\ Append(r, m)[Len(q)] = m
    BY <2>2, <2>3
  <2>5. \A i \in 1..(Len(q) - 1) : i + 1 \in 1..Len(q) /\ Append(r, m)[i] = q[i + 1]
    BY <2>2, <2>3
  <2>6. Append(r, m) \in Seq(Message)
    BY <2>3
  <2>7. Append(r, m) # <<>>
    BY <2>2, <2>4
  <2> HIDE DEF r
  <2> QED BY <1>0, <2>1, <2>2, <2>4, <2>5, <2>6, <2>7
<1> QED BY <1>1, <1>2

(* What the worker takes are the oldest commands, and what it leaves are   *)
(* the others.                                                             *)
LEMMA TakenFacts ==
  ASSUME NEW q \in Seq(Message), q # <<>>
  PROVE  /\ Taken(q)[1] \in Seq(Message) /\ Taken(q)[2] \in Seq(Message)
         /\ Taken(q)[1] # <<>>
         /\ Len(q) = Len(Taken(q)[1]) + Len(Taken(q)[2])
         /\ \A i \in 1..Len(Taken(q)[1]) : i \in 1..Len(q) /\ Taken(q)[1][i] = q[i]
         /\ \A i \in 1..Len(Taken(q)[2]) :
                /\ Len(Taken(q)[1]) + i \in 1..Len(q)
                /\ Taken(q)[2][i] = q[Len(Taken(q)[1]) + i]
<1>0. Len(q) \in Nat \ {0}
  OBVIOUS
<1>1. CASE kind = "fastdds"
  <2>1. Taken(q)[1] = SubSeq(q, 1, 1) /\ Taken(q)[2] = Tail(q)
    BY <1>1 DEF Taken
  <2>2. SubSeq(q, 1, 1) \in Seq(Message) /\ Len(SubSeq(q, 1, 1)) = 1 /\ SubSeq(q, 1, 1)[1] = q[1]
    BY <1>0
  <2>3. Tail(q) \in Seq(Message) /\ Len(Tail(q)) = Len(q) - 1
    BY <1>0
  <2>4. \A i \in 1..(Len(q) - 1) : 1 + i \in 1..Len(q) /\ Tail(q)[i] = q[1 + i]
    BY <1>0
  <2>5. SubSeq(q, 1, 1) # <<>>
    BY <2>2
  <2> QED BY <1>0, <2>1, <2>2, <2>3, <2>4, <2>5
<1>2. CASE kind # "fastdds"
  <2>1. Taken(q)[1] = q /\ Taken(q)[2] = <<>>
    BY <1>2 DEF Taken
  <2> QED BY <1>0, <2>1
<1> QED BY <1>1, <1>2

-----------------------------------------------------------------------------
(* Types and limits.                                                       *)

(* The command in progress, its element and the type of its PDO.           *)
LEMMA ElementFacts ==
  ASSUME TypeOK, phase = "handling", next <= Len(batch[1].elements)
  PROVE  /\ batch[1] \in Message
         /\ next \in 1..Len(batch[1].elements)
         /\ batch[1].elements[next] \in Target
         /\ Converts(batch[1].elements[next]) =>
                TypeOf(batch[1], batch[1].elements[next]) \in PdoType
<1>1. batch \in Seq(Message) /\ batch # <<>> /\ kind \in Kind
  BY DEF TypeOK
<1>2. batch[1] \in Message
  BY <1>1
<1>3. batch[1].elements \in Seq(Target) /\ batch[1].type \in PdoType
  BY <1>2, CommandAssumption DEF Message
<1>4. next \in 1..Len(batch[1].elements)
  BY <1>3 DEF TypeOK
<1>5. batch[1].elements[next] \in Target
  BY <1>3, <1>4
<1>6. ASSUME Converts(batch[1].elements[next])
      PROVE  TypeOf(batch[1], batch[1].elements[next]) \in PdoType
  <2> DEFINE id == batch[1].elements[next]
  <2>1. CASE IsDds
    <3>1. device_types[id] \in DOMAIN tx_type
      BY <1>6, <2>1 DEF Converts
    <3>2. \A x \in DOMAIN tx_type : tx_type[x] \in PdoType
      BY DEF tx_type, PdoType
    <3> QED BY <2>1, <3>1, <3>2 DEF TypeOf, IsDds
  <2>2. CASE kind = "cdr"
    BY <2>2, ChannelOfTopic, TopicServed DEF TypeOf, IsDds
  <2>3. CASE kind = "protobuf"
    BY <2>3, <1>3 DEF TypeOf, IsDds
  <2> QED BY <1>1, <2>1, <2>2, <2>3 DEF Kind, IsDds
<1> QED BY <1>2, <1>4, <1>5, <1>6

LEMMA TypeInit == Init => TypeOK
<1> SUFFICES ASSUME Init PROVE TypeOK
  OBVIOUS
<1>1. Len(Topics) \in Nat /\ Depth \in Nat
  BY TopicsDistinct, BoundsAssumption DEF Depth
<1>2. pending \in [Topic -> Seq(Message)] /\ \A t \in Topic : Len(pending[t]) <= Depth
  BY <1>1 DEF Init
<1>3. tx \in [Channel -> Seq(Pdo)] /\ \A c \in Channel : Len(tx[c]) <= TxCapacity
  BY BoundsAssumption DEF Init
<1>4. popped \in [Topic -> (0..MaxCommands) \X Nat]
  BY BoundsAssumption DEF Init
<1> QED BY <1>1, <1>2, <1>3, <1>4, BoundsAssumption DEF Init, TypeOK

(* A command that arrives keeps the types.                                 *)
LEMMA TypeReceive ==
  ASSUME TypeOK, NEW t \in Topic, Receive(t) \/ Lose(t)
  PROVE  TypeOK'
<1>1. sent' \in 1..MaxCommands /\ sent' \in 0..MaxCommands
  BY BoundsAssumption DEF TypeOK, Receive, Lose
<1>2. Topics' = Topics /\ Depth' = Depth
  BY DEF Receive, Lose, Topics, Depth, IsDds
<1>3. /\ arrived' \in [Topic -> 0..MaxCommands]
      /\ pending' \in [Topic -> Seq(Message)]
      /\ \A u \in Topic : Len(pending'[u]) <= Depth
  <2>1. CASE pending' = pending /\ arrived' = arrived
    BY <2>1 DEF TypeOK
  <2>2. CASE ~(pending' = pending /\ arrived' = arrived)
    <3>1. PICK elements \in Command, type \in ClientTypes(t) :
              /\ pending' = [pending EXCEPT ![t] =
                     Keep(@, [stamp |-> sent', elements |-> elements, type |-> type])]
              /\ arrived' = [arrived EXCEPT ![t] = sent']
      BY <2>2 DEF Receive, Lose
    <3> DEFINE m == [stamp |-> sent', elements |-> elements, type |-> type]
    <3>2. type \in PdoType
      BY ChannelOfTopic DEF ClientTypes, PdoType
    <3>3. m \in Message
      BY <3>2, <1>1 DEF Message
    <3>4. pending[t] \in Seq(Message) /\ Len(pending[t]) <= Depth
      BY DEF TypeOK
    <3>5. Keep(pending[t], m) \in Seq(Message) /\ Len(Keep(pending[t], m)) <= Depth
      BY <3>3, <3>4, KeepFacts
    <3>6. pending' = [pending EXCEPT ![t] = Keep(pending[t], m)]
      BY <3>1
    <3> HIDE DEF m
    <3> QED BY <1>1, <3>1, <3>5, <3>6 DEF TypeOK
  <2> QED BY <2>1, <2>2
<1>4. UNCHANGED <<kind, subscribers, tx, popped, connected, worker>>
  BY DEF Receive, Lose
<1> QED BY <1>1, <1>2, <1>3, <1>4 DEF TypeOK, worker

(* A PDO that is pushed keeps the types.                                   *)
LEMMA TypePush ==
  ASSUME TypeOK, PushElement
  PROVE  TypeOK'
<1> DEFINE m == batch[1]
           id == m.elements[next]
<1>1. /\ phase = "handling" /\ next <= Len(m.elements)
      /\ UNCHANGED <<kind, subscribers, sent, arrived, pending, phase, current, batch,
                     handled, popped, connected>>
  BY DEF PushElement
<1>2. Topics' = Topics /\ Depth' = Depth
  BY <1>1 DEF Topics, Depth, IsDds
<1>3. /\ m \in Message /\ next \in 1..Len(m.elements) /\ id \in Target
      /\ Converts(id) => TypeOf(m, id) \in PdoType
  BY <1>1, ElementFacts
<1>4. topic \in Topic /\ channel[topic] \in Channel
  BY <1>1, TopicServed, ChannelOfTopic
<1>5. Len(m.elements) \in Nat /\ next \in Nat \ {0}
  BY <1>3, CommandAssumption DEF Message, TypeOK
<1>6. CASE Converts(id) /\ Passes(id, TypeOf(m, id)) /\ HasRoom
  <2> DEFINE pdo == [topic |-> topic, stamp |-> m.stamp, place |-> next, id |-> id,
                     type |-> TypeOf(m, id)]
             c == channel[topic]
  <2>1. tx' = [tx EXCEPT ![c] = Append(@, pdo)] /\ accepted' = accepted \cup {next} /\ next' = next + 1
    BY <1>6 DEF PushElement, Enqueue
  <2>2. pdo \in Pdo
    BY <1>3, <1>4, <1>5, <1>6 DEF Pdo, Message
  <2>3. tx[c] \in Seq(Pdo) /\ Len(tx[c]) < TxCapacity
    BY <1>4, <1>6 DEF TypeOK, HasRoom
  <2>4. Append(tx[c], pdo) \in Seq(Pdo) /\ Len(Append(tx[c], pdo)) <= TxCapacity
    BY <2>2, <2>3, BoundsAssumption
  <2>5. tx' \in [Channel -> Seq(Pdo)] /\ \A d \in Channel : Len(tx'[d]) <= TxCapacity
    <3> HIDE DEF pdo, c
    <3> QED BY <2>1, <2>4 DEF TypeOK
  <2>6. next' \in Nat \ {0} /\ accepted' \subseteq 1..(next' - 1)
    BY <1>5, <2>1 DEF TypeOK
  <2> QED BY <1>1, <1>2, <2>5, <2>6 DEF TypeOK
<1>7. CASE ~(Converts(id) /\ Passes(id, TypeOf(m, id)) /\ HasRoom)
  <2>1. /\ next' \in {next + 1, Len(m.elements) + 1}
        /\ UNCHANGED <<tx, accepted>>
    BY <1>7 DEF PushElement
  <2>2. next' \in Nat \ {0} /\ next <= next'
    BY <1>1, <1>5, <2>1
  <2>3. 1..(next - 1) \subseteq 1..(next' - 1)
    <3>1. \A a, b \in Nat : a <= b => 1..(a - 1) \subseteq 1..(b - 1)
      OBVIOUS
    <3> QED BY <1>5, <2>2, <3>1
  <2>4. accepted' \subseteq 1..(next' - 1)
    BY <2>1, <2>3 DEF TypeOK
  <2> QED BY <1>1, <1>2, <2>1, <2>2, <2>4 DEF TypeOK
<1> QED BY <1>6, <1>7

(* Taking commands, and being done with one, keeps the types.              *)
LEMMA TypeTake ==
  ASSUME TypeOK, Take \/ CommandDone
  PROVE  TypeOK'
<1>1. UNCHANGED <<kind, subscribers, sent, arrived, tx, popped, connected>>
  BY DEF Take, CommandDone
<1>2. Topics' = Topics /\ Depth' = Depth
  BY <1>1 DEF Topics, Depth, IsDds
<1>3. phase \in {"taking", "handling"}
  BY DEF Take, CommandDone
<1>4. topic \in Topic /\ current \in 1..subscribers
  BY <1>3, TopicServed
<1>5. next' = 1 /\ accepted' = {} /\ subscribers \in Nat
  BY TopicsDistinct DEF Take, CommandDone, TypeOK
<1>6. next' \in Nat \ {0} /\ accepted' \subseteq 1..(next' - 1)
  BY <1>5
<1>7. CASE Take
  <2>1. pending[topic] \in Seq(Message) /\ pending[topic] # <<>> /\ Len(pending[topic]) <= Depth
    BY <1>4, <1>7 DEF Take, TypeOK
  <2> DEFINE b == Taken(pending[topic])[1]
             p == Taken(pending[topic])[2]
  <2>2. /\ b \in Seq(Message) /\ p \in Seq(Message) /\ b # <<>>
        /\ Len(pending[topic]) = Len(b) + Len(p)
    BY <2>1, TakenFacts
  <2>3. Depth \in Nat /\ Len(b) \in Nat /\ Len(p) \in Nat
    BY <2>2, BoundsAssumption DEF Depth
  <2>4. Len(p) <= Depth
    <3> HIDE DEF b, p
    <3> QED BY <2>1, <2>2, <2>3
  <2>5. pending' = [pending EXCEPT ![topic] = p] /\ batch' = b /\ phase' = "handling" /\ current' = current
        /\ handled' = handled
    BY <1>7 DEF Take
  <2> HIDE DEF b, p
  <2>6. pending' \in [Topic -> Seq(Message)] /\ \A t \in Topic : Len(pending'[t]) <= Depth
    BY <1>4, <2>2, <2>4, <2>5 DEF TypeOK
  <2> QED BY <1>1, <1>2, <1>4, <1>5, <1>6, <2>2, <2>5, <2>6 DEF TypeOK
<1>8. CASE CommandDone
  <2>1. batch \in Seq(Message) /\ batch # <<>> /\ phase = "handling"
    BY <1>8 DEF TypeOK, CommandDone
  <2>2. Tail(batch) \in Seq(Message) /\ batch[1] \in Message
    BY <2>1
  <2>3. handled' \in [Topic -> 0..MaxCommands]
    BY <1>4, <1>8, <2>2, BoundsAssumption DEF CommandDone, TypeOK, Message
  <2>4. batch' = Tail(batch) /\ pending' = pending
    BY <1>8 DEF CommandDone, Rest
  <2>5. /\ current' \in Nat \ {0}
        /\ phase' \in {"taking", "handling"} => current' <= subscribers
        /\ phase' \in {"waiting", "taking", "handling"}
        /\ phase' = "handling" <=> batch' # <<>>
    <3>1. CASE batch' # <<>>
      BY <1>4, <1>8, <2>1, <2>4, <3>1 DEF CommandDone, Rest, TypeOK
    <3>2. CASE batch' = <<>> /\ kind = "fastdds"
      BY <1>4, <1>8, <2>1, <2>4, <3>2 DEF CommandDone, Rest, TypeOK
    <3>3. CASE batch' = <<>> /\ kind # "fastdds"
      <4>1. NextSubscriber
        BY <1>8, <2>4, <3>3 DEF CommandDone, Rest
      <4>2. subscribers \in Nat
        BY TopicsDistinct DEF TypeOK
      <4> QED BY <1>4, <3>3, <4>1, <4>2 DEF NextSubscriber, TypeOK
    <3> QED BY <3>1, <3>2, <3>3
  <2> QED BY <1>1, <1>2, <1>6, <2>2, <2>3, <2>4, <2>5 DEF TypeOK
<1> QED BY <1>7, <1>8

LEMMA TypeStep == TypeOK /\ [Next]_vars => TypeOK'
<1> SUFFICES ASSUME TypeOK, [Next]_vars PROVE TypeOK'
  OBVIOUS
<1>0. Len(Topics) \in Nat /\ Depth \in Nat
  BY TopicsDistinct, BoundsAssumption DEF Depth
<1>1. kind' = kind => Topics' = Topics /\ Depth' = Depth
  BY DEF Topics, Depth, IsDds
<1>2. CASE RegisterSubscriber
  BY <1>0, <1>1, <1>2 DEF RegisterSubscriber, TypeOK, worker
<1>3. CASE RegisterFails
  <2>1. pending' \in [Topic -> Seq(Message)] /\ \A t \in Topic : Len(pending'[t]) <= Depth
    BY <1>0, <1>3 DEF RegisterFails
  <2> QED BY <1>0, <1>1, <1>3, <2>1 DEF RegisterFails, TypeOK
<1>4. CASE StartFails \/ Started
  BY <1>1, <1>4 DEF StartFails, Started, TypeOK
<1>5. CASE SpinOnce
  BY <1>0, <1>1, <1>5 DEF SpinOnce, TypeOK
<1>6. CASE TakeNothing
  <2>1. subscribers \in Nat /\ current \in Nat \ {0}
    BY <1>0 DEF TypeOK
  <2> QED BY <1>1, <1>6, <2>1 DEF TakeNothing, NextSubscriber, TypeOK
<1>7. CASE Take \/ CommandDone
  BY <1>7, TypeTake
<1>8. CASE PushElement
  BY <1>8, TypePush
<1>9. ASSUME NEW t \in Topic, Receive(t) \/ Lose(t)
      PROVE  TypeOK'
  BY <1>9, TypeReceive
<1>10. ASSUME NEW c \in Channel, MasterPops(c)
       PROVE  TypeOK'
  <2>1. tx[c] \in Seq(Pdo) /\ tx[c] # <<>> /\ Len(tx[c]) <= TxCapacity
    BY <1>10 DEF MasterPops, TypeOK
  <2>2. Head(tx[c]) \in Pdo /\ Tail(tx[c]) \in Seq(Pdo) /\ Len(Tail(tx[c])) <= TxCapacity
    BY <2>1, BoundsAssumption
  <2>3. tx' \in [Channel -> Seq(Pdo)] /\ \A d \in Channel : Len(tx'[d]) <= TxCapacity
    BY <1>10, <2>2 DEF MasterPops, TypeOK
  <2>4. Head(tx[c]).topic \in Topic /\ Head(tx[c]).stamp \in 0..MaxCommands /\ Head(tx[c]).place \in Nat
    BY <2>2, BoundsAssumption DEF Pdo
  <2>5. popped' \in [Topic -> (0..MaxCommands) \X Nat]
    BY <1>10, <2>4 DEF MasterPops, TypeOK
  <2> QED BY <1>1, <1>10, <2>3, <2>5 DEF MasterPops, TypeOK, worker
<1>11. CASE ConnectionChanges
  BY <1>1, <1>11 DEF ConnectionChanges, TypeOK, worker
<1>12. CASE UNCHANGED vars
  BY <1>1, <1>12 DEF vars, TypeOK, worker
<1> QED
  BY <1>2, <1>3, <1>4, <1>5, <1>6, <1>7, <1>8, <1>9, <1>10, <1>11, <1>12
  DEF Next, Worker, Environment

(* Queues stay within their limits, indices within their sequences, and    *)
(* the worker has commands exactly while it handles them (the readers'     *)
(* history, AdapterSubscribers::spin_once() and the queues' capacity).     *)
THEOREM CommandTypeCorrect == Spec => []TypeOK
  BY TypeInit, TypeStep, PTL DEF Spec

-----------------------------------------------------------------------------
(* The order in which commands wait.                                       *)

(* A step that leaves alone what waits and who is served.                  *)
Quiet ==
    /\ UNCHANGED <<pending, arrived, batch, handled>>
    /\ \A t \in Topic : Serving(t)' <=> Serving(t)
    /\ sent <= sent'

LEMMA QuietSteps ==
  ASSUME TypeOK,
         \/ RegisterSubscriber \/ StartFails \/ Started \/ SpinOnce \/ TakeNothing \/ PushElement
         \/ \E t \in Topic : Lose(t)
         \/ \E c \in Channel : MasterPops(c)
         \/ ConnectionChanges
         \/ UNCHANGED vars
  PROVE  Quiet
<1>0. sent \in Int
  BY DEF TypeOK
<1>1. CASE RegisterSubscriber
  BY <1>0, <1>1 DEF RegisterSubscriber, Quiet, Serving, topic, Topics, IsDds, worker
<1>2. CASE StartFails \/ Started \/ SpinOnce \/ TakeNothing
  <2>1. phase # "handling" /\ phase' # "handling"
    BY <1>2 DEF StartFails, Started, SpinOnce, TakeNothing, NextSubscriber
  <2>2. \A t \in Topic : ~Serving(t) /\ ~Serving(t)'
    BY <2>1 DEF Serving
  <2>3. UNCHANGED <<pending, arrived, batch, handled, sent>>
    BY <1>2 DEF StartFails, Started, SpinOnce, TakeNothing
  <2> QED BY <1>0, <2>2, <2>3 DEF Quiet
<1>3. CASE PushElement
  BY <1>0, <1>3 DEF PushElement, Quiet, Serving, topic, Topics, IsDds
<1>4. CASE \E t \in Topic : Lose(t)
  BY <1>0, <1>4 DEF Lose, Quiet, Serving, topic, Topics, IsDds, worker
<1>5. CASE \E c \in Channel : MasterPops(c)
  BY <1>0, <1>5 DEF MasterPops, Quiet, Serving, topic, Topics, IsDds, worker
<1>6. CASE ConnectionChanges \/ UNCHANGED vars
  BY <1>0, <1>6 DEF ConnectionChanges, vars, Quiet, Serving, topic, Topics, IsDds, worker
<1> QED BY <1>1, <1>2, <1>3, <1>4, <1>5, <1>6

(* Such a step keeps the order.                                            *)
LEMMA QuietKeeps ==
  ASSUME TypeOK, TypeOK', NewestKept, WaitingInOrder, Quiet
  PROVE  NewestKept' /\ WaitingInOrder'
<1>1. NewestKept'
  BY DEF NewestKept, Newest, Quiet
<1>2. ASSUME NEW t \in Topic PROVE WaitInOrder(t)'
  <2>0. /\ WaitInOrder(t)
        /\ pending'[t] = pending[t] /\ handled'[t] = handled[t] /\ batch' = batch
        /\ Serving(t)' <=> Serving(t)
    BY DEF Quiet, WaitingInOrder
  <2>1. sent \in Int /\ sent' \in Int /\ handled[t] \in Int /\ sent <= sent'
    BY DEF TypeOK, Quiet
  <2>2. ASSUME NEW q \in Seq(Message), NEW low, Within(q, low, sent)
        PROVE  Within(q, low, sent')
    <3>1. \A i \in 1..Len(q) : q[i].stamp \in Int
      BY StampsAreNumbers
    <3> QED BY <2>1, <2>2, <3>1 DEF Within
  <2>3. pending[t] \in Seq(Message) /\ batch \in Seq(Message)
    BY DEF TypeOK
  <2>4. handled'[t] <= sent' /\ Increasing(pending'[t]) /\ Within(pending'[t], handled'[t], sent')
    BY <2>0, <2>1, <2>2, <2>3 DEF WaitInOrder
  <2>5. ASSUME Serving(t)
        PROVE  /\ Increasing(batch') /\ Within(batch', handled'[t], sent')
               /\ Within(pending'[t], batch'[Len(batch')].stamp, sent')
    BY <2>0, <2>2, <2>3, <2>5 DEF WaitInOrder
  <2> QED BY <2>0, <2>4, <2>5 DEF WaitInOrder, Increasing, Within
<1> QED BY <1>1, <1>2 DEF WaitingInOrder

(* A command that arrives is the youngest.                                 *)
LEMMA ReceiveKeeps ==
  ASSUME TypeOK, TypeOK', NewestKept, WaitingInOrder, NEW t \in Topic, Receive(t)
  PROVE  NewestKept' /\ WaitingInOrder'
<1>1. UNCHANGED <<kind, phase, current, batch, handled>> /\ sent' = sent + 1
  BY DEF Receive, worker
<1>2. \A u \in Topic : Serving(u)' <=> Serving(u)
  BY <1>1 DEF Serving, topic, Topics, IsDds
<1>3. sent \in Int /\ sent <= sent'
  BY <1>1 DEF TypeOK
<1>4. CASE UNCHANGED <<pending, arrived>>
  BY <1>1, <1>2, <1>3, <1>4, QuietKeeps DEF Quiet
<1>5. CASE ~UNCHANGED <<pending, arrived>>
  <2>1. PICK elements \in Command, type \in ClientTypes(t) :
            /\ pending' = [pending EXCEPT ![t] =
                   Keep(@, [stamp |-> sent', elements |-> elements, type |-> type])]
            /\ arrived' = [arrived EXCEPT ![t] = sent']
    BY <1>5 DEF Receive
  <2>2. PICK m : m = [stamp |-> sent', elements |-> elements, type |-> type]
    OBVIOUS
  <2>3. m \in Message /\ m.stamp = sent'
    <3>1. type \in PdoType
      BY ChannelOfTopic DEF ClientTypes, PdoType
    <3>2. sent' \in 1..MaxCommands
      BY <1>1, <1>3, BoundsAssumption DEF TypeOK
    <3> QED BY <2>2, <3>1, <3>2 DEF Message
  <2>4. PICK q \in Seq(Message) : q = pending[t] /\ Len(q) <= Depth
    BY DEF TypeOK
  <2>5. PICK k : k = Keep(q, m)
    OBVIOUS
  <2>6. k \in Seq(Message) /\ k # <<>> /\ k[Len(k)] = m
    BY <2>3, <2>4, <2>5, KeepFacts
  <2>7. PICK d \in {0, 1} : \A i \in 1..(Len(k) - 1) : i + d \in 1..Len(q) /\ k[i] = q[i + d]
    <3>1. \E d \in {0, 1} : \A i \in 1..(Len(Keep(q, m)) - 1) :
              i + d \in 1..Len(q) /\ Keep(q, m)[i] = q[i + d]
      BY <2>3, <2>4, KeepFacts, Zenon
    <3> QED BY <2>5, <3>1, Zenon
  <2>8. pending'[t] = k /\ arrived'[t] = sent'
    BY <2>1, <2>2, <2>4, <2>5 DEF TypeOK
  <2>9. \A u \in Topic \ {t} : pending'[u] = pending[u] /\ arrived'[u] = arrived[u]
    BY <2>1 DEF TypeOK
  <2>10. Newest(t)'
    BY <2>3, <2>6, <2>8 DEF Newest
  <2>11. \A u \in Topic \ {t} : Newest(u)'
    BY <1>1, <1>2, <2>9 DEF NewestKept, Newest
  <2>12. ASSUME NEW u \in Topic \ {t} PROVE WaitInOrder(u)'
    <3>1. WaitInOrder(u) /\ handled[u] \in Int
      BY DEF WaitingInOrder, TypeOK
    <3>2. pending[u] \in Seq(Message) /\ batch \in Seq(Message)
      BY DEF TypeOK
    <3>3. ASSUME NEW p \in Seq(Message), NEW low, Within(p, low, sent)
          PROVE  Within(p, low, sent')
      <4>1. \A i \in 1..Len(p) : p[i].stamp \in Int
        BY StampsAreNumbers
      <4> QED BY <1>1, <1>3, <3>3, <4>1 DEF Within
    <3>4. handled[u] <= sent'
      BY <1>1, <1>3, <3>1 DEF WaitInOrder
    <3> QED BY <1>1, <1>2, <2>9, <3>1, <3>2, <3>3, <3>4 DEF WaitInOrder, Increasing, Within
  <2>13. WaitInOrder(t)'
    <3>1. WaitInOrder(t) /\ handled[t] \in Int
      BY DEF WaitingInOrder, TypeOK
    <3>2. Len(k) \in Nat \ {0} /\ \A i \in 1..Len(q) : q[i].stamp \in Int
      BY <2>4, <2>6, StampsAreNumbers
    <3>3. ASSUME NEW low \in Int, low <= sent, Within(q, low, sent)
          PROVE  Within(k, low, sent')
      <4> SUFFICES ASSUME NEW i \in 1..Len(k)
                   PROVE  low < k[i].stamp /\ k[i].stamp <= sent'
        BY DEF Within
      <4>1. CASE i = Len(k)
        BY <1>1, <1>3, <2>3, <2>6, <3>3, <4>1
      <4>2. CASE i # Len(k)
        <5>1. i \in 1..(Len(k) - 1)
          BY <3>2, <4>2
        <5>2. i + d \in 1..Len(q) /\ k[i] = q[i + d]
          BY <2>7, <5>1
        <5>3. low < q[i + d].stamp /\ q[i + d].stamp <= sent /\ q[i + d].stamp \in Int
          BY <3>2, <3>3, <5>2 DEF Within
        <5> QED BY <1>1, <1>3, <5>2, <5>3
      <4> QED BY <4>1, <4>2
    <3>4. Increasing(k)
      <4> SUFFICES ASSUME NEW i \in 1..Len(k), NEW j \in 1..Len(k), i < j
                   PROVE  k[i].stamp < k[j].stamp
        BY DEF Increasing
      <4>1. i \in 1..(Len(k) - 1)
        BY <3>2
      <4>2. i + d \in 1..Len(q) /\ k[i] = q[i + d]
        BY <2>7, <4>1
      <4>3. q[i + d].stamp <= sent /\ q[i + d].stamp \in Int
        BY <2>4, <3>1, <3>2, <4>2 DEF WaitInOrder, Within
      <4>4. CASE j = Len(k)
        BY <1>1, <1>3, <2>3, <2>6, <4>2, <4>3, <4>4
      <4>5. CASE j # Len(k)
        <5>1. j \in 1..(Len(k) - 1)
          BY <3>2, <4>5
        <5>2. j + d \in 1..Len(q) /\ k[j] = q[j + d]
          BY <2>7, <5>1
        <5>3. i + d < j + d
          OBVIOUS
        <5> QED BY <2>4, <3>1, <4>2, <5>2, <5>3 DEF WaitInOrder, Increasing
      <4> QED BY <4>4, <4>5
    <3>5. handled[t] <= sent' /\ Within(k, handled[t], sent')
      BY <1>1, <1>3, <2>4, <3>1, <3>3 DEF WaitInOrder
    <3>6. ASSUME Serving(t)
          PROVE  /\ Within(batch, handled[t], sent')
                 /\ Within(k, batch[Len(batch)].stamp, sent')
      <4>1. batch \in Seq(Message) /\ batch # <<>>
        BY <3>6 DEF TypeOK, Serving
      <4>2. Len(batch) \in 1..Len(batch) /\ \A i \in 1..Len(batch) : batch[i].stamp \in Int
        BY <4>1, StampsAreNumbers
      <4>3. Within(batch, handled[t], sent) /\ Within(q, batch[Len(batch)].stamp, sent)
        BY <2>4, <3>1, <3>6 DEF WaitInOrder
      <4>4. batch[Len(batch)].stamp <= sent
        BY <4>2, <4>3 DEF Within
      <4>5. Within(batch, handled[t], sent')
        BY <1>1, <1>3, <4>2, <4>3 DEF Within
      <4> QED BY <3>3, <4>2, <4>3, <4>4, <4>5
    <3> QED BY <1>1, <1>2, <2>8, <3>1, <3>4, <3>5, <3>6 DEF WaitInOrder, Increasing, Within
  <2> QED BY <2>10, <2>11, <2>12, <2>13 DEF NewestKept, WaitingInOrder
<1> QED BY <1>4, <1>5

(* The oldest commands are taken, the younger ones stay behind them.       *)
LEMMA TakeKeeps ==
  ASSUME TypeOK, TypeOK', NewestKept, WaitingInOrder, Take
  PROVE  NewestKept' /\ WaitingInOrder'
<1>1. UNCHANGED <<kind, current, sent, arrived, handled>> /\ phase = "taking" /\ phase' = "handling"
  BY DEF Take
<1>2. topic' = topic /\ topic \in Topic
  BY <1>1, TopicServed DEF topic, Topics, IsDds
<1>3. PICK u \in Topic : u = topic
  BY <1>2
<1>4. \A t \in Topic : ~Serving(t) /\ (Serving(t)' <=> t = u)
  BY <1>1, <1>2, <1>3 DEF Serving
<1>5. PICK q \in Seq(Message) : q = pending[u] /\ q # <<>>
  BY <1>3 DEF Take, TypeOK
<1>6. PICK b, p : b = Taken(q)[1] /\ p = Taken(q)[2]
  OBVIOUS
<1>7. /\ b \in Seq(Message) /\ p \in Seq(Message) /\ b # <<>>
      /\ Len(q) = Len(b) + Len(p)
      /\ \A i \in 1..Len(b) : i \in 1..Len(q) /\ b[i] = q[i]
      /\ \A i \in 1..Len(p) : Len(b) + i \in 1..Len(q) /\ p[i] = q[Len(b) + i]
  BY <1>5, <1>6, TakenFacts
<1>8. batch' = b /\ pending'[u] = p /\ \A t \in Topic \ {u} : pending'[t] = pending[t]
  BY <1>3, <1>5, <1>6 DEF Take, TypeOK
<1>9. Len(b) \in Nat \ {0} /\ Len(p) \in Nat /\ Len(q) \in Nat
  BY <1>5, <1>7
<1>10. WaitInOrder(u) /\ Newest(u) /\ handled[u] \in Int /\ sent \in Int
  BY DEF WaitingInOrder, NewestKept, TypeOK
<1>11. Newest(u)'
  <2>1. q[Len(q)].stamp = arrived[u]
    BY <1>5, <1>10 DEF Newest
  <2>2. CASE p # <<>>
    <3>1. Len(p) \in 1..Len(p)
      BY <1>7, <1>9, <2>2
    <3>2. p[Len(p)] = q[Len(q)]
      BY <1>7, <3>1
    <3> QED BY <1>1, <1>8, <2>1, <2>2, <3>2 DEF Newest
  <2>3. CASE p = <<>>
    <3>1. Len(b) = Len(q) /\ Len(b) \in 1..Len(b)
      BY <1>7, <1>9, <2>3
    <3>2. b[Len(b)] = q[Len(q)]
      BY <1>7, <3>1
    <3> QED BY <1>1, <1>4, <1>8, <2>1, <2>3, <3>2 DEF Newest
  <2> QED BY <2>2, <2>3
<1>12. WaitInOrder(u)'
  <2>0. \A i \in 1..Len(q) : q[i].stamp \in Int
    BY StampsAreNumbers
  <2>1. Increasing(q) /\ Within(q, handled[u], sent)
    BY <1>5, <1>10 DEF WaitInOrder
  <2>2. Increasing(p)
    <3> SUFFICES ASSUME NEW i \in 1..Len(p), NEW j \in 1..Len(p), i < j
                 PROVE  p[i].stamp < p[j].stamp
      BY DEF Increasing
    <3>1. Len(b) + i < Len(b) + j
      BY <1>9
    <3> QED BY <1>7, <2>1, <3>1 DEF Increasing
  <2>3. Increasing(b) /\ Within(b, handled[u], sent) /\ Within(p, handled[u], sent)
    BY <1>7, <2>1 DEF Increasing, Within
  <2>4. Within(p, b[Len(b)].stamp, sent)
    <3> SUFFICES ASSUME NEW i \in 1..Len(p)
                 PROVE  b[Len(b)].stamp < p[i].stamp /\ p[i].stamp <= sent
      BY DEF Within
    <3>1. Len(b) \in 1..Len(b) /\ Len(b) < Len(b) + i
      BY <1>9
    <3>2. b[Len(b)] = q[Len(b)] /\ Len(b) \in 1..Len(q)
      BY <1>7, <3>1
    <3>3. p[i] = q[Len(b) + i] /\ Len(b) + i \in 1..Len(q)
      BY <1>7
    <3>4. q[Len(b)].stamp < q[Len(b) + i].stamp
      BY <2>1, <3>1, <3>2, <3>3 DEF Increasing
    <3> QED BY <2>1, <3>2, <3>3, <3>4 DEF Within
  <2> QED BY <1>1, <1>8, <1>10, <2>2, <2>3, <2>4 DEF WaitInOrder, Increasing, Within
<1>13. \A t \in Topic \ {u} : Newest(t)' /\ WaitInOrder(t)'
  BY <1>1, <1>4, <1>8 DEF NewestKept, Newest, WaitingInOrder, WaitInOrder, Increasing, Within
<1> QED BY <1>11, <1>12, <1>13 DEF NewestKept, WaitingInOrder

(* After the oldest command of the batch the next one is in turn.          *)
LEMMA DoneKeeps ==
  ASSUME TypeOK, TypeOK', NewestKept, WaitingInOrder, CommandDone
  PROVE  NewestKept' /\ WaitingInOrder'
<1>1. UNCHANGED <<kind, sent, arrived, pending>> /\ phase = "handling" /\ batch' = Tail(batch)
  BY DEF CommandDone, Rest
<1>2. PICK u \in Topic : u = topic
  BY <1>1, TopicServed
<1>3. \A t \in Topic : Serving(t) <=> t = u
  BY <1>1, <1>2 DEF Serving
<1>4. PICK b \in Seq(Message) : b = batch /\ b # <<>>
  BY <1>1 DEF TypeOK
<1>5. PICK r \in Seq(Message) : r = Tail(b)
  <2>1. Tail(b) \in Seq(Message)
    BY <1>4
  <2> QED BY <2>1
<1>6. Len(b) \in Nat \ {0} /\ Len(r) = Len(b) - 1 /\ \A i \in 1..Len(r) : i + 1 \in 1..Len(b) /\ r[i] = b[i + 1]
  BY <1>4, <1>5
<1>7. batch' = r
  BY <1>1, <1>4, <1>5
<1>8. handled'[u] = b[1].stamp /\ \A t \in Topic \ {u} : handled'[t] = handled[t]
  BY <1>2, <1>4 DEF CommandDone, TypeOK
<1>9. \A t \in Topic : Serving(t)' <=> t = u /\ r # <<>>
  <2>1. CASE r # <<>>
    <3>1. phase' = "handling" /\ topic' = topic
      BY <1>1, <1>7, <2>1 DEF CommandDone, Rest, topic, Topics, IsDds
    <3> QED BY <1>2, <2>1, <3>1 DEF Serving
  <2>2. CASE r = <<>>
    <3>1. phase' # "handling"
      BY <1>7, <2>2 DEF TypeOK
    <3> QED BY <2>2, <3>1 DEF Serving
  <2> QED BY <2>1, <2>2
<1>10. /\ WaitInOrder(u) /\ Newest(u) /\ handled[u] \in Int /\ sent \in Int
       /\ pending[u] \in Seq(Message)
  BY DEF WaitingInOrder, NewestKept, TypeOK
<1>11. /\ Increasing(b) /\ Within(b, handled[u], sent)
       /\ Within(pending[u], b[Len(b)].stamp, sent) /\ Increasing(pending[u])
  BY <1>3, <1>4, <1>10 DEF WaitInOrder
<1>12. /\ \A i \in 1..Len(b) : b[i].stamp \in Int
       /\ \A i \in 1..Len(pending[u]) : pending[u][i].stamp \in Int
  BY <1>10, StampsAreNumbers
<1>13. 1 \in 1..Len(b) /\ Len(b) \in 1..Len(b)
  BY <1>6
<1>14. Newest(u)'
  <2>1. CASE pending[u] # <<>>
    BY <1>1, <1>10, <2>1 DEF Newest
  <2>2. CASE pending[u] = <<>> /\ r # <<>>
    <3>1. Len(r) \in 1..Len(r)
      BY <1>5, <2>2
    <3>2. r[Len(r)] = b[Len(b)]
      BY <1>6, <3>1
    <3>3. b[Len(b)].stamp = arrived[u]
      BY <1>3, <1>4, <1>10, <2>2 DEF Newest
    <3> QED BY <1>1, <1>7, <1>9, <2>2, <3>2, <3>3 DEF Newest
  <2>3. CASE pending[u] = <<>> /\ r = <<>>
    <3>1. Len(b) = 1
      BY <1>6, <2>3
    <3>2. b[1].stamp = arrived[u]
      BY <1>3, <1>4, <1>10, <2>3, <3>1 DEF Newest
    <3> QED BY <1>1, <1>8, <1>9, <2>3, <3>2 DEF Newest
  <2> QED BY <2>1, <2>2, <2>3
<1>15. WaitInOrder(u)'
  <2>1. b[1].stamp <= b[Len(b)].stamp /\ b[1].stamp <= sent
    BY <1>6, <1>11, <1>12, <1>13 DEF Increasing, Within
  <2>2. Within(pending[u], b[1].stamp, sent)
    <3> SUFFICES ASSUME NEW i \in 1..Len(pending[u])
                 PROVE  b[1].stamp < pending[u][i].stamp /\ pending[u][i].stamp <= sent
      BY DEF Within
    <3>1. b[Len(b)].stamp < pending[u][i].stamp /\ pending[u][i].stamp <= sent
      BY <1>11 DEF Within
    <3> QED BY <1>12, <1>13, <2>1, <3>1
  <2>3. Increasing(r)
    <3> SUFFICES ASSUME NEW i \in 1..Len(r), NEW j \in 1..Len(r), i < j
                 PROVE  r[i].stamp < r[j].stamp
      BY DEF Increasing
    <3>1. i + 1 < j + 1
      OBVIOUS
    <3> QED BY <1>6, <1>11, <3>1 DEF Increasing
  <2>4. Within(r, b[1].stamp, sent)
    <3> SUFFICES ASSUME NEW i \in 1..Len(r)
                 PROVE  b[1].stamp < r[i].stamp /\ r[i].stamp <= sent
      BY DEF Within
    <3>1. i + 1 \in 1..Len(b) /\ r[i] = b[i + 1] /\ 1 < i + 1
      BY <1>6
    <3> QED BY <1>11, <1>13, <3>1 DEF Increasing, Within
  <2>5. ASSUME r # <<>> PROVE Within(pending[u], r[Len(r)].stamp, sent)
    <3>1. Len(r) \in 1..Len(r)
      BY <1>5, <2>5
    <3>2. r[Len(r)] = b[Len(b)]
      BY <1>6, <3>1
    <3> QED BY <1>11, <3>2
  <2> QED BY <1>1, <1>7, <1>8, <1>9, <1>11, <2>1, <2>2, <2>3, <2>4, <2>5
          DEF WaitInOrder, Increasing, Within
<1>16. \A t \in Topic \ {u} : Newest(t)' /\ WaitInOrder(t)'
  BY <1>1, <1>3, <1>8, <1>9 DEF NewestKept, Newest, WaitingInOrder, WaitInOrder, Increasing, Within
<1> QED BY <1>14, <1>15, <1>16 DEF NewestKept, WaitingInOrder

(* A failed start forgets what waits and counts it as handled.             *)
LEMMA FailureKeeps ==
  ASSUME TypeOK, WaitingInOrder, RegisterFails
  PROVE  NewestKept' /\ WaitingInOrder'
<1>1. /\ UNCHANGED <<sent, handled>> /\ phase' # "handling"
      /\ pending' = [t \in Topic |-> <<>>] /\ arrived' = handled
  BY DEF RegisterFails
<1>2. \A t \in Topic : ~Serving(t)' /\ pending'[t] = <<>> /\ arrived'[t] = handled[t] /\ handled'[t] = handled[t]
  BY <1>1 DEF Serving
<1>3. \A t \in Topic : Newest(t)'
  BY <1>2 DEF Newest
<1>4. ASSUME NEW t \in Topic PROVE WaitInOrder(t)'
  <2>1. handled[t] <= sent
    BY DEF WaitingInOrder, WaitInOrder
  <2>2. Len(<<>>) = 0 /\ 1..0 = {}
    OBVIOUS
  <2> QED BY <1>1, <1>2, <2>1, <2>2 DEF WaitInOrder, Increasing, Within
<1> QED BY <1>3, <1>4 DEF NewestKept, WaitingInOrder

LEMMA WaitingStep ==
  ASSUME TypeOK, TypeOK', NewestKept, WaitingInOrder, [Next]_vars
  PROVE  NewestKept' /\ WaitingInOrder'
<1>1. CASE Take
  BY <1>1, TakeKeeps
<1>2. CASE CommandDone
  BY <1>2, DoneKeeps
<1>3. CASE RegisterFails
  BY <1>3, FailureKeeps
<1>4. ASSUME NEW t \in Topic, Receive(t)
      PROVE  NewestKept' /\ WaitingInOrder'
  BY <1>4, ReceiveKeeps
<1>5. CASE \/ RegisterSubscriber \/ StartFails \/ Started \/ SpinOnce \/ TakeNothing \/ PushElement
           \/ \E t \in Topic : Lose(t)
           \/ \E c \in Channel : MasterPops(c)
           \/ ConnectionChanges
           \/ UNCHANGED vars
  BY <1>5, QuietSteps, QuietKeeps
<1> QED BY <1>1, <1>2, <1>3, <1>4, <1>5 DEF Next, Worker, Environment

-----------------------------------------------------------------------------
(* The order in which the master sees setpoints.                           *)

(* Places in the order of pushing.                                         *)
Place == Int \X Int
NotAfter(a, b) == a = b \/ Before(a, b)

LEMMA BeforeTransitive ==
  ASSUME NEW a \in Place, NEW b \in Place, NEW c \in Place, Before(a, b), NotAfter(b, c)
  PROVE  Before(a, c)
  BY DEF Place, Before, NotAfter

(* Frontiers, and what is queued or popped, have places.                   *)
HavePlaces ==
    /\ \A t \in Topic : Frontier(t) \in Place /\ popped[t] \in Place
    /\ \A c \in Channel : \A i \in 1..Len(tx[c]) :
           tx[c][i].topic \in Topic /\ At(tx[c][i]) \in Place

LEMMA Places == TypeOK => HavePlaces
<1> SUFFICES ASSUME TypeOK PROVE HavePlaces
  OBVIOUS
<1>1. ASSUME NEW t \in Topic PROVE Frontier(t) \in Place /\ popped[t] \in Place
  <2>1. popped[t] \in (0..MaxCommands) \X Nat /\ handled[t] \in Int /\ next \in Int
    BY DEF TypeOK
  <2>2. Serving(t) => batch[1].stamp \in Int
    <3> SUFFICES ASSUME Serving(t) PROVE batch[1].stamp \in Int
      OBVIOUS
    <3>1. batch \in Seq(Message) /\ batch # <<>>
      BY DEF TypeOK, Serving
    <3>2. 1 \in 1..Len(batch)
      BY <3>1
    <3> QED BY <3>1, <3>2, StampsAreNumbers
  <2>3. popped[t] \in Place
    BY <2>1 DEF Place
  <2> QED BY <2>1, <2>2, <2>3 DEF Frontier, Place
<1>2. ASSUME NEW c \in Channel, NEW i \in 1..Len(tx[c])
      PROVE  tx[c][i].topic \in Topic /\ At(tx[c][i]) \in Place
  <2>1. tx[c] \in Seq(Pdo)
    BY DEF TypeOK
  <2>2. tx[c][i] \in Pdo
    BY <2>1
  <2> QED BY <2>2 DEF Pdo, At, Place
<1> QED BY <1>1, <1>2 DEF HavePlaces

(* No step takes a frontier back.                                          *)
LEMMA FrontierAdvances ==
  ASSUME TypeOK, TypeOK', WaitingInOrder, [Next]_vars, NEW t \in Topic
  PROVE  NotAfter(Frontier(t), Frontier(t)')
<1>0. handled[t] \in Int /\ next \in Int
  BY DEF TypeOK
<1>1. CASE PushElement
  <2>1. batch' = batch /\ handled' = handled /\ Quiet
    BY <1>1, QuietSteps DEF PushElement
  <2>2. next' \in Int /\ next <= next'
    <3>1. batch[1].elements \in Seq(Target) /\ next <= Len(batch[1].elements)
      BY <1>1, ElementFacts, CommandAssumption DEF PushElement, Message
    <3>2. next' \in {next + 1, Len(batch[1].elements) + 1}
      BY <1>1 DEF PushElement
    <3> QED BY <1>0, <3>1, <3>2
  <2>3. Serving(t)' <=> Serving(t)
    BY <2>1 DEF Quiet
  <2> QED BY <1>0, <2>1, <2>2, <2>3 DEF Frontier, NotAfter, Before
<1>2. CASE Take
  <2>1. phase = "taking" /\ UNCHANGED <<kind, current, handled>> /\ next' = 1
    BY <1>2 DEF Take
  <2>2. ~Serving(t)
    BY <2>1 DEF Serving
  <2>3. CASE Serving(t)'
    <3>1. topic = t
      BY <2>1, <2>3 DEF Serving, topic, Topics, IsDds
    <3>2. PICK q \in Seq(Message) : q = pending[t] /\ q # <<>>
      BY <1>2, <3>1 DEF Take, TypeOK
    <3>3. batch' = Taken(q)[1]
      BY <1>2, <3>1, <3>2 DEF Take
    <3>4. 1 \in 1..Len(Taken(q)[1])
      <4>1. Taken(q)[1] \in Seq(Message) /\ Taken(q)[1] # <<>>
        BY <3>2, TakenFacts
      <4> QED BY <4>1
    <3>5. 1 \in 1..Len(q) /\ batch'[1] = q[1]
      BY <3>2, <3>3, <3>4, TakenFacts
    <3>6. handled[t] < q[1].stamp /\ q[1].stamp \in Int
      BY <3>2, <3>5, StampsAreNumbers DEF WaitingInOrder, WaitInOrder, Within
    <3> QED BY <1>0, <2>1, <2>2, <2>3, <3>5, <3>6 DEF Frontier, NotAfter, Before
  <2>4. CASE ~Serving(t)'
    BY <2>1, <2>2, <2>4 DEF Frontier, NotAfter
  <2> QED BY <2>3, <2>4
<1>3. CASE CommandDone
  <2>1. /\ phase = "handling" /\ UNCHANGED kind /\ next' = 1
        /\ batch' = Tail(batch) /\ handled' = [handled EXCEPT ![topic] = batch[1].stamp]
    BY <1>3 DEF CommandDone, Rest
  <2>2. CASE topic = t
    <3>1. Serving(t) /\ batch \in Seq(Message) /\ batch # <<>>
      BY <2>1, <2>2 DEF Serving, TypeOK
    <3>2. Frontier(t) = <<batch[1].stamp, next>> /\ handled'[t] = batch[1].stamp
      BY <2>1, <2>2, <3>1 DEF Frontier, TypeOK
    <3>3. 1 \in 1..Len(batch) /\ batch[1].stamp \in Int
      BY <3>1, StampsAreNumbers
    <3>4. CASE Serving(t)'
      <4>1. Tail(batch) # <<>>
        BY <2>1, <3>4 DEF Serving, TypeOK
      <4>2. 2 \in 1..Len(batch) /\ Tail(batch)[1] = batch[2]
        BY <3>1, <4>1
      <4>3. batch[1].stamp < batch[2].stamp /\ batch[2].stamp \in Int
        BY <3>1, <3>3, <4>2, StampsAreNumbers DEF WaitingInOrder, WaitInOrder, Increasing
      <4>4. Frontier(t)' = <<batch[2].stamp, next'>>
        BY <2>1, <3>4, <4>2 DEF Frontier
      <4> QED BY <1>0, <3>2, <3>3, <4>3, <4>4 DEF NotAfter, Before
    <3>5. CASE ~Serving(t)'
      BY <1>0, <3>2, <3>3, <3>5 DEF Frontier, NotAfter, Before
    <3> QED BY <3>4, <3>5
  <2>3. CASE topic # t
    <3>1. ~Serving(t) /\ handled'[t] = handled[t]
      BY <2>1, <2>3 DEF Serving, TypeOK
    <3>2. ~Serving(t)'
      <4>1. batch' # <<>> => topic' = topic
        BY <1>3, <2>1 DEF CommandDone, Rest, topic, Topics, IsDds
      <4>2. phase' = "handling" => batch' # <<>>
        BY DEF TypeOK
      <4> QED BY <2>3, <4>1, <4>2 DEF Serving
    <3> QED BY <3>1, <3>2 DEF Frontier, NotAfter
  <2> QED BY <2>2, <2>3
<1>4. CASE RegisterFails
  <2>1. phase # "handling" /\ phase' # "handling" /\ handled' = handled
    BY <1>4 DEF RegisterFails
  <2> QED BY <2>1 DEF Frontier, Serving, NotAfter
<1>5. ASSUME NEW u \in Topic, Receive(u)
      PROVE  NotAfter(Frontier(t), Frontier(t)')
  BY <1>5 DEF Receive, worker, Frontier, Serving, topic, Topics, IsDds, NotAfter
<1>6. CASE \/ RegisterSubscriber \/ StartFails \/ Started \/ SpinOnce \/ TakeNothing
           \/ \E u \in Topic : Lose(u)
           \/ \E c \in Channel : MasterPops(c)
           \/ ConnectionChanges
           \/ UNCHANGED vars
  <2>1. Quiet
    BY <1>6, QuietSteps
  <2>2. next' = next
    BY <1>6 DEF RegisterSubscriber, StartFails, Started, SpinOnce, TakeNothing, Lose, MasterPops,
                ConnectionChanges, vars, worker
  <2> QED BY <2>1, <2>2 DEF Quiet, Frontier, NotAfter
<1> QED BY <1>1, <1>2, <1>3, <1>4, <1>5, <1>6 DEF Next, Worker, Environment

LEMMA QueueSame ==
  ASSUME TypeOK, TypeOK', QueuesInOrder, UNCHANGED <<tx, popped>>,
         \A t \in Topic : NotAfter(Frontier(t), Frontier(t)')
  PROVE  QueuesInOrder'
<1>0. HavePlaces /\ HavePlaces'
  BY Places, PTL
<1>1. PoppedBefore'
  <2> SUFFICES ASSUME NEW t \in Topic PROVE Before(popped[t], Frontier(t)')
    BY DEF PoppedBefore
  <2>1. popped[t] \in Place /\ Frontier(t) \in Place /\ Frontier(t)' \in Place
    BY <1>0 DEF HavePlaces
  <2> QED BY <2>1, BeforeTransitive DEF QueuesInOrder, PoppedBefore
<1>2. QueuedBefore'
  <2> SUFFICES ASSUME NEW c \in Channel, NEW i \in 1..Len(tx[c])
               PROVE  Before(At(tx[c][i]), Frontier(tx[c][i].topic)')
    BY DEF QueuedBefore, Frontier, Serving
  <2>1. PICK u \in Topic : u = tx[c][i].topic
    BY <1>0 DEF HavePlaces
  <2>2. At(tx[c][i]) \in Place /\ Frontier(u) \in Place /\ Frontier(u)' \in Place
    BY <1>0 DEF HavePlaces
  <2>3. Before(At(tx[c][i]), Frontier(u))
    BY <2>1 DEF QueuesInOrder, QueuedBefore
  <2>4. Before(At(tx[c][i]), Frontier(u)')
    BY <2>2, <2>3, BeforeTransitive
  <2> QED BY <2>1, <2>4 DEF Frontier, Serving
<1>3. OwnChannel' /\ SetpointsAdvance'
  BY DEF QueuesInOrder, OwnChannel, SetpointsAdvance
<1> QED BY <1>1, <1>2, <1>3 DEF QueuesInOrder

(* A PDO is pushed at the frontier of its topic, behind all others.        *)
LEMMA QueuePush ==
  ASSUME TypeOK, TypeOK', WaitingInOrder, QueuesInOrder, PushElement
  PROVE  QueuesInOrder'
<1>0. HavePlaces /\ HavePlaces'
  BY Places, PTL
<1>1. \A t \in Topic : NotAfter(Frontier(t), Frontier(t)')
  BY FrontierAdvances DEF Next, Worker
<1>2. PICK m \in Message, id \in Target : m = batch[1] /\ id = m.elements[next]
  BY ElementFacts DEF PushElement
<1>3. CASE UNCHANGED tx
  <2>1. popped' = popped
    BY DEF PushElement
  <2> QED BY <1>1, <1>3, <2>1, QueueSame
<1>4. CASE ~UNCHANGED tx
  <2>1. /\ Enqueue(m, id) /\ next' = next + 1 /\ phase = "handling"
        /\ UNCHANGED <<kind, phase, current, batch, popped>>
    BY <1>2, <1>4 DEF PushElement
  <2>2. PICK u \in Topic, e \in Channel : u = topic /\ e = channel[u]
    BY <2>1, TopicServed, ChannelOfTopic
  <2>3. PICK n : n = [topic |-> u, stamp |-> m.stamp, place |-> next, id |-> id,
                      type |-> TypeOf(m, id)]
    OBVIOUS
  <2>4. tx' = [tx EXCEPT ![e] = Append(@, n)]
    BY <2>1, <2>2, <2>3 DEF Enqueue
  <2>5. Serving(u) /\ Serving(u)'
    BY <2>1, <2>2 DEF Serving, topic, Topics, IsDds
  <2>6. n.topic = u /\ At(n) = Frontier(u)
    BY <1>2, <2>3, <2>5 DEF At, Frontier
  <2>7. Before(At(n), Frontier(u)')
    <3>1. Frontier(u) = <<batch[1].stamp, next>> /\ Frontier(u)' = <<batch[1].stamp, next + 1>>
      BY <2>1, <2>5 DEF Frontier
    <3>2. next \in Int
      BY DEF TypeOK
    <3> QED BY <2>6, <3>1, <3>2 DEF Before
  <2>8. PICK l \in Nat : l = Len(tx[e])
    BY DEF TypeOK
  <2>9. /\ Len(tx'[e]) = l + 1 /\ tx'[e][l + 1] = n
        /\ \A i \in 1..l : tx'[e][i] = tx[e][i]
    <3>1. tx[e] \in Seq(Pdo) /\ tx'[e] = Append(tx[e], n)
      BY <2>4 DEF TypeOK
    <3> QED BY <2>8, <3>1
  <2>10. \A c \in Channel \ {e} : tx'[c] = tx[c]
    BY <2>4 DEF TypeOK
  <2>11. ASSUME NEW c \in Channel, NEW i \in 1..Len(tx'[c])
         PROVE  \/ c = e /\ i = l + 1
                \/ i \in 1..Len(tx[c]) /\ tx'[c][i] = tx[c][i]
                   /\ \A j \in 1..(i - 1) : j \in 1..Len(tx[c]) /\ tx'[c][j] = tx[c][j]
    <3>1. CASE c = e
      BY <2>8, <2>9, <3>1
    <3>2. CASE c # e
      <4>1. tx'[c] = tx[c] /\ Len(tx[c]) \in Nat
        BY <2>10, <3>2 DEF TypeOK
      <4> QED BY <4>1
    <3> QED BY <3>1, <3>2
  <2>12. PoppedBefore'
    <3> SUFFICES ASSUME NEW t \in Topic PROVE Before(popped[t], Frontier(t)')
      BY <2>1 DEF PoppedBefore
    <3>1. popped[t] \in Place /\ Frontier(t) \in Place /\ Frontier(t)' \in Place
      BY <1>0 DEF HavePlaces
    <3> QED BY <1>1, <3>1, BeforeTransitive DEF QueuesInOrder, PoppedBefore
  <2>13. ASSUME NEW c \in Channel, NEW i \in 1..Len(tx'[c])
         PROVE  /\ \A t \in Topic : t = tx'[c][i].topic => Before(At(tx'[c][i]), Frontier(t)')
                /\ channel[tx'[c][i].topic] = c
                /\ Before(popped[tx'[c][i].topic], At(tx'[c][i]))
                /\ \A j \in 1..(i - 1) :
                       tx'[c][j].topic = tx'[c][i].topic => Before(At(tx'[c][j]), At(tx'[c][i]))
    <3>1. CASE c = e /\ i = l + 1
      <4>1. tx'[c][i] = n
        BY <2>9, <3>1
      <4>2. Before(popped[u], At(n))
        BY <2>6 DEF QueuesInOrder, PoppedBefore
      <4>3. ASSUME NEW j \in 1..(i - 1), tx'[c][j].topic = u
            PROVE  Before(At(tx'[c][j]), At(n))
        <5>1. j \in 1..l /\ j \in 1..Len(tx[e]) /\ tx'[c][j] = tx[e][j]
          BY <2>8, <2>9, <3>1
        <5>2. Before(At(tx[e][j]), Frontier(tx[e][j].topic))
          BY <5>1 DEF QueuesInOrder, QueuedBefore
        <5>3. tx[e][j].topic = u
          BY <4>3, <5>1
        <5> QED BY <2>6, <5>1, <5>2, <5>3
      <4> QED BY <2>2, <2>6, <2>7, <3>1, <4>1, <4>2, <4>3
    <3>2. CASE \A j \in 1..i : j \in 1..Len(tx[c]) /\ tx'[c][j] = tx[c][j]
      <4>1. i \in 1..i /\ \A j \in 1..(i - 1) : j \in 1..i
        OBVIOUS
      <4>2. i \in 1..Len(tx[c]) /\ tx'[c][i] = tx[c][i]
        BY <3>2, <4>1
      <4>3. channel[tx[c][i].topic] = c /\ Before(popped[tx[c][i].topic], At(tx[c][i]))
        BY <4>2 DEF QueuesInOrder, OwnChannel, SetpointsAdvance
      <4>4. ASSUME NEW j \in 1..(i - 1), tx[c][j].topic = tx[c][i].topic
            PROVE  Before(At(tx[c][j]), At(tx[c][i]))
        BY <4>2, <4>4 DEF QueuesInOrder, SetpointsAdvance
      <4>5. ASSUME NEW t \in Topic, t = tx[c][i].topic
            PROVE  Before(At(tx[c][i]), Frontier(t)')
        <5>1. Before(At(tx[c][i]), Frontier(t))
          BY <4>2, <4>5 DEF QueuesInOrder, QueuedBefore
        <5>2. At(tx[c][i]) \in Place /\ Frontier(t) \in Place /\ Frontier(t)' \in Place
          BY <1>0, <4>2 DEF HavePlaces
        <5> QED BY <1>1, <5>1, <5>2, BeforeTransitive
      <4> QED BY <3>2, <4>1, <4>2, <4>3, <4>4, <4>5
    <3>3. \/ c = e /\ i = l + 1
          \/ \A j \in 1..i : j \in 1..Len(tx[c]) /\ tx'[c][j] = tx[c][j]
      <4>1. i \in Nat \ {0} /\ \A j \in 1..i : j = i \/ j \in 1..(i - 1)
        <5>1. Len(tx'[c]) \in Nat
          BY DEF TypeOK
        <5> QED BY <5>1
      <4> QED BY <2>11, <4>1
    <3> QED BY <3>1, <3>2, <3>3
  <2>14. QueuedBefore'
    <3>1. \A c \in Channel : \A i \in 1..Len(tx'[c]) : tx'[c][i].topic \in Topic
      BY <1>0 DEF HavePlaces
    <3> QED BY <2>13, <3>1 DEF QueuedBefore
  <2>15. OwnChannel'
    BY <2>13 DEF OwnChannel
  <2>16. SetpointsAdvance'
    BY <2>1, <2>13 DEF SetpointsAdvance
  <2> QED BY <2>12, <2>14, <2>15, <2>16 DEF QueuesInOrder
<1> QED BY <1>3, <1>4

(* The master takes the oldest PDO of a channel.                           *)
LEMMA QueuePop ==
  ASSUME TypeOK, TypeOK', QueuesInOrder, NEW c \in Channel, MasterPops(c)
  PROVE  QueuesInOrder'
<1>0. HavePlaces
  BY Places
<1>1. /\ \A t \in Topic : Frontier(t)' = Frontier(t)
      /\ tx[c] \in Seq(Pdo) /\ tx[c] # <<>>
  BY DEF MasterPops, worker, Frontier, Serving, topic, Topics, IsDds, TypeOK
<1>2. 1 \in 1..Len(tx[c]) /\ Head(tx[c]) = tx[c][1]
  BY <1>1
<1>3. PICK u \in Topic : u = tx[c][1].topic
  BY <1>0, <1>2 DEF HavePlaces
<1>4. PICK a \in Place : a = At(tx[c][1])
  BY <1>0, <1>2 DEF HavePlaces
<1>5. /\ popped'[u] = a
      /\ \A t \in Topic \ {u} : popped'[t] = popped[t]
  BY <1>2, <1>3, <1>4 DEF MasterPops, At, TypeOK
<1>6. /\ Len(tx'[c]) = Len(tx[c]) - 1 /\ Len(tx[c]) \in Nat \ {0}
      /\ \A i \in 1..(Len(tx[c]) - 1) : i + 1 \in 1..Len(tx[c]) /\ tx'[c][i] = tx[c][i + 1]
  <2>1. tx'[c] = Tail(tx[c])
    BY DEF MasterPops, TypeOK
  <2> QED BY <1>1, <2>1
<1>7. \A d \in Channel \ {c} : tx'[d] = tx[d]
  BY DEF MasterPops, TypeOK
<1>8. PoppedBefore'
  <2>1. Before(a, Frontier(u))
    BY <1>2, <1>3, <1>4 DEF QueuesInOrder, QueuedBefore
  <2> QED BY <1>1, <1>5, <2>1 DEF QueuesInOrder, PoppedBefore
<1>9. ASSUME NEW d \in Channel, NEW i \in 1..Len(tx'[d])
      PROVE  /\ \A t \in Topic : t = tx'[d][i].topic => Before(At(tx'[d][i]), Frontier(t))
             /\ channel[tx'[d][i].topic] = d
             /\ Before(popped'[tx'[d][i].topic], At(tx'[d][i]))
             /\ \A j \in 1..(i - 1) :
                    tx'[d][j].topic = tx'[d][i].topic => Before(At(tx'[d][j]), At(tx'[d][i]))
  <2>1. CASE d = c
    <3>1. i \in Nat \ {0} /\ i \in 1..(Len(tx[c]) - 1) /\ 1 \in 1..((i + 1) - 1)
      BY <1>6, <2>1
    <3>2. i + 1 \in 1..Len(tx[c]) /\ tx'[d][i] = tx[c][i + 1]
      BY <1>6, <2>1, <3>1
    <3>3. \A t \in Topic : t = tx[c][i + 1].topic => Before(At(tx[c][i + 1]), Frontier(t))
      BY <3>2 DEF QueuesInOrder, QueuedBefore
    <3>4. channel[tx[c][i + 1].topic] = c /\ tx[c][i + 1].topic \in Topic
      BY <1>0, <3>2 DEF QueuesInOrder, OwnChannel, HavePlaces
    <3>5. \A j \in 1..((i + 1) - 1) :
              tx[c][j].topic = tx[c][i + 1].topic => Before(At(tx[c][j]), At(tx[c][i + 1]))
      BY <3>2 DEF QueuesInOrder, SetpointsAdvance
    <3>6. Before(popped'[tx[c][i + 1].topic], At(tx[c][i + 1]))
      <4>1. CASE tx[c][i + 1].topic = u
        BY <1>3, <1>4, <1>5, <3>1, <3>5, <4>1
      <4>2. CASE tx[c][i + 1].topic # u
        <5>1. Before(popped[tx[c][i + 1].topic], At(tx[c][i + 1]))
          BY <3>2 DEF QueuesInOrder, SetpointsAdvance
        <5> QED BY <1>5, <3>4, <4>2, <5>1
      <4> QED BY <4>1, <4>2
    <3>7. ASSUME NEW j \in 1..(i - 1), tx'[d][j].topic = tx[c][i + 1].topic
          PROVE  Before(At(tx'[d][j]), At(tx[c][i + 1]))
      <4>1. j \in 1..(Len(tx[c]) - 1) /\ j + 1 \in 1..((i + 1) - 1)
        BY <1>6, <3>1
      <4>2. tx'[d][j] = tx[c][j + 1]
        BY <1>6, <2>1, <4>1
      <4> QED BY <3>5, <3>7, <4>1, <4>2
    <3> QED BY <2>1, <3>2, <3>3, <3>4, <3>6, <3>7
  <2>2. CASE d # c
    <3>1. tx'[d] = tx[d]
      BY <1>7, <2>2
    <3>2. /\ \A t \in Topic : t = tx[d][i].topic => Before(At(tx[d][i]), Frontier(t))
          /\ channel[tx[d][i].topic] = d /\ tx[d][i].topic \in Topic
          /\ Before(popped[tx[d][i].topic], At(tx[d][i]))
          /\ \A j \in 1..(i - 1) :
                 tx[d][j].topic = tx[d][i].topic => Before(At(tx[d][j]), At(tx[d][i]))
      BY <1>0, <3>1 DEF QueuesInOrder, QueuedBefore, OwnChannel, SetpointsAdvance, HavePlaces
    <3>3. channel[u] = c
      BY <1>2, <1>3 DEF QueuesInOrder, OwnChannel
    <3>4. tx[d][i].topic # u
      BY <2>2, <3>2, <3>3
    <3> QED BY <1>5, <3>1, <3>2, <3>4
  <2> QED BY <2>1, <2>2
<1>10. QueuedBefore'
  <2>1. \A d \in Channel : \A i \in 1..Len(tx'[d]) : tx'[d][i].topic \in Topic
    <3>1. HavePlaces'
      BY Places, PTL
    <3> QED BY <3>1 DEF HavePlaces
  <2> QED BY <1>1, <1>9, <2>1 DEF QueuedBefore
<1>11. OwnChannel'
  BY <1>9 DEF OwnChannel
<1>12. SetpointsAdvance'
  BY <1>9 DEF SetpointsAdvance
<1> QED BY <1>8, <1>10, <1>11, <1>12 DEF QueuesInOrder

LEMMA QueueStep ==
  ASSUME TypeOK, TypeOK', WaitingInOrder, QueuesInOrder, [Next]_vars
  PROVE  QueuesInOrder'
<1>1. CASE PushElement
  BY <1>1, QueuePush
<1>2. CASE \E c \in Channel : MasterPops(c)
  BY <1>2, QueuePop
<1>3. CASE ~PushElement /\ ~\E c \in Channel : MasterPops(c)
  <2>1. UNCHANGED <<tx, popped>>
    BY <1>3 DEF Next, Worker, Environment, RegisterSubscriber, RegisterFails, StartFails, Started,
                SpinOnce, Take, TakeNothing, CommandDone, Receive, Lose, ConnectionChanges, vars
  <2> QED BY <2>1, FrontierAdvances, QueueSame
<1> QED BY <1>1, <1>2, <1>3

-----------------------------------------------------------------------------
(* Elements of a command.                                                  *)

LEMMA UnbrokenStep ==
  ASSUME TypeOK, Unbroken, [Next]_vars
  PROVE  Unbroken'
<1> SUFFICES ASSUME ~IsDds'
             PROVE  \E k \in 0..(next' - 1) :
                        /\ accepted' = 1..k
                        /\ phase' = "handling" /\ next' <= Len(batch'[1].elements) => k = next' - 1
  BY DEF Unbroken
<1>1. ~IsDds
  <2>1. kind' = kind
    BY DEF Next, Worker, Environment, RegisterSubscriber, RegisterFails, StartFails, Started,
           SpinOnce, Take, TakeNothing, PushElement, CommandDone, Receive, Lose, MasterPops,
           ConnectionChanges, vars
  <2> QED BY <2>1 DEF IsDds
<1>2. PICK k \in 0..(next - 1) :
          /\ accepted = 1..k
          /\ phase = "handling" /\ next <= Len(batch[1].elements) => k = next - 1
  BY <1>1 DEF Unbroken
<1>3. next \in Nat \ {0}
  BY DEF TypeOK
<1>4. CASE Take \/ CommandDone
  <2>1. next' = 1 /\ accepted' = {}
    BY <1>4 DEF Take, CommandDone
  <2>2. 1..0 = {} /\ 0 \in 0..(1 - 1) /\ 0 = 1 - 1
    OBVIOUS
  <2> QED BY <2>1, <2>2
<1>5. CASE PushElement
  <2>1. /\ phase = "handling" /\ next <= Len(batch[1].elements) /\ batch' = batch
    BY <1>5 DEF PushElement
  <2>2. k = next - 1
    BY <1>2, <2>1
  <2>3. CASE accepted' = accepted \cup {next} /\ next' = next + 1
    <3>1. accepted' = 1..next
      BY <1>2, <1>3, <2>2, <2>3
    <3>2. next \in 0..(next' - 1) /\ next = next' - 1
      BY <1>3, <2>3
    <3> QED BY <3>1, <3>2
  <2>4. CASE accepted' = accepted /\ next' = Len(batch[1].elements) + 1
    <3>1. PICK n \in Nat : n = Len(batch[1].elements)
      <4>1. batch[1].elements \in Seq(Target)
        BY <2>1, ElementFacts, CommandAssumption DEF Message
      <4> QED BY <4>1
    <3>2. k \in 0..(next' - 1) /\ ~(next' <= Len(batch'[1].elements))
      BY <1>3, <2>1, <2>2, <2>4, <3>1
    <3> QED BY <1>2, <2>4, <3>2
  <2> QED BY <1>1, <1>5, <2>3, <2>4 DEF PushElement, GoOnBehindRefusal
<1>6. CASE ~(Take \/ CommandDone) /\ ~PushElement
  <2>1. UNCHANGED <<next, accepted, batch>>
    BY <1>6 DEF Next, Worker, Environment, RegisterSubscriber, RegisterFails, StartFails, Started,
                SpinOnce, TakeNothing, Receive, Lose, MasterPops, ConnectionChanges, vars, worker
  <2>2. phase' = "handling" => phase = "handling"
    BY <1>6 DEF Next, Worker, Environment, RegisterSubscriber, RegisterFails, StartFails, Started,
                SpinOnce, TakeNothing, NextSubscriber, Receive, Lose, MasterPops, ConnectionChanges,
                vars, worker
  <2> QED BY <1>2, <2>1, <2>2
<1> QED BY <1>4, <1>5, <1>6

-----------------------------------------------------------------------------
(* The results.                                                            *)

LEMMA CommandInvariant == Spec => []IInv
<1>1. Init => IInv
  <2> SUFFICES ASSUME Init PROVE IInv
    OBVIOUS
  <2>1. \A t \in Topic : /\ ~Serving(t) /\ pending[t] = <<>> /\ arrived[t] = 0 /\ handled[t] = 0
                         /\ sent = 0 /\ popped[t] = <<0, 0>>
    BY DEF Init, Serving
  <2>2. Len(<<>>) = 0 /\ 1..0 = {}
    OBVIOUS
  <2>3. NewestKept
    BY <2>1 DEF NewestKept, Newest
  <2>4. WaitingInOrder
    BY <2>1, <2>2 DEF WaitingInOrder, WaitInOrder, Increasing, Within
  <2>5. \A c \in Channel : 1..Len(tx[c]) = {}
    BY <2>2 DEF Init
  <2>6. PoppedBefore
    BY <2>1 DEF PoppedBefore, Frontier, Before
  <2>7. QueuedBefore /\ OwnChannel /\ SetpointsAdvance
    BY <2>5 DEF QueuedBefore, OwnChannel, SetpointsAdvance
  <2>8. Unbroken
    <3>1. next = 1 /\ accepted = {} /\ 1..0 = {} /\ 0 \in 0..(1 - 1) /\ 0 = 1 - 1
      BY DEF Init
    <3> QED BY <3>1 DEF Unbroken
  <2> QED BY <2>3, <2>4, <2>6, <2>7, <2>8, TypeInit DEF QueuesInOrder, IInv
<1>2. IInv /\ [Next]_vars => IInv'
  <2> SUFFICES ASSUME IInv, [Next]_vars PROVE IInv'
    OBVIOUS
  <2>1. TypeOK'
    BY TypeStep DEF IInv
  <2>2. NewestKept' /\ WaitingInOrder'
    BY <2>1, WaitingStep DEF IInv
  <2>3. QueuesInOrder'
    BY <2>1, QueueStep DEF IInv
  <2>4. Unbroken'
    BY UnbrokenStep DEF IInv
  <2> QED BY <2>1, <2>2, <2>3, <2>4 DEF IInv
<1> QED BY <1>1, <1>2, PTL DEF Spec

(* The master never gets an older setpoint of a topic behind a newer one,  *)
(* nor one element of a command twice, for every number of topics that     *)
(* share a channel, every depth of the history and every capacity of the   *)
(* queues (the worker's loops over a taken batch and over a command's      *)
(* elements, and the order of push() and pop()).                           *)
THEOREM SetpointsInOrder == Spec => []SetpointsAdvance
<1>1. IInv => SetpointsAdvance
  BY DEF IInv, QueuesInOrder
<1> QED BY <1>1, CommandInvariant, PTL

(* The command that arrived last on a topic is never dropped: it is done,  *)
(* or it is the last of those taken or of those pending, whatever the      *)
(* depth of the history and however slow the worker (KEEP_LAST readers of  *)
(* the DDS adapters, pending_ of ZenohSubscriber).                         *)
THEOREM NewestCommandIsKept == Spec => []NewestIsKept
<1>1. IInv => NewestIsKept
  <2> SUFFICES ASSUME IInv, NEW s \in 1..subscribers
               PROVE  LET t == Topics[s]
                          waiting == (IF s = current THEN batch ELSE <<>>) \o pending[t]
                      IN  \/ arrived[t] = handled[t] /\ waiting = <<>>
                          \/ waiting # <<>> /\ waiting[Len(waiting)].stamp = arrived[t]
    BY DEF NewestIsKept
  <2>1. PICK t \in Topic : t = Topics[s] /\ s \in 1..Len(Topics)
    <3>1. Len(Topics) \in Nat /\ s \in 1..Len(Topics)
      BY TopicsDistinct DEF IInv, TypeOK
    <3> QED BY <3>1, TopicsDistinct
  <2>2. PICK b \in Seq(Message) : b = IF s = current THEN batch ELSE <<>>
    <3>1. (IF s = current THEN batch ELSE <<>>) \in Seq(Message)
      BY DEF IInv, TypeOK
    <3> QED BY <3>1
  <2>3. b # <<>> <=> Serving(t)
    <3>1. CASE phase = "handling"
      <4>1. current \in 1..Len(Topics) /\ batch # <<>>
        BY <3>1, TopicServed DEF IInv, TypeOK
      <4> QED BY <2>1, <2>2, <3>1, <4>1, TopicsDistinct DEF Serving, topic
    <3>2. CASE phase # "handling"
      BY <2>2, <3>2 DEF IInv, TypeOK, Serving
    <3> QED BY <3>1, <3>2
  <2>4. b # <<>> => b = batch
    BY <2>2
  <2>5. pending[t] \in Seq(Message) /\ Newest(t)
    BY DEF IInv, TypeOK, NewestKept
  <2>6. CASE pending[t] # <<>>
    <3>1. /\ Len(b) \in Nat /\ Len(pending[t]) \in Nat \ {0}
          /\ Len(b \o pending[t]) = Len(b) + Len(pending[t])
      BY <2>5, <2>6
    <3>2. (b \o pending[t])[Len(b) + Len(pending[t])] = pending[t][Len(pending[t])]
      BY <2>5, <3>1
    <3>3. b \o pending[t] # <<>>
      BY <3>1
    <3> QED BY <2>1, <2>2, <2>5, <2>6, <3>1, <3>2, <3>3 DEF Newest
  <2>7. CASE pending[t] = <<>>
    <3>1. b \o pending[t] = b
      BY <2>7
    <3> QED BY <2>1, <2>2, <2>3, <2>4, <2>5, <2>7, <3>1 DEF Newest
  <2> QED BY <2>6, <2>7
<1> QED BY <1>1, CommandInvariant, PTL

(* What the master gets of a Zenoh command is its first elements, however  *)
(* connection and queue change between two elements (the early return of   *)
(* ZenohSubscriber's loop over the decoded PDOs).                          *)
THEOREM ZenohCommandsHaveNoGaps == Spec => []NoGaps
<1>1. IInv => NoGaps
  <2> SUFFICES ASSUME IInv, ~IsDds PROVE accepted = 1..Cardinality(accepted)
    BY DEF NoGaps
  <2>1. PICK k \in 0..(next - 1) : accepted = 1..k
    BY DEF IInv, Unbroken
  <2>2. k \in Nat
    BY DEF IInv, TypeOK
  <2>3. Cardinality(1..k) = IF 1 > k THEN 0 ELSE (k - 1) + 1
    BY <2>2, FS_Interval
  <2>4. Cardinality(1..k) = k
    BY <2>2, <2>3
  <2> QED BY <2>1, <2>4
<1> QED BY <1>1, CommandInvariant, PTL
=============================================================================
