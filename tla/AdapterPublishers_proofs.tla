----------------------- MODULE AdapterPublishers_proofs -----------------------
(***************************************************************************)
(* Proofs about AdapterPublishers, for every set of channels, sources and  *)
(* subscriptions and every queue capacity.                                 *)
(***************************************************************************)
EXTENDS AdapterPublishers, TLAPS

(* The channels of the loops are channels, and each has one index.         *)
LEMMA ChannelAt ==
    ASSUME NEW i \in 1..Len(CHANNELS_ARRAY)
    PROVE  CHANNELS_ARRAY[i] \in Channel
  BY DEF Channel

LEMMA SubChannelAt ==
    ASSUME NEW s \in Sub, NEW i \in 1..Len(subscriptions[s].channels)
    PROVE  subscriptions[s].channels[i] \in Channel
  <1>1. subscriptions[s] \in Registration
    BY SubscriptionsAssumption DEF Sub
  <1>2. subscriptions[s].channels \in Seq(Channel)
    BY <1>1 DEF Registration
  <1>. QED
    BY <1>2

-----------------------------------------------------------------------------
(***************************************************************************)
(* The variables of the adapter keep their types: in particular no ID      *)
(* outside the fixed-size cache is ever used as an index (fill_cache).     *)
(***************************************************************************)
LEMMA InitTypeOK == Init => TypeOK
  <1> SUFFICES ASSUME Init
               PROVE  TypeOK
    OBVIOUS
  <1>1. HistoryTypeOK
    BY DEF Init, HistoryTypeOK
  <1>2. /\ entries \in [Channel -> [EcatId -> Entry]]
        /\ accepted \in [Channel -> [EcatId -> Nat]]
    BY SourcesAssumption DEF Init, Entry, NoEntry
  <1>3. /\ queue \in [Channel -> Seq(Pdo)]
        /\ active_ids \in [Channel -> Seq(EcatId)]
        /\ message \in Seq(Sample)
    BY DEF Init
  <1>. QED
    BY <1>1, <1>2, <1>3 DEF Init, TypeOK

LEMMA PushTypeOK ==
    ASSUME TypeOK, NEW src \in Sources, MasterPush(src)
    PROVE  TypeOK'
  <1> DEFINE c == src.channel
             pdo == [has_index |-> src.has_index, id |-> src.id,
                     type |-> src.type, stamp |-> stamp[c] + 1]
  <1>0. src \in Source
    BY SourcesAssumption
  <1>1. /\ c \in Channel
        /\ pdo \in Pdo
        /\ stamp[c] \in Nat
    <2>1. c \in Channel /\ src.has_index \in BOOLEAN /\ src.id \in Nat
          /\ src.type \in Types
      BY <1>0 DEF Source
    <2>2. stamp[c] \in Nat
      BY <2>1 DEF TypeOK
    <2>3. stamp[c] + 1 \in Nat \ {0}
      BY <2>2
    <2>. QED
      BY <2>1, <2>2, <2>3 DEF Pdo
  <1>2. UNCHANGED <<cache, pc, cursor, publisher, history>>
    BY DEF MasterPush
  <1>3. stamp' \in [Channel -> Nat]
    <2>1. stamp' = [stamp EXCEPT ![c] = stamp[c] + 1]
      BY DEF MasterPush
    <2>2. stamp \in [Channel -> Nat]
      BY DEF TypeOK
    <2>. QED
      BY <1>1, <2>1, <2>2
  <1>4. queue' \in [Channel -> Seq(Pdo)]
    <2>1. Append(queue[c], pdo) \in Seq(Pdo)
      BY <1>1 DEF TypeOK
    <2>. QED
      BY <1>1, <2>1 DEF MasterPush, TypeOK
  <1>5. accepted' \in [Channel -> [EcatId -> Nat]]
    <2>1. CASE UNCHANGED accepted
      BY <2>1 DEF TypeOK
    <2>2. CASE /\ Accepted(pdo)
               /\ accepted' = [accepted EXCEPT ![c][pdo.id] = pdo.stamp]
      <3>1. pdo.id \in EcatId /\ pdo.stamp \in Nat
        BY <1>1, <2>2, SourcesAssumption DEF Accepted, Pdo, EcatId
      <3>. QED
        BY <1>1, <2>2, <3>1 DEF TypeOK
    <2>. QED
      BY <2>1, <2>2 DEF MasterPush
  <1>. QED
    BY <1>2, <1>3, <1>4, <1>5
    DEF TypeOK, HistoryTypeOK, cache, cursor, publisher, history

LEMMA OtherDrainsTypeOK ==
    ASSUME TypeOK, NEW c \in SharedChannels, OtherDrains(c)
    PROVE  TypeOK'
  <1>1. c \in Channel
    BY SourcesAssumption
  <1>2. queue[c] \in Seq(Pdo) /\ queue[c] # <<>>
    BY <1>1 DEF TypeOK, OtherDrains
  <1>3. Tail(queue[c]) \in Seq(Pdo) /\ Head(queue[c]) \in Pdo
    BY <1>2
  <1>4. queue' \in [Channel -> Seq(Pdo)]
    BY <1>1, <1>3 DEF OtherDrains, TypeOK
  <1>5. accepted' \in [Channel -> [EcatId -> Nat]]
    <2> DEFINE pdo == Head(queue[c])
    <2>1. CASE UNCHANGED accepted
      BY <2>1 DEF TypeOK
    <2>2. CASE /\ Accepted(pdo)
               /\ accepted' = [accepted EXCEPT ![c][pdo.id] = 0]
      <3>1. pdo.id \in EcatId
        BY <1>3, <2>2, SourcesAssumption DEF Accepted, Pdo, EcatId
      <3>. QED
        BY <1>1, <2>2, <3>1 DEF TypeOK
    <2>. QED
      BY <2>1, <2>2 DEF OtherDrains
  <1>. QED
    BY <1>4, <1>5 DEF OtherDrains, TypeOK, HistoryTypeOK, cache, cursor,
                      publisher, history

LEMMA SpinTypeOK ==
    ASSUME TypeOK, SpinOnce
    PROVE  TypeOK'
  BY ChannelsAssumption
  DEF TypeOK, HistoryTypeOK, SpinOnce, shm, cache, publisher

LEMMA ClearTypeOK ==
    ASSUME TypeOK, ClearUpdated
    PROVE  TypeOK'
  <1> DEFINE c == CHANNELS_ARRAY[chan]
             cleared == [id \in EcatId |-> [entries[c][id] EXCEPT !.updated = FALSE]]
  <1>1. c \in Channel
    BY ChannelAt DEF TypeOK, ClearUpdated
  <1>2. cleared \in [EcatId -> Entry]
    <2> SUFFICES ASSUME NEW id \in EcatId
                 PROVE  [entries[c][id] EXCEPT !.updated = FALSE] \in Entry
      OBVIOUS
    <2>1. entries[c][id] \in Entry
      BY <1>1 DEF TypeOK
    <2>. QED
      BY <2>1 DEF Entry
  <1>3. entries' = [entries EXCEPT ![c] = cleared]
    BY DEF ClearUpdated, Cleared
  <1>4. entries' \in [Channel -> [EcatId -> Entry]]
    BY <1>1, <1>2, <1>3 DEF TypeOK
  <1>5. /\ pc = "clear" /\ pc' = "drain"
        /\ UNCHANGED <<shm, active_ids, cursor, publisher, history>>
    BY DEF ClearUpdated
  <1>. QED
    BY <1>4, <1>5 DEF TypeOK, HistoryTypeOK, shm, cursor, publisher, history

LEMMA DrainTypeOK ==
    ASSUME TypeOK, DrainOne
    PROVE  TypeOK'
  <1> DEFINE c == CHANNELS_ARRAY[chan]
             received == Head(queue[c])
  <1>1. c \in Channel /\ pc = "drain"
    BY ChannelAt DEF TypeOK, DrainOne
  <1>2. queue[c] \in Seq(Pdo) /\ queue[c] # <<>>
    BY <1>1 DEF TypeOK, DrainOne
  <1>3. received \in Pdo /\ Tail(queue[c]) \in Seq(Pdo)
    BY <1>2
  <1>4. queue' \in [Channel -> Seq(Pdo)]
    <2>1. queue' = [queue EXCEPT ![c] = Tail(queue[c])]
      BY DEF DrainOne
    <2>. QED
      BY <1>1, <1>3, <2>1 DEF TypeOK
  <1>5. UNCHANGED <<stamp, accepted, pc, cursor, publisher, history>>
    BY DEF DrainOne
  <1>6. /\ active_ids' \in [Channel -> Seq(EcatId)]
        /\ entries' \in [Channel -> [EcatId -> Entry]]
    <2>1. CASE ~Accepted(received)
      BY <2>1 DEF DrainOne, TypeOK, cache
    <2>2. CASE Accepted(received)
      <3> DEFINE id == received.id
                 new == [valid |-> TRUE, updated |-> TRUE,
                         type |-> received.type, stamp |-> received.stamp]
      <3>1. id \in EcatId
        BY <1>3, <2>2, SourcesAssumption DEF Accepted, Pdo, EcatId
      <3>2. new \in Entry
        BY <1>3 DEF Pdo, Entry
      <3>3. entries' = [entries EXCEPT ![c][id] = new]
        BY <2>2 DEF DrainOne, Received
      <3>4. entries' \in [Channel -> [EcatId -> Entry]]
        BY <1>1, <3>1, <3>2, <3>3 DEF TypeOK
      <3>5. \/ active_ids' = [active_ids EXCEPT ![c] = active_ids[c]]
            \/ active_ids' = [active_ids EXCEPT ![c] = Append(active_ids[c], id)]
        BY <2>2 DEF DrainOne, Listed
      <3>6. active_ids' \in [Channel -> Seq(EcatId)]
        <4>1. Append(active_ids[c], id) \in Seq(EcatId)
          BY <1>1, <3>1 DEF TypeOK
        <4>. QED
          BY <1>1, <3>5, <4>1 DEF TypeOK
      <3>. QED
        BY <3>4, <3>6
    <2>. QED
      BY <2>1, <2>2
  <1>. QED
    BY <1>1, <1>4, <1>5, <1>6 DEF TypeOK, HistoryTypeOK, cursor, publisher, history

LEMMA DrainDoneTypeOK ==
    ASSUME TypeOK, DrainDone
    PROVE  TypeOK'
  <1>1. UNCHANGED <<shm, cache, history>>
    BY DEF DrainDone
  <1>2. CASE /\ chan < Len(CHANNELS_ARRAY)
             /\ pc' = "clear" /\ chan' = chan + 1
             /\ UNCHANGED <<sub, pos, publisher>>
    BY <1>1, <1>2 DEF TypeOK, HistoryTypeOK, shm, cache, publisher, history
  <1>3. CASE /\ pc' = IF Sub = {} THEN "idle" ELSE "dispatch"
             /\ sub' = 1
             /\ BeginCycle
    <2>1. pc' = "dispatch" => sub' \in Sub
      BY <1>3 DEF Sub
    <2>2. pc' \in {"idle", "dispatch"}
      BY <1>3
    <2>3. message' \in Seq(Sample)
      BY <1>3 DEF BeginCycle
    <2>. QED
      BY <1>1, <1>3, <2>1, <2>2, <2>3
      DEF TypeOK, HistoryTypeOK, BeginCycle, shm, cache, history
  <1>. QED
    BY <1>2, <1>3 DEF DrainDone

(* The ID that dispatch_cache looks at is one of the channel's cache.        *)
LEMMA DispatchedId ==
    ASSUME TypeOK, DispatchId
    PROVE  LET c == subscriptions[sub].channels[chan]
           IN  c \in Channel /\ active_ids[c][pos] \in EcatId
  <1> DEFINE c == subscriptions[sub].channels[chan]
  <1>1. sub \in Sub /\ chan \in Nat \ {0} /\ pos \in Nat \ {0}
    BY DEF TypeOK, DispatchId
  <1>2. chan <= Len(subscriptions[sub].channels) /\ pos <= Len(active_ids[c])
    BY DEF DispatchId
  <1>3. subscriptions[sub].channels \in Seq(Channel)
    <2>1. subscriptions[sub] \in Registration
      BY <1>1, SubscriptionsAssumption DEF Sub
    <2>. QED
      BY <2>1 DEF Registration
  <1>4. c \in Channel
    BY <1>1, <1>2, <1>3
  <1>5. active_ids[c] \in Seq(EcatId)
    BY <1>4 DEF TypeOK
  <1>6. active_ids[c][pos] \in EcatId
    BY <1>1, <1>2, <1>5
  <1>. QED
    BY <1>4, <1>6

LEMMA DispatchTypeOK ==
    ASSUME TypeOK, DispatchId
    PROVE  TypeOK'
  <1> DEFINE c == subscriptions[sub].channels[chan]
             id == active_ids[c][pos]
             sample == [channel |-> c, id |-> id, type |-> entries[c][id].type,
                        stamp |-> entries[c][id].stamp]
  <1>1. c \in Channel /\ id \in EcatId
    BY DispatchedId
  <1>4. entries[c][id] \in Entry
    <2> HIDE DEF c, id
    <2>. QED
      BY <1>1 DEF TypeOK
  <1>5. sample \in Sample
    BY <1>1, <1>4 DEF Entry, Sample
  <1>6. /\ ids_seen' = ids_seen \/ ids_seen' = ids_seen \cup {id}
        /\ message' = message \/ message' = Append(message, sample)
        /\ pos' = pos + 1 /\ pc = "dispatch"
        /\ UNCHANGED <<shm, cache, pc, chan, sub, history>>
    BY DEF DispatchId
  <1> HIDE DEF c, id, sample
  <1>7. ids_seen' \subseteq EcatId
    BY <1>1, <1>6 DEF TypeOK
  <1>8. message' \in Seq(Sample)
    <2>1. message \in Seq(Sample)
      BY DEF TypeOK
    <2>2. Append(message, sample) \in Seq(Sample)
      BY <1>5, <2>1
    <2>3. message' = message \/ message' = Append(message, sample)
      BY <1>6
    <2>. QED
      BY <2>1, <2>2, <2>3
  <1>9. pos' \in Nat \ {0}
    <2>1. pos \in Nat \ {0} /\ pos' = pos + 1
      BY <1>6 DEF TypeOK
    <2>. QED
      BY <2>1
  <1>. QED
    BY <1>6, <1>7, <1>8, <1>9 DEF TypeOK, HistoryTypeOK, shm, cache, history

LEMMA NextChannelTypeOK ==
    ASSUME TypeOK, DispatchNextChannel
    PROVE  TypeOK'
  <1>1. /\ pc = "dispatch"
        /\ chan' = chan + 1 /\ pos' = 1
        /\ UNCHANGED <<shm, cache, pc, sub, publisher, history>>
    BY DEF DispatchNextChannel
  <1>2. chan' \in Nat \ {0} /\ pos' \in Nat \ {0}
    BY <1>1 DEF TypeOK
  <1>. QED
    BY <1>1, <1>2 DEF TypeOK, HistoryTypeOK, shm, cache, publisher, history

(* Whatever the kind of publisher, it writes only positions of its message. *)
LEMMA OutcomesInMessage ==
    ASSUME NEW written \in Outcomes
    PROVE  written \subseteq 1..Len(message)
  BY DEF Outcomes

LEMMA EndCycleTypeOK ==
    ASSUME TypeOK, EndCycle
    PROVE  TypeOK'
  <1>1. /\ pc = "dispatch" /\ sub \in Sub
        /\ pc' = IF sub = Len(subscriptions) THEN "idle" ELSE "dispatch"
        /\ sub' = IF sub = Len(subscriptions) THEN 1 ELSE sub + 1
        /\ BeginCycle
        /\ UNCHANGED <<shm, cache>>
    BY DEF TypeOK, EndCycle
  <1>2. /\ sub' \in Nat \ {0}
        /\ pc' \in {"idle", "dispatch"}
        /\ pc' = "dispatch" => sub' \in Sub
    BY <1>1 DEF Sub
  <1>3. message' \in Seq(Sample)
    BY <1>1 DEF BeginCycle
  <1>4. HistoryTypeOK' /\ wrote' \subseteq Sub
    <2>1. CASE UNCHANGED history
      BY <2>1 DEF TypeOK, HistoryTypeOK, history
    <2>2. ASSUME NEW written \in Outcomes,
                 last' = [last EXCEPT ![sub] = [i \in written |-> message[i]]],
                 published' = [published EXCEPT ![sub] =
                     [c \in Channel |-> [id \in EcatId |-> NewestAfter(written, c, id)]]],
                 wrote' = wrote \cup {sub}
          PROVE  HistoryTypeOK' /\ wrote' \subseteq Sub
      <3> DEFINE batch == [i \in written |-> message[i]]
      <3>1. written \subseteq 1..Len(message)
        BY OutcomesInMessage
      <3>2. \A i \in written : message[i] \in Sample
        BY <3>1 DEF TypeOK
      <3>3. /\ DOMAIN batch \subseteq Nat \ {0}
            /\ \A i \in DOMAIN batch : batch[i] \in Sample
        BY <3>1, <3>2
      <3>4. last' = [last EXCEPT ![sub] = batch]
        BY <2>2
      <3> HIDE DEF batch
      <3>5. \A s \in Sub : last'[s] = IF s = sub THEN batch ELSE last[s]
        BY <1>1, <3>4 DEF TypeOK, HistoryTypeOK
      <3>6. DOMAIN last' = Sub
        BY <3>4 DEF TypeOK, HistoryTypeOK
      <3>7. wrote' \subseteq Sub
        BY <1>1, <2>2 DEF TypeOK
      <3>8. ASSUME NEW s \in Sub
            PROVE  /\ DOMAIN last'[s] \subseteq Nat \ {0}
                   /\ \A i \in DOMAIN last'[s] : last'[s][i] \in Sample
        BY <3>3, <3>5 DEF TypeOK, HistoryTypeOK
      <3>9. \A s \in Sub : /\ DOMAIN last'[s] \subseteq Nat \ {0}
                           /\ \A i \in DOMAIN last'[s] : last'[s][i] \in Sample
        BY <3>8
      <3>10. ASSUME NEW c \in Channel, NEW id \in EcatId
             PROVE  NewestAfter(written, c, id) \in Nat
        <4> DEFINE stamps == {message[i].stamp : i \in
                       {j \in written : message[j].channel = c /\ message[j].id = id}}
        <4>1. published[sub][c][id] \in Nat
          BY <1>1 DEF TypeOK, HistoryTypeOK
        <4>2. stamps \subseteq Nat
          BY <3>2 DEF Sample
        <4>3. stamps # {} => (CHOOSE n \in stamps : TRUE) \in stamps
          OBVIOUS
        <4>4. \/ NewestAfter(written, c, id) = published[sub][c][id]
              \/ stamps # {} /\ NewestAfter(written, c, id) = CHOOSE n \in stamps : TRUE
          BY DEF NewestAfter
        <4>. QED
          BY <4>1, <4>2, <4>3, <4>4
      <3>11. published' \in [Sub -> [Channel -> [EcatId -> Nat]]]
        <4> DEFINE newest == [c \in Channel |-> [id \in EcatId |->
                                 NewestAfter(written, c, id)]]
        <4>1. newest \in [Channel -> [EcatId -> Nat]]
          BY <3>10
        <4>2. published' = [published EXCEPT ![sub] = newest]
          BY <2>2
        <4> HIDE DEF newest
        <4>. QED
          BY <1>1, <4>1, <4>2 DEF TypeOK, HistoryTypeOK
      <3>. QED
        BY <3>6, <3>7, <3>9, <3>11 DEF HistoryTypeOK
    <2>. QED
      BY <2>1, <2>2 DEF EndCycle
  <1>. QED
    BY <1>1, <1>2, <1>3, <1>4 DEF TypeOK, BeginCycle, shm, cache

LEMMA NextTypeOK == TypeOK /\ [Next]_vars => TypeOK'
  <1> SUFFICES ASSUME TypeOK, [Next]_vars
               PROVE  TypeOK'
    OBVIOUS
  <1>1. CASE UNCHANGED vars
    BY <1>1 DEF TypeOK, HistoryTypeOK, vars, shm, cache, cursor, publisher, history
  <1>. QED
    BY <1>1, PushTypeOK, OtherDrainsTypeOK, SpinTypeOK, ClearTypeOK, DrainTypeOK, DrainDoneTypeOK,
       DispatchTypeOK, NextChannelTypeOK, EndCycleTypeOK DEF Next

THEOREM TypeCorrect == Spec => []TypeOK
  BY InitTypeOK, NextTypeOK, PTL DEF Spec
-----------------------------------------------------------------------------
(***************************************************************************)
(* The strengthening behind the action property NeverRepublished. Stamps   *)
(* order the samples of a channel as the master pushed them; every step    *)
(* from queue to cache to message to batch keeps that order.               *)
(***************************************************************************)

(* A shared-memory queue is a FIFO of increasing stamps.                   *)
QueueOrdered ==
    \A c \in Channel : \A i \in 1..Len(queue[c]) :
        /\ queue[c][i].stamp <= stamp[c]
        /\ \A j \in 1..Len(queue[c]) : i < j => queue[c][i].stamp < queue[c][j].stamp

(* What is cached was pushed before what is still queued.                  *)
CacheBeforeQueue ==
    \A c \in Channel, id \in EcatId :
        /\ entries[c][id].stamp <= stamp[c]
        /\ \A i \in 1..Len(queue[c]) : entries[c][id].stamp < queue[c][i].stamp

(* What was published was pushed before what is still queued.              *)
PublishedBeforeQueue ==
    \A s \in Sub, c \in Channel, k \in EcatId :
        /\ published[s][c][k] <= stamp[c]
        /\ \A i \in 1..Len(queue[c]) : published[s][c][k] < queue[c][i].stamp

(* fill_cache has cleared the flags of this channel in the current cycle.  *)
Begun(c) ==
    \/ pc = "dispatch"
    \/ /\ pc \in {"clear", "drain"}
       /\ \E i \in 1..Len(CHANNELS_ARRAY) :
              /\ CHANNELS_ARRAY[i] = c
              /\ i < chan \/ (i = chan /\ pc = "drain")

(* All that a publisher that has not written yet in this cycle has ever    *)
(* published of a channel is older than the updated samples it is about    *)
(* to be given.                                                            *)
PublishedBeforeUpdated ==
    \A s \in Sub \ wrote : \A c \in Channel, k \in EcatId :
        Begun(c) => \A id \in EcatId : entries[c][id].updated =>
                        published[s][c][k] < entries[c][id].stamp

(* The message under assembly is made of updated cache entries.            *)
InCache(e) ==
    /\ entries[e.channel][e.id].updated
    /\ entries[e.channel][e.id].type = e.type
    /\ entries[e.channel][e.id].stamp = e.stamp

MessageInCache ==
    pc = "dispatch" => \A i \in 1..Len(message) : InCache(message[i])

(* Publishers write in registration order, each once per cycle, and what   *)
(* they wrote stays in the cache until the next cycle.                     *)
WroteInOrder ==
    /\ pc \in {"clear", "drain"} => wrote = {}
    /\ pc = "dispatch" => \A s \in wrote : s < sub
    /\ \A s \in wrote : \A k \in DOMAIN last[s] : InCache(last[s][k])

IInv == /\ QueueOrdered
        /\ CacheBeforeQueue
        /\ PublishedBeforeQueue
        /\ PublishedBeforeUpdated
        /\ MessageInCache
        /\ WroteInOrder

(* What is queued, cached or published is stamped with a number.           *)
LEMMA StampTypes ==
    ASSUME TypeOK
    PROVE  /\ \A c \in Channel : /\ stamp[c] \in Nat
                                /\ queue[c] \in Seq(Pdo)
                                /\ Len(queue[c]) \in Nat
           /\ \A c \in Channel : \A i \in 1..Len(queue[c]) :
                  queue[c][i] \in Pdo /\ queue[c][i].stamp \in Nat \ {0}
           /\ \A c \in Channel, id \in EcatId :
                  entries[c][id] \in Entry /\ entries[c][id].stamp \in Nat
           /\ \A s \in Sub : \A k \in DOMAIN last[s] :
                  /\ last[s][k].channel \in Channel
                  /\ last[s][k].id \in EcatId
                  /\ last[s][k].stamp \in Nat
           /\ \A s \in Sub, c \in Channel, k \in EcatId : published[s][c][k] \in Nat
  <1>1. \A c \in Channel : /\ stamp[c] \in Nat
                           /\ queue[c] \in Seq(Pdo)
                           /\ Len(queue[c]) \in Nat
    BY DEF TypeOK
  <1>2. ASSUME NEW c \in Channel, NEW i \in 1..Len(queue[c])
        PROVE  queue[c][i] \in Pdo /\ queue[c][i].stamp \in Nat \ {0}
    <2>1. queue[c][i] \in Pdo
      BY <1>1
    <2>. QED
      BY <2>1 DEF Pdo
  <1>3. ASSUME NEW c \in Channel, NEW id \in EcatId
        PROVE  entries[c][id] \in Entry /\ entries[c][id].stamp \in Nat
    <2>1. entries[c][id] \in Entry
      BY DEF TypeOK
    <2>. QED
      BY <2>1 DEF Entry
  <1>4. ASSUME NEW s \in Sub, NEW k \in DOMAIN last[s]
        PROVE  /\ last[s][k].channel \in Channel
               /\ last[s][k].id \in EcatId
               /\ last[s][k].stamp \in Nat
    <2>1. last[s][k] \in Sample
      BY DEF TypeOK, HistoryTypeOK
    <2>. QED
      BY <2>1 DEF Sample
  <1>5. \A s \in Sub, c \in Channel, k \in EcatId : published[s][c][k] \in Nat
    BY DEF TypeOK, HistoryTypeOK
  <1>. QED
    BY <1>1, <1>2, <1>3, <1>4, <1>5

LEMMA InitIInv == Init => IInv
  BY DEF Init, IInv, QueueOrdered, CacheBeforeQueue, PublishedBeforeQueue,
         PublishedBeforeUpdated, MessageInCache, WroteInOrder, InCache, NoEntry

(* After a push, a queued sample was queued before or is the newest one.   *)
LEMMA PushedQueue ==
    ASSUME TypeOK, NEW src \in Sources, MasterPush(src)
    PROVE  /\ src.channel \in Channel
           /\ \A d \in Channel :
                 /\ stamp[d] \in Nat /\ stamp'[d] \in Nat
                 /\ stamp'[d] = IF d = src.channel THEN stamp[d] + 1 ELSE stamp[d]
                 /\ Len(queue[d]) \in Nat
                 /\ \A i \in 1..Len(queue'[d]) :
                       \/ i \in 1..Len(queue[d]) /\ queue'[d][i] = queue[d][i]
                       \/ /\ d = src.channel
                          /\ i = Len(queue[d]) + 1
                          /\ queue'[d][i].stamp = stamp[d] + 1
           /\ UNCHANGED <<entries, pc, chan, sub, message, last, published, wrote>>
  <1> DEFINE c == src.channel
             pdo == [has_index |-> src.has_index, id |-> src.id,
                     type |-> src.type, stamp |-> stamp[c] + 1]
  <1>1. c \in Channel
    BY SourcesAssumption DEF Source
  <1>2. UNCHANGED <<entries, pc, chan, sub, message, last, published, wrote>>
    BY DEF MasterPush, cache, cursor, publisher, history
  <1>3. /\ stamp' = [stamp EXCEPT ![c] = stamp[c] + 1]
        /\ \/ queue' = queue
           \/ queue' = [queue EXCEPT ![c] = Append(queue[c], pdo)]
    BY DEF MasterPush
  <1>4. pdo.stamp = stamp[c] + 1
    OBVIOUS
  <1>5. stamp \in [Channel -> Nat] /\ queue \in [Channel -> Seq(Pdo)]
    BY DEF TypeOK
  <1> HIDE DEF c, pdo
  <1>6. ASSUME NEW d \in Channel
        PROVE  /\ stamp[d] \in Nat /\ stamp'[d] \in Nat
               /\ stamp'[d] = IF d = c THEN stamp[d] + 1 ELSE stamp[d]
               /\ Len(queue[d]) \in Nat
    BY <1>1, <1>3, <1>5
  <1>7. ASSUME NEW d \in Channel, NEW i \in 1..Len(queue'[d])
        PROVE  \/ i \in 1..Len(queue[d]) /\ queue'[d][i] = queue[d][i]
               \/ /\ d = c
                  /\ i = Len(queue[d]) + 1
                  /\ queue'[d][i].stamp = stamp[d] + 1
    <2>1. CASE queue'[d] = queue[d]
      BY <2>1
    <2>2. CASE d = c /\ queue'[d] = Append(queue[d], pdo)
      <3>1. queue[d] \in Seq(Pdo)
        BY <1>5
      <3>2. Len(queue'[d]) = Len(queue[d]) + 1
        BY <2>2, <3>1
      <3>3. CASE i \in 1..Len(queue[d])
        BY <2>2, <3>1, <3>3
      <3>4. CASE i = Len(queue[d]) + 1
        BY <2>2, <3>1, <3>4, <1>4
      <3>. QED
        BY <3>1, <3>2, <3>3, <3>4
    <2>. QED
      BY <1>1, <1>3, <1>5, <2>1, <2>2
  <1>. QED
    BY <1>1, <1>2, <1>6, <1>7 DEF c

LEMMA PushIInv ==
    ASSUME TypeOK, IInv, NEW src \in Sources, MasterPush(src)
    PROVE  IInv'
  <1> DEFINE c == src.channel
  <1>1. /\ UNCHANGED <<entries, pc, chan, sub, message, last, published, wrote>>
        /\ c \in Channel
    BY PushedQueue
  <1>2. \A d \in Channel :
            /\ stamp[d] \in Nat /\ stamp'[d] \in Nat
            /\ stamp'[d] = IF d = c THEN stamp[d] + 1 ELSE stamp[d]
            /\ Len(queue[d]) \in Nat
    BY PushedQueue
  <1>3. \A d \in Channel : \A i \in 1..Len(queue'[d]) :
            \/ i \in 1..Len(queue[d]) /\ queue'[d][i] = queue[d][i]
            \/ /\ d = c /\ i = Len(queue[d]) + 1
               /\ queue'[d][i].stamp = stamp[d] + 1
    BY PushedQueue
  <1>4. \A d \in Channel : \A i \in 1..Len(queue[d]) : queue[d][i].stamp \in Nat
    BY StampTypes
  <1> HIDE DEF c
  <1>5. QueueOrdered'
    <2> SUFFICES ASSUME NEW d \in Channel, NEW i \in 1..Len(queue'[d]),
                        NEW j \in 1..Len(queue'[d])
                 PROVE  /\ queue'[d][i].stamp <= stamp'[d]
                        /\ i < j => queue'[d][i].stamp < queue'[d][j].stamp
      BY DEF QueueOrdered
    <2>1. \A k \in 1..Len(queue[d]) : queue[d][k].stamp <= stamp[d]
      BY DEF IInv, QueueOrdered
    <2> DEFINE Old(k) == k \in 1..Len(queue[d]) /\ queue'[d][k] = queue[d][k]
               New(k) == k = Len(queue[d]) + 1 /\ queue'[d][k].stamp = stamp'[d]
    <2>a. \A k \in 1..Len(queue'[d]) : Old(k) \/ New(k)
      BY <1>2, <1>3
    <2>b. stamp[d] \in Nat /\ stamp'[d] \in Nat /\ stamp[d] <= stamp'[d]
      BY <1>2
    <2>2. queue'[d][i].stamp <= stamp'[d]
      <3>1. CASE Old(i)
        BY <1>4, <2>1, <2>b, <3>1
      <3>2. CASE New(i)
        BY <2>b, <3>2
      <3>. QED
        BY <2>a, <3>1, <3>2
    <2>3. ASSUME i < j
          PROVE  queue'[d][i].stamp < queue'[d][j].stamp
      <3>1. CASE Old(i) /\ Old(j)
        BY <2>3, <3>1 DEF IInv, QueueOrdered
      <3>2. CASE Old(i) /\ New(j)
        <4>1. stamp'[d] = stamp[d] + 1
          BY <1>2, <1>3, <3>2
        <4>. QED
          BY <1>4, <2>1, <2>b, <3>2, <4>1
      <3>3. CASE New(i)
        BY <1>2, <2>a, <2>3, <3>3
      <3>. QED
        BY <2>a, <3>1, <3>2, <3>3
    <2>. QED
      BY <2>2, <2>3
  <1>6. CacheBeforeQueue'
    <2> SUFFICES ASSUME NEW d \in Channel, NEW id \in EcatId
                 PROVE  /\ entries[d][id].stamp <= stamp'[d]
                        /\ \A i \in 1..Len(queue'[d]) :
                               entries[d][id].stamp < queue'[d][i].stamp
      BY <1>1 DEF CacheBeforeQueue
    <2>1. /\ entries[d][id].stamp <= stamp[d]
          /\ \A i \in 1..Len(queue[d]) : entries[d][id].stamp < queue[d][i].stamp
      BY DEF IInv, CacheBeforeQueue
    <2>2. entries[d][id].stamp \in Nat
      BY StampTypes
    <2>3. stamp[d] \in Nat /\ stamp'[d] \in Nat /\ stamp[d] <= stamp'[d]
      BY <1>2
    <2>4. ASSUME NEW i \in 1..Len(queue'[d])
          PROVE  entries[d][id].stamp < queue'[d][i].stamp
      <3>1. \/ i \in 1..Len(queue[d]) /\ queue'[d][i] = queue[d][i]
            \/ queue'[d][i].stamp = stamp[d] + 1
        BY <1>3
      <3>. QED
        BY <2>1, <2>2, <2>3, <3>1
    <2>. QED
      BY <2>1, <2>2, <2>3, <2>4
  <1>7. PublishedBeforeQueue'
    <2> SUFFICES ASSUME NEW s \in Sub, NEW d \in Channel, NEW k \in EcatId
                 PROVE  /\ published[s][d][k] <= stamp'[d]
                        /\ \A i \in 1..Len(queue'[d]) :
                               published[s][d][k] < queue'[d][i].stamp
      BY <1>1 DEF PublishedBeforeQueue
    <2>1. /\ published[s][d][k] <= stamp[d]
          /\ \A i \in 1..Len(queue[d]) : published[s][d][k] < queue[d][i].stamp
      BY DEF IInv, PublishedBeforeQueue
    <2>2. published[s][d][k] \in Nat
      BY StampTypes
    <2>3. published[s][d][k] <= stamp'[d]
      BY <1>2, <2>1, <2>2
    <2>4. ASSUME NEW i \in 1..Len(queue'[d])
          PROVE  published[s][d][k] < queue'[d][i].stamp
      <3>1. \/ i \in 1..Len(queue[d]) /\ queue'[d][i] = queue[d][i]
            \/ queue'[d][i].stamp = stamp[d] + 1
        BY <1>3, <2>2
      <3>2. stamp[d] \in Nat
        BY <1>2, <2>2
      <3>. QED
        BY <2>1, <2>2, <3>1, <3>2
    <2>. QED
      BY <2>3, <2>4
  <1>8. PublishedBeforeUpdated'
    <2>1. \A d : Begun(d)' <=> Begun(d)
      BY <1>1 DEF Begun
    <2>2. PublishedBeforeUpdated
      BY DEF IInv
    <2>. QED
      BY <1>1, <2>1, <2>2 DEF PublishedBeforeUpdated
  <1>9. MessageInCache' /\ WroteInOrder'
    BY <1>1 DEF IInv, MessageInCache, WroteInOrder, InCache
  <1>. QED
    BY <1>5, <1>6, <1>7, <1>8, <1>9 DEF IInv

(* A sample popped elsewhere only makes the queue shorter.                 *)
LEMMA OtherDrainsIInv ==
    ASSUME TypeOK, IInv, NEW c \in SharedChannels, OtherDrains(c)
    PROVE  IInv'
  <1>1. /\ UNCHANGED <<stamp, entries, pc, chan, sub, message, last, published, wrote>>
        /\ c \in Channel
    BY SourcesAssumption DEF OtherDrains, cache, cursor, publisher, history
  <1>2. queue[c] \in Seq(Pdo) /\ queue[c] # <<>>
    BY <1>1 DEF TypeOK, OtherDrains
  <1>3. /\ queue'[c] = Tail(queue[c])
        /\ \A d \in Channel : d # c => queue'[d] = queue[d]
    BY <1>1 DEF OtherDrains, TypeOK
  <1>a. /\ Len(queue'[c]) = Len(queue[c]) - 1
        /\ \A i \in 1..Len(queue'[c]) : queue'[c][i] = queue[c][i + 1]
    BY <1>2, <1>3
  <1>4. \A d \in Channel : Len(queue[d]) \in Nat
    BY StampTypes
  <1>5. ASSUME NEW d \in Channel, NEW i \in 1..Len(queue'[d])
        PROVE  \E k \in 1..Len(queue[d]) :
                   /\ queue'[d][i] = queue[d][k]
                   /\ k = IF d = c THEN i + 1 ELSE i
    <2>1. CASE d = c
      <3>1. Len(queue'[d]) = Len(queue[d]) - 1 /\ queue'[d][i] = queue[d][i + 1]
        BY <1>a, <2>1
      <3>2. i + 1 \in 1..Len(queue[d])
        BY <1>4, <3>1
      <3>. QED
        BY <2>1, <3>1, <3>2
    <2>2. CASE d # c
      BY <1>3, <2>2
    <2>. QED
      BY <2>1, <2>2
  <1>6. QueueOrdered'
    <2> SUFFICES ASSUME NEW d \in Channel, NEW i \in 1..Len(queue'[d])
                 PROVE  /\ queue'[d][i].stamp <= stamp'[d]
                        /\ \A j \in 1..Len(queue'[d]) :
                               i < j => queue'[d][i].stamp < queue'[d][j].stamp
      BY DEF QueueOrdered
    <2>1. PICK k \in 1..Len(queue[d]) :
              queue'[d][i] = queue[d][k] /\ k = IF d = c THEN i + 1 ELSE i
      BY <1>5
    <2>2. queue'[d][i].stamp <= stamp'[d]
      BY <1>1, <2>1 DEF IInv, QueueOrdered
    <2>3. ASSUME NEW j \in 1..Len(queue'[d]), i < j
          PROVE  queue'[d][i].stamp < queue'[d][j].stamp
      <3>1. PICK l \in 1..Len(queue[d]) :
                queue'[d][j] = queue[d][l] /\ l = IF d = c THEN j + 1 ELSE j
        BY <1>5
      <3>2. k < l
        BY <2>1, <2>3, <3>1
      <3>. QED
        BY <2>1, <3>1, <3>2 DEF IInv, QueueOrdered
    <2>. QED
      BY <2>2, <2>3
  <1>7. CacheBeforeQueue'
    <2> SUFFICES ASSUME NEW d \in Channel, NEW id \in EcatId
                 PROVE  /\ entries[d][id].stamp <= stamp[d]
                        /\ \A i \in 1..Len(queue'[d]) :
                               entries[d][id].stamp < queue'[d][i].stamp
      BY <1>1 DEF CacheBeforeQueue
    <2>. QED
      BY <1>5 DEF IInv, CacheBeforeQueue
  <1>8. PublishedBeforeQueue'
    <2> SUFFICES ASSUME NEW s \in Sub, NEW d \in Channel, NEW k \in EcatId
                 PROVE  /\ published[s][d][k] <= stamp[d]
                        /\ \A i \in 1..Len(queue'[d]) :
                               published[s][d][k] < queue'[d][i].stamp
      BY <1>1 DEF PublishedBeforeQueue
    <2>. QED
      BY <1>5 DEF IInv, PublishedBeforeQueue
  <1>9. PublishedBeforeUpdated' /\ MessageInCache' /\ WroteInOrder'
    <2>1. \A d : Begun(d)' <=> Begun(d)
      BY <1>1 DEF Begun
    <2>2. PublishedBeforeUpdated'
      BY <1>1, <2>1 DEF IInv, PublishedBeforeUpdated
    <2>. QED
      BY <1>1, <2>2 DEF IInv, MessageInCache, WroteInOrder, InCache
  <1>. QED
    BY <1>6, <1>7, <1>8, <1>9 DEF IInv

LEMMA SpinIInv ==
    ASSUME TypeOK, IInv, SpinOnce
    PROVE  IInv'
  <1>1. /\ pc = "idle" /\ pc' = "clear" /\ chan' = 1 /\ wrote' = {}
        /\ UNCHANGED <<queue, stamp, entries, message, last, published>>
    BY DEF SpinOnce, shm, cache, publisher
  <1>2. QueueOrdered' /\ CacheBeforeQueue' /\ PublishedBeforeQueue'
    BY <1>1 DEF IInv, QueueOrdered, CacheBeforeQueue, PublishedBeforeQueue
  <1>3. PublishedBeforeUpdated'
    BY <1>1 DEF PublishedBeforeUpdated, Begun
  <1>4. MessageInCache' /\ WroteInOrder'
    BY <1>1 DEF MessageInCache, WroteInOrder
  <1>. QED
    BY <1>2, <1>3, <1>4 DEF IInv

LEMMA ClearIInv ==
    ASSUME TypeOK, IInv, ClearUpdated
    PROVE  IInv'
  <1> DEFINE c == CHANNELS_ARRAY[chan]
  <1>1. /\ pc = "clear" /\ pc' = "drain"
        /\ UNCHANGED <<queue, stamp, chan, message, last, published, wrote>>
    BY DEF ClearUpdated, shm, cursor, publisher, history
  <1>2. /\ chan \in 1..Len(CHANNELS_ARRAY)
        /\ c \in Channel
    BY <1>1, ChannelsAssumption DEF TypeOK, Channel
  <1>3. \A d \in Channel, id \in EcatId :
            /\ entries'[d][id].stamp = entries[d][id].stamp
            /\ d = c => ~entries'[d][id].updated
            /\ d # c => entries'[d][id].updated = entries[d][id].updated
    <2> SUFFICES ASSUME NEW d \in Channel, NEW id \in EcatId
                 PROVE  /\ entries'[d][id].stamp = entries[d][id].stamp
                        /\ d = c => ~entries'[d][id].updated
                        /\ d # c => entries'[d][id].updated = entries[d][id].updated
      OBVIOUS
    <2>1. entries' = [entries EXCEPT ![c] =
              [i \in EcatId |-> [entries[c][i] EXCEPT !.updated = FALSE]]]
      BY DEF ClearUpdated, Cleared
    <2>2. entries'[d] = IF d = c
              THEN [i \in EcatId |-> [entries[c][i] EXCEPT !.updated = FALSE]]
              ELSE entries[d]
      BY <1>2, <2>1 DEF TypeOK
    <2>3. CASE d # c
      BY <2>2, <2>3
    <2>4. CASE d = c
      <3>1. entries[c][id] \in Entry
        BY <1>2, StampTypes
      <3>2. entries'[d][id] = [entries[c][id] EXCEPT !.updated = FALSE]
        BY <2>2, <2>4
      <3> HIDE DEF c
      <3>. QED
        BY <2>4, <3>1, <3>2 DEF Entry
    <2>. QED
      BY <2>3, <2>4
  <1> HIDE DEF c
  <1>4. QueueOrdered' /\ PublishedBeforeQueue'
    BY <1>1 DEF IInv, QueueOrdered, PublishedBeforeQueue
  <1>5. CacheBeforeQueue'
    BY <1>1, <1>3 DEF IInv, CacheBeforeQueue
  <1>6. PublishedBeforeUpdated'
    <2> SUFFICES ASSUME NEW s \in Sub, s \notin wrote, NEW d \in Channel,
                        NEW k \in EcatId, NEW id \in EcatId,
                        Begun(d)', entries'[d][id].updated
                 PROVE  published[s][d][k] < entries'[d][id].stamp
      BY <1>1 DEF PublishedBeforeUpdated
    <2>2. d # c
      BY <1>3
    <2>3. Begun(d)
      <3>1. PICK i \in 1..Len(CHANNELS_ARRAY) :
                CHANNELS_ARRAY[i] = d /\ (i < chan \/ i = chan)
        BY <1>1 DEF Begun
      <3>2. i # chan
        BY <2>2, <3>1 DEF c
      <3>. QED
        BY <1>1, <3>1, <3>2 DEF Begun
    <2>. QED
      BY <1>3, <2>2, <2>3 DEF IInv, PublishedBeforeUpdated
  <1>7. MessageInCache' /\ WroteInOrder'
    BY <1>1 DEF IInv, MessageInCache, WroteInOrder
  <1>. QED
    BY <1>4, <1>5, <1>6, <1>7 DEF IInv

(* What one pop does: the queue loses its head, and the cache either is    *)
(* unchanged or gets the head as one updated entry.                        *)
LEMMA Drained ==
    ASSUME TypeOK, DrainOne
    PROVE  LET c == CHANNELS_ARRAY[chan]
           IN  /\ c \in Channel /\ pc = "drain" /\ Len(queue[c]) > 0
               /\ \A d \in Channel : d # c => queue'[d] = queue[d]
               /\ Len(queue'[c]) = Len(queue[c]) - 1
               /\ \A i \in 1..Len(queue'[c]) : queue'[c][i] = queue[c][i + 1]
               /\ \A d \in Channel, id \in EcatId :
                     \/ entries'[d][id] = entries[d][id]
                     \/ /\ d = c
                        /\ entries'[d][id].updated
                        /\ entries'[d][id].stamp = queue[c][1].stamp
               /\ UNCHANGED <<stamp, pc, chan, message, last, published, wrote>>
  <1> DEFINE c == CHANNELS_ARRAY[chan]
             received == Head(queue[c])
             new == [valid |-> TRUE, updated |-> TRUE,
                     type |-> received.type, stamp |-> received.stamp]
  <1>1. c \in Channel /\ pc = "drain"
    BY ChannelAt DEF TypeOK, DrainOne
  <1>2. queue[c] \in Seq(Pdo) /\ queue[c] # <<>> /\ Len(queue[c]) > 0
    BY <1>1 DEF TypeOK, DrainOne
  <1>3. queue' = [queue EXCEPT ![c] = Tail(queue[c])]
    BY DEF DrainOne
  <1>4. UNCHANGED <<stamp, pc, chan, message, last, published, wrote>>
    BY DEF DrainOne, cursor, publisher, history
  <1>5. \/ entries' = entries
        \/ received.id \in EcatId
           /\ entries' = [entries EXCEPT ![c][received.id] = new]
    <2>1. CASE ~Accepted(received)
      BY <2>1 DEF DrainOne, cache
    <2>2. CASE Accepted(received)
      <3>1. received.id \in EcatId
        <4>1. received \in Pdo
          BY <1>2
        <4>. QED
          BY <2>2, <4>1, SourcesAssumption DEF Accepted, Pdo, EcatId
      <3>. QED
        BY <2>2, <3>1 DEF DrainOne, Received
    <2>. QED
      BY <2>1, <2>2
  <1>6. new.updated /\ new.stamp = queue[c][1].stamp
    BY <1>2
  <1>7. \A d \in Channel : d # c => queue'[d] = queue[d]
    BY <1>1, <1>3 DEF TypeOK
  <1>8. queue'[c] = Tail(queue[c])
    BY <1>1, <1>3 DEF TypeOK
  <1>9. /\ Len(queue'[c]) = Len(queue[c]) - 1
        /\ \A i \in 1..Len(queue'[c]) : queue'[c][i] = queue[c][i + 1]
    BY <1>2, <1>8
  <1> HIDE DEF c, new, received
  <1>10. \A d \in Channel, id \in EcatId :
             \/ entries'[d][id] = entries[d][id]
             \/ /\ d = c
                /\ entries'[d][id].updated
                /\ entries'[d][id].stamp = queue[c][1].stamp
    BY <1>1, <1>5, <1>6 DEF TypeOK
  <1>. QED
    BY <1>1, <1>2, <1>4, <1>7, <1>9, <1>10 DEF c

LEMMA DrainIInv ==
    ASSUME TypeOK, IInv, DrainOne
    PROVE  IInv'
  <1> DEFINE c == CHANNELS_ARRAY[chan]
  <1>1. /\ c \in Channel /\ pc = "drain" /\ Len(queue[c]) > 0
        /\ \A d \in Channel : d # c => queue'[d] = queue[d]
        /\ Len(queue'[c]) = Len(queue[c]) - 1
        /\ \A i \in 1..Len(queue'[c]) : queue'[c][i] = queue[c][i + 1]
        /\ UNCHANGED <<stamp, pc, chan, message, last, published, wrote>>
    BY Drained
  <1>2. \A d \in Channel, id \in EcatId :
            \/ entries'[d][id] = entries[d][id]
            \/ /\ d = c
               /\ entries'[d][id].updated
               /\ entries'[d][id].stamp = queue[c][1].stamp
    BY Drained
  <1> HIDE DEF c
  <1>3. \A d \in Channel : Len(queue[d]) \in Nat
    BY StampTypes
  (* Every queued sample was queued before, later than the popped one.     *)
  <1>4. ASSUME NEW d \in Channel, NEW i \in 1..Len(queue'[d])
        PROVE  \E k \in 1..Len(queue[d]) :
                   /\ queue'[d][i] = queue[d][k]
                   /\ k = IF d = c THEN i + 1 ELSE i
    <2>1. CASE d = c
      <3>1. i + 1 \in 1..Len(queue[d])
        BY <1>1, <1>3, <2>1
      <3>. QED
        BY <1>1, <2>1, <3>1
    <2>2. CASE d # c
      BY <1>1, <2>2
    <2>. QED
      BY <2>1, <2>2
  <1>5. QueueOrdered'
    <2> SUFFICES ASSUME NEW d \in Channel, NEW i \in 1..Len(queue'[d])
                 PROVE  /\ queue'[d][i].stamp <= stamp'[d]
                        /\ \A j \in 1..Len(queue'[d]) :
                               i < j => queue'[d][i].stamp < queue'[d][j].stamp
      BY DEF QueueOrdered
    <2>1. PICK k \in 1..Len(queue[d]) :
              queue'[d][i] = queue[d][k] /\ k = IF d = c THEN i + 1 ELSE i
      BY <1>4
    <2>2. queue'[d][i].stamp <= stamp'[d]
      BY <1>1, <2>1 DEF IInv, QueueOrdered
    <2>3. ASSUME NEW j \in 1..Len(queue'[d]), i < j
          PROVE  queue'[d][i].stamp < queue'[d][j].stamp
      <3>1. PICK l \in 1..Len(queue[d]) :
                queue'[d][j] = queue[d][l] /\ l = IF d = c THEN j + 1 ELSE j
        BY <1>4
      <3>2. k < l
        BY <2>1, <2>3, <3>1
      <3>. QED
        BY <2>1, <3>1, <3>2 DEF IInv, QueueOrdered
    <2>. QED
      BY <2>2, <2>3
  <1>6. ASSUME NEW i \in 1..Len(queue'[c])
        PROVE  queue[c][1].stamp < queue'[c][i].stamp
    <2>1. PICK k \in 1..Len(queue[c]) : queue'[c][i] = queue[c][k] /\ k = i + 1
      BY <1>1, <1>4
    <2>2. 1 \in 1..Len(queue[c]) /\ 1 < k
      BY <1>1, <1>3, <2>1
    <2>. QED
      BY <1>1, <2>1, <2>2 DEF IInv, QueueOrdered
  <1>7. queue[c][1].stamp <= stamp[c]
    <2>1. 1 \in 1..Len(queue[c])
      BY <1>1, <1>3
    <2>. QED
      BY <1>1, <2>1 DEF IInv, QueueOrdered
  <1>8. CacheBeforeQueue'
    <2> SUFFICES ASSUME NEW d \in Channel, NEW id \in EcatId
                 PROVE  /\ entries'[d][id].stamp <= stamp[d]
                        /\ \A i \in 1..Len(queue'[d]) :
                               entries'[d][id].stamp < queue'[d][i].stamp
      BY <1>1 DEF CacheBeforeQueue
    <2>1. CASE entries'[d][id] = entries[d][id]
      BY <1>4, <2>1 DEF IInv, CacheBeforeQueue
    <2>2. CASE d = c /\ entries'[d][id].stamp = queue[c][1].stamp
      BY <1>6, <1>7, <2>2
    <2>. QED
      BY <1>2, <2>1, <2>2
  <1>9. PublishedBeforeQueue'
    <2> SUFFICES ASSUME NEW s \in Sub, NEW d \in Channel, NEW k \in EcatId
                 PROVE  /\ published[s][d][k] <= stamp[d]
                        /\ \A i \in 1..Len(queue'[d]) :
                               published[s][d][k] < queue'[d][i].stamp
      BY <1>1 DEF PublishedBeforeQueue
    <2>. QED
      BY <1>4 DEF IInv, PublishedBeforeQueue
  <1>10. PublishedBeforeUpdated'
    <2> SUFFICES ASSUME NEW s \in Sub, s \notin wrote, NEW d \in Channel,
                        NEW k \in EcatId, NEW id \in EcatId,
                        Begun(d)', entries'[d][id].updated
                 PROVE  published[s][d][k] < entries'[d][id].stamp
      BY <1>1 DEF PublishedBeforeUpdated
    <2>2. CASE entries'[d][id] = entries[d][id]
      <3>1. Begun(d)
        BY <1>1 DEF Begun
      <3>. QED
        BY <2>2, <3>1 DEF IInv, PublishedBeforeUpdated
    <2>3. CASE d = c /\ entries'[d][id].stamp = queue[c][1].stamp
      <3>1. 1 \in 1..Len(queue[d])
        BY <1>1, <1>3, <2>3
      <3>. QED
        BY <2>3, <3>1 DEF IInv, PublishedBeforeQueue
    <2>. QED
      BY <1>2, <2>2, <2>3
  <1>11. MessageInCache' /\ WroteInOrder'
    BY <1>1 DEF IInv, MessageInCache, WroteInOrder
  <1>. QED
    BY <1>5, <1>8, <1>9, <1>10, <1>11 DEF IInv

LEMMA DrainDoneIInv ==
    ASSUME TypeOK, IInv, DrainDone
    PROVE  IInv'
  <1>1. /\ pc = "drain"
        /\ UNCHANGED <<queue, stamp, entries, last, published, wrote>>
        /\ \/ pc' = "clear" /\ chan' = chan + 1 /\ message' = message
           \/ /\ chan >= Len(CHANNELS_ARRAY)
              /\ pc' \in {"idle", "dispatch"} /\ message' = <<>>
    BY ChannelsAssumption
    DEF TypeOK, DrainDone, BeginCycle, shm, cache, publisher, history
  <1>2. QueueOrdered' /\ CacheBeforeQueue' /\ PublishedBeforeQueue'
    BY <1>1 DEF IInv, QueueOrdered, CacheBeforeQueue, PublishedBeforeQueue
  <1>3. PublishedBeforeUpdated'
    <2>1. ASSUME NEW c \in Channel, Begun(c)'
          PROVE  Begun(c)
      <3>1. PICK i \in 1..Len(CHANNELS_ARRAY) : CHANNELS_ARRAY[i] = c
        BY DEF Channel
      <3>2. chan \in 1..Len(CHANNELS_ARRAY)
        BY <1>1 DEF TypeOK
      <3>3. CASE pc' = "clear" /\ chan' = chan + 1
        <4>1. PICK j \in 1..Len(CHANNELS_ARRAY) :
                  CHANNELS_ARRAY[j] = c /\ j < chan + 1
          BY <2>1, <3>3 DEF Begun
        <4>2. j < chan \/ j = chan
          BY <3>2, <4>1
        <4>. QED
          BY <1>1, <4>1, <4>2 DEF Begun
      <3>4. CASE chan >= Len(CHANNELS_ARRAY)
        <4>1. i < chan \/ i = chan
          BY <3>1, <3>2, <3>4
        <4>. QED
          BY <1>1, <3>1, <4>1 DEF Begun
      <3>. QED
        BY <1>1, <3>3, <3>4
    <2>. QED
      BY <1>1, <2>1 DEF IInv, PublishedBeforeUpdated
  <1>4. MessageInCache' /\ WroteInOrder'
    BY <1>1 DEF IInv, MessageInCache, WroteInOrder
  <1>. QED
    BY <1>2, <1>3, <1>4 DEF IInv

LEMMA DispatchIInv ==
    ASSUME TypeOK, IInv, DispatchId
    PROVE  IInv'
  <1> DEFINE c == subscriptions[sub].channels[chan]
             id == active_ids[c][pos]
             sample == [channel |-> c, id |-> id, type |-> entries[c][id].type,
                        stamp |-> entries[c][id].stamp]
  <1>1. /\ pc = "dispatch"
        /\ UNCHANGED <<queue, stamp, entries, pc, chan, sub, last, published, wrote>>
    BY DEF DispatchId, shm, cache, history
  <1>2. \/ message' = message
        \/ message' = Append(message, sample) /\ entries[c][id].updated
    BY DEF DispatchId
  <1>3. message \in Seq(Sample) /\ c \in Channel /\ id \in EcatId
    BY DispatchedId DEF TypeOK
  <1>4. MessageInCache'
    <2> SUFFICES ASSUME NEW i \in 1..Len(message')
                 PROVE  InCache(message'[i])
      BY <1>1 DEF MessageInCache, InCache
    <2>1. CASE i \in 1..Len(message) /\ message'[i] = message[i]
      BY <1>1, <2>1 DEF IInv, MessageInCache
    <2>2. CASE message'[i] = sample /\ entries[c][id].updated
      <3>1. /\ sample.channel = c /\ sample.id = id
            /\ sample.type = entries[c][id].type /\ sample.stamp = entries[c][id].stamp
        OBVIOUS
      <3> HIDE DEF c, id, sample
      <3>. QED
        BY <2>2, <3>1 DEF InCache
    <2> HIDE DEF sample
    <2>3. CASE message' = message
      BY <2>1, <2>3
    <2>4. CASE message' = Append(message, sample) /\ entries[c][id].updated
      <3>1. Len(message') = Len(message) + 1 /\ Len(message) \in Nat
        BY <1>3, <2>4
      <3>2. i \in 1..Len(message) => message'[i] = message[i]
        BY <1>3, <2>4
      <3>3. i = Len(message) + 1 => message'[i] = sample
        BY <1>3, <2>4
      <3>. QED
        BY <2>1, <2>2, <2>4, <3>1, <3>2, <3>3
    <2>. QED
      BY <1>2, <2>3, <2>4 DEF sample
  <1>5. /\ QueueOrdered' /\ CacheBeforeQueue' /\ PublishedBeforeQueue'
        /\ PublishedBeforeUpdated' /\ WroteInOrder'
    BY <1>1 DEF IInv, QueueOrdered, CacheBeforeQueue, PublishedBeforeQueue,
                PublishedBeforeUpdated, Begun, WroteInOrder, InCache
  <1>. QED
    BY <1>4, <1>5 DEF IInv

LEMMA NextChannelIInv ==
    ASSUME TypeOK, IInv, DispatchNextChannel
    PROVE  IInv'
  <1>1. /\ pc = "dispatch"
        /\ UNCHANGED <<queue, stamp, entries, pc, sub, message, last, published, wrote>>
    BY DEF DispatchNextChannel, shm, cache, publisher, history
  <1>2. /\ QueueOrdered' /\ CacheBeforeQueue' /\ PublishedBeforeQueue'
        /\ MessageInCache' /\ WroteInOrder'
    BY <1>1 DEF IInv, QueueOrdered, CacheBeforeQueue, PublishedBeforeQueue,
                MessageInCache, WroteInOrder, InCache
  <1>3. PublishedBeforeUpdated'
    BY <1>1 DEF IInv, PublishedBeforeUpdated, Begun
  <1>. QED
    BY <1>2, <1>3 DEF IInv

(* The newest sample of a slave is the one known before, or it has just    *)
(* been written from an updated entry of the slave's channel.              *)
Newer(n, s, c, id) ==
    \/ n = published[s][c][id]
    \/ /\ entries[c][id].updated
       /\ n = entries[c][id].stamp

LEMMA NewestIsNewer ==
    ASSUME TypeOK, NEW written, written \subseteq 1..Len(message),
           \A i \in written : InCache(message[i]),
           NEW c \in Channel, NEW id \in EcatId
    PROVE  Newer(NewestAfter(written, c, id), sub, c, id)
  <1> DEFINE stamps == {message[i].stamp : i \in
                 {j \in written : message[j].channel = c /\ message[j].id = id}}
             n == CHOOSE m \in stamps : TRUE
  <1>1. CASE stamps = {}
    BY <1>1 DEF NewestAfter, Newer
  <1>2. CASE stamps # {}
    <2>1. n \in stamps
      BY <1>2
    <2>2. PICK i \in written :
              message[i].channel = c /\ message[i].id = id /\ n = message[i].stamp
      BY <2>1
    <2>3. InCache(message[i])
      OBVIOUS
    <2>4. entries[c][id].updated /\ n = entries[c][id].stamp
      BY <2>2, <2>3 DEF InCache
    <2>5. NewestAfter(written, c, id) = n
      BY <1>2 DEF NewestAfter
    <2>. QED
      BY <2>4, <2>5 DEF Newer
  <1>. QED
    BY <1>1, <1>2

(* What end_cycle does to the history: at most the current publisher's     *)
(* part changes, to samples that are updated in the cache.                 *)
LEMMA Written ==
    ASSUME TypeOK, IInv, EndCycle
    PROVE  /\ pc = "dispatch" /\ sub \in Sub /\ message' = <<>>
           /\ pc' \in {"idle", "dispatch"}
           /\ pc' = "dispatch" => sub' = sub + 1
           /\ UNCHANGED <<queue, stamp, entries>>
           /\ \A s \in Sub : s # sub => /\ last'[s] = last[s]
                                       /\ published'[s] = published[s]
           /\ \A c \in Channel, id \in EcatId : Newer(published'[sub][c][id], sub, c, id)
           /\ \/ UNCHANGED <<last, published, wrote>>
              \/ /\ wrote' = wrote \cup {sub}
                 /\ \A k \in DOMAIN last'[sub] :
                        /\ last'[sub][k] \in Sample
                        /\ InCache(last'[sub][k])
  <1>1. /\ pc = "dispatch" /\ sub \in Sub /\ message' = <<>>
        /\ pc' \in {"idle", "dispatch"}
        /\ pc' = "dispatch" => sub' = sub + 1
        /\ UNCHANGED <<queue, stamp, entries>>
    BY DEF TypeOK, EndCycle, BeginCycle, shm, cache
  <1>2. CASE UNCHANGED history
    BY <1>1, <1>2 DEF history, Newer
  <1>3. ASSUME NEW written \in Outcomes,
               last' = [last EXCEPT ![sub] = [i \in written |-> message[i]]],
               published' = [published EXCEPT ![sub] =
                   [c \in Channel |-> [id \in EcatId |-> NewestAfter(written, c, id)]]],
               wrote' = wrote \cup {sub}
        PROVE  /\ \A s \in Sub : s # sub => /\ last'[s] = last[s]
                                           /\ published'[s] = published[s]
               /\ \A c \in Channel, id \in EcatId :
                      Newer(published'[sub][c][id], sub, c, id)
               /\ \A k \in DOMAIN last'[sub] :
                      /\ last'[sub][k] \in Sample
                      /\ InCache(last'[sub][k])
    <2>1. last'[sub] = [i \in written |-> message[i]]
      BY <1>1, <1>3 DEF TypeOK, HistoryTypeOK
    <2>2. \A s \in Sub : s # sub => last'[s] = last[s] /\ published'[s] = published[s]
      BY <1>3 DEF TypeOK, HistoryTypeOK
    <2>3. written \subseteq 1..Len(message)
      BY OutcomesInMessage
    <2>4. \A i \in written : message[i] \in Sample /\ InCache(message[i])
      BY <1>1, <2>3 DEF TypeOK, IInv, MessageInCache
    <2>5. ASSUME NEW c \in Channel, NEW id \in EcatId
          PROVE  Newer(published'[sub][c][id], sub, c, id)
      <3>1. published'[sub] =
                [d \in Channel |-> [k \in EcatId |-> NewestAfter(written, d, k)]]
        BY <1>1, <1>3 DEF TypeOK, HistoryTypeOK
      <3>2. published'[sub][c][id] = NewestAfter(written, c, id)
        BY <3>1
      <3>. QED
        BY <2>3, <2>4, <3>2, NewestIsNewer
    <2>. QED
      BY <2>1, <2>2, <2>4, <2>5
  <1>. QED
    BY <1>1, <1>2, <1>3 DEF EndCycle

LEMMA EndCycleIInv ==
    ASSUME TypeOK, IInv, EndCycle
    PROVE  IInv'
  <1>1. /\ pc = "dispatch" /\ sub \in Sub /\ message' = <<>>
        /\ pc' \in {"idle", "dispatch"}
        /\ pc' = "dispatch" => sub' = sub + 1
        /\ UNCHANGED <<queue, stamp, entries>>
    BY Written
  <1>2. /\ \A s \in Sub : s # sub => last'[s] = last[s] /\ published'[s] = published[s]
        /\ \A c \in Channel, id \in EcatId : Newer(published'[sub][c][id], sub, c, id)
    BY Written
  <1>3. \/ UNCHANGED <<last, published, wrote>>
        \/ /\ wrote' = wrote \cup {sub}
           /\ \A k \in DOMAIN last'[sub] :
                  last'[sub][k] \in Sample /\ InCache(last'[sub][k])
    BY Written
  <1>4. wrote \subseteq Sub /\ sub \in Nat /\ \A s \in Sub : s \in Nat
    BY <1>1 DEF TypeOK, Sub
  <1>5. QueueOrdered' /\ CacheBeforeQueue' /\ MessageInCache'
    BY <1>1 DEF IInv, QueueOrdered, CacheBeforeQueue, MessageInCache
  <1>6. PublishedBeforeQueue'
    <2> SUFFICES ASSUME NEW s \in Sub, NEW d \in Channel, NEW k \in EcatId
                 PROVE  /\ published'[s][d][k] <= stamp[d]
                        /\ \A i \in 1..Len(queue[d]) :
                               published'[s][d][k] < queue[d][i].stamp
      BY <1>1 DEF PublishedBeforeQueue
    <2>1. CASE published'[s][d][k] = published[s][d][k]
      BY <2>1 DEF IInv, PublishedBeforeQueue
    <2>2. CASE published'[s][d][k] = entries[d][k].stamp
      BY <2>2 DEF IInv, CacheBeforeQueue
    <2>. QED
      BY <1>2, <2>1, <2>2 DEF Newer
  <1>7. PublishedBeforeUpdated'
    <2> SUFFICES ASSUME NEW s \in Sub, s \notin wrote', NEW d \in Channel, NEW k \in EcatId,
                        Begun(d)', NEW id \in EcatId, entries[d][id].updated
                 PROVE  published'[s][d][k] < entries[d][id].stamp
      BY <1>1 DEF PublishedBeforeUpdated
    <2>1. s \notin wrote /\ published'[s] = published[s]
      BY <1>2, <1>3
    <2>2. Begun(d)
      BY <1>1 DEF Begun
    <2>3. PublishedBeforeUpdated
      BY DEF IInv
    <2>. QED
      BY <2>1, <2>2, <2>3 DEF PublishedBeforeUpdated
  <1>8. WroteInOrder'
    <2>1. \A s \in wrote : s < sub
      BY <1>1 DEF IInv, WroteInOrder
    <2>2. ASSUME pc' = "dispatch", NEW s \in wrote'
          PROVE  s < sub'
      <3>1. s \in wrote \/ s = sub
        BY <1>3
      <3>2. s \in Nat /\ sub' = sub + 1
        BY <1>1, <1>4, <2>2, <3>1
      <3>3. s < sub \/ s = sub
        BY <2>1, <3>1
      <3>. QED
        BY <1>4, <3>2, <3>3
    <2>3. ASSUME NEW s \in wrote', NEW k \in DOMAIN last'[s]
          PROVE  InCache(last'[s][k])
      <3>1. CASE s \in wrote
        <4>1. last'[s] = last[s]
          BY <1>2, <1>4, <2>1, <3>1
        <4>. QED
          BY <3>1, <4>1 DEF IInv, WroteInOrder
      <3>2. CASE s \notin wrote
        BY <1>3, <3>2
      <3>. QED
        BY <3>1, <3>2
    <2>4. ASSUME NEW s \in wrote', NEW k \in DOMAIN last'[s]
          PROVE  InCache(last[s][k])'
      BY <1>1, <2>3 DEF InCache
    <2>5. pc' \notin {"clear", "drain"}
      BY <1>1
    <2>. QED
      BY <2>2, <2>4, <2>5 DEF WroteInOrder
  <1>. QED
    BY <1>5, <1>6, <1>7, <1>8 DEF IInv

LEMMA NextIInv == TypeOK /\ IInv /\ [Next]_vars => IInv'
  <1> SUFFICES ASSUME TypeOK, IInv, [Next]_vars
               PROVE  IInv'
    OBVIOUS
  <1>1. CASE UNCHANGED vars
    BY <1>1 DEF vars, shm, cache, cursor, publisher, history, IInv, QueueOrdered,
        CacheBeforeQueue, PublishedBeforeQueue, PublishedBeforeUpdated, Begun,
        MessageInCache, WroteInOrder, InCache
  <1>. QED
    BY <1>1, PushIInv, OtherDrainsIInv, SpinIInv, ClearIInv, DrainIInv, DrainDoneIInv,
       DispatchIInv, NextChannelIInv, EndCycleIInv DEF Next

THEOREM IInvariant == Spec => []IInv
  BY InitIInv, NextIInv, TypeCorrect, PTL DEF Spec

-----------------------------------------------------------------------------
(***************************************************************************)
(* The two promises of dispatch that follow. No publisher writes a sample  *)
(* twice or goes back in time: what it writes of a channel is newer than   *)
(* all it has ever written of it.                                          *)
(***************************************************************************)
THEOREM NoRepublication == Spec => NeverRepublished
  <1>1. ASSUME TypeOK, IInv, Next, NEW s \in wrote' \ wrote,
               NEW e \in Batch(s)', NEW id \in EcatId
        PROVE  e.stamp > published[s][e.channel][id]
    <2>1. EndCycle
      BY <1>1 DEF Next, MasterPush, OtherDrains, SpinOnce, ClearUpdated, DrainOne, DrainDone,
          DispatchId, DispatchNextChannel, history
    <2>2. /\ s = sub /\ s \in Sub /\ pc = "dispatch"
          /\ UNCHANGED entries
          /\ \A k \in DOMAIN last'[s] :
                 last'[s][k] \in Sample /\ InCache(last'[s][k])
      BY <1>1, <2>1, Written
    <2>3. PICK k \in DOMAIN last'[s] : e = last'[s][k]
      BY DEF Batch
    <2>4. /\ e.channel \in Channel /\ e.id \in EcatId /\ e.stamp \in Nat
          /\ entries[e.channel][e.id].updated
          /\ entries[e.channel][e.id].stamp = e.stamp
      BY <2>2, <2>3 DEF InCache, Sample
    <2>5. published[s][e.channel][id] < entries[e.channel][e.id].stamp
      BY <1>1, <2>2, <2>4 DEF IInv, PublishedBeforeUpdated, Begun
    <2>6. published[s][e.channel][id] \in Nat
      BY <1>1, <2>2, <2>4, StampTypes
    <2>. QED
      BY <2>4, <2>5, <2>6
  <1>2. TypeOK /\ IInv /\ [Next]_vars =>
            [\A s \in wrote' \ wrote : \A e \in Batch(s)' : \A id \in EcatId :
                e.stamp > published[s][e.channel][id]]_vars
    BY <1>1
  <1>. QED
    BY <1>2, TypeCorrect, IInvariant, PTL DEF Spec, NeverRepublished

(* The topics of one cycle agree on the slaves they have in common.        *)
THEOREM Agreement == Spec => []SameCycleAgreement
  <1>1. TypeOK /\ IInv => SameCycleAgreement
    <2> SUFFICES ASSUME TypeOK, IInv, NEW s \in wrote, NEW t \in wrote,
                        NEW e \in Batch(s), NEW f \in Batch(t),
                        e.channel = f.channel, e.id = f.id
                 PROVE  e = f
      BY DEF SameCycleAgreement
    <2>1. PICK k \in DOMAIN last[s] : e = last[s][k]
      BY DEF Batch
    <2>2. PICK j \in DOMAIN last[t] : f = last[t][j]
      BY DEF Batch
    <2>3. InCache(e) /\ InCache(f)
      BY <2>1, <2>2 DEF IInv, WroteInOrder
    <2>4. e \in Sample /\ f \in Sample
      BY <2>1, <2>2 DEF TypeOK, HistoryTypeOK
    <2>. QED
      BY <2>3, <2>4 DEF InCache, Sample
  <1>. QED
    BY <1>1, TypeCorrect, IInvariant, PTL

-----------------------------------------------------------------------------
(***************************************************************************)
(* fill_cache's list of active IDs, and the newest sample.                 *)
(***************************************************************************)

(* A queued PDO that the drain callback will file under an ID.             *)
Here(c, id, i) == Accepted(queue[c][i]) /\ queue[c][i].id = id

(* The newest sample the queue took of an ID is the newest of its queued   *)
(* samples; when none is queued it is in the cache. 0: somebody else has it. *)
AcceptedKept ==
    \A c \in Channel, id \in EcatId :
        \/ accepted[c][id] = 0
        \/ /\ \A i \in 1..Len(queue[c]) :
                  Here(c, id, i) => queue[c][i].stamp <= accepted[c][id]
           /\ \/ accepted[c][id] = entries[c][id].stamp
              \/ \E i \in 1..Len(queue[c]) :
                     Here(c, id, i) /\ queue[c][i].stamp = accepted[c][id]

(* Whatever is queued or cached was pushed by a slave.                     *)
QueueFromSources ==
    \A c \in Channel : \A i \in 1..Len(queue[c]) :
        \E src \in Sources :
            /\ src.channel = c
            /\ src.has_index = queue[c][i].has_index
            /\ src.id = queue[c][i].id
            /\ src.type = queue[c][i].type

CacheFromSources ==
    \A c \in Channel, id \in EcatId :
        /\ entries[c][id].updated => entries[c][id].valid
        /\ entries[c][id].valid =>
               \E src \in Sources :
                   /\ src.channel = c /\ src.has_index
                   /\ src.id = id /\ src.type = entries[c][id].type

(* The message under assembly: one sample of each ID seen in this cycle,   *)
(* of the IDs asked for, and of all of them if each can be converted.      *)
MessageOfSeen ==
    pc = "dispatch" =>
        /\ \A i \in 1..Len(message) : message[i].id \in ids_seen
        /\ \A i, j \in 1..Len(message) : message[i].id = message[j].id => i = j
        /\ ~accept_all_ids(sub) => ids_seen \subseteq ids_allowed(sub)
        /\ ~accept_all_ids(sub) /\ ConvertsAll(sub) =>
               \A id \in ids_seen : \E i \in 1..Len(message) : message[i].id = id

(* What ClearUpdated and DrainOne do to a cache, entry by entry.           *)
LEMMA ClearedCache ==
    ASSUME TypeOK, ClearUpdated
    PROVE  /\ UNCHANGED <<queue, stamp, accepted, active_ids>>
           /\ \A d \in Channel, id \in EcatId :
                  /\ entries'[d][id].valid = entries[d][id].valid
                  /\ entries'[d][id].type = entries[d][id].type
                  /\ entries'[d][id].stamp = entries[d][id].stamp
                  /\ entries'[d][id].updated => entries[d][id].updated
  <1> DEFINE c == CHANNELS_ARRAY[chan]
  <1>1. c \in Channel
    BY ChannelAt DEF TypeOK, ClearUpdated
  <1>2. UNCHANGED <<queue, stamp, accepted, active_ids>>
    BY DEF ClearUpdated, shm
  <1>3. entries' = [entries EXCEPT ![c] =
                        [id \in EcatId |-> [entries[c][id] EXCEPT !.updated = FALSE]]]
    BY DEF ClearUpdated, Cleared
  <1> HIDE DEF c
  <1>4. ASSUME NEW d \in Channel, NEW id \in EcatId
        PROVE  /\ entries'[d][id].valid = entries[d][id].valid
               /\ entries'[d][id].type = entries[d][id].type
               /\ entries'[d][id].stamp = entries[d][id].stamp
               /\ entries'[d][id].updated => entries[d][id].updated
    <2>1. \/ entries'[d][id] = entries[d][id]
          \/ entries'[d][id] = [entries[d][id] EXCEPT !.updated = FALSE]
      BY <1>1, <1>3 DEF TypeOK
    <2>2. entries[d][id] \in Entry
      BY DEF TypeOK
    <2>. QED
      BY <2>1, <2>2 DEF Entry
  <1>. QED
    BY <1>2, <1>4

LEMMA DrainedCache ==
    ASSUME TypeOK, DrainOne
    PROVE  LET c == CHANNELS_ARRAY[chan]
               pdo == queue[c][1]
           IN  /\ c \in Channel /\ pdo \in Pdo
               /\ \A d \in Channel, id \in EcatId :
                      entries'[d][id] = IF d = c /\ id = pdo.id /\ Accepted(pdo)
                                        THEN [valid |-> TRUE, updated |-> TRUE,
                                              type |-> pdo.type, stamp |-> pdo.stamp]
                                        ELSE entries[d][id]
               /\ Accepted(pdo) => pdo.id \in EcatId
               /\ \A d \in Channel :
                      active_ids'[d] =
                          IF d = c /\ Accepted(pdo) /\ ~entries[c][pdo.id].valid
                          THEN Append(active_ids[c], pdo.id)
                          ELSE active_ids[d]
               /\ UNCHANGED accepted
  <1> DEFINE c == CHANNELS_ARRAY[chan]
             pdo == queue[c][1]
             new == [valid |-> TRUE, updated |-> TRUE,
                     type |-> pdo.type, stamp |-> pdo.stamp]
  <1>1. c \in Channel
    BY ChannelAt DEF TypeOK, DrainOne
  <1>2. queue[c] \in Seq(Pdo) /\ queue[c] # <<>>
    BY <1>1 DEF TypeOK, DrainOne
  <1>3. pdo = Head(queue[c]) /\ pdo \in Pdo
    BY <1>2
  <1>4. Accepted(pdo) => pdo.id \in EcatId
    BY <1>3, SourcesAssumption DEF Accepted, Pdo, EcatId
  <1>5. /\ UNCHANGED accepted
        /\ ~Accepted(pdo) => UNCHANGED <<active_ids, entries>>
        /\ Accepted(pdo) =>
               /\ active_ids' = [active_ids EXCEPT ![c] = Listed(c, pdo.id)]
               /\ entries' = [entries EXCEPT ![c][pdo.id] = new]
    BY <1>3 DEF DrainOne, cache, Received
  <1> HIDE DEF c, pdo, new
  <1>6. \A d \in Channel, id \in EcatId :
            entries'[d][id] = IF d = c /\ id = pdo.id /\ Accepted(pdo)
                              THEN new ELSE entries[d][id]
    BY <1>1, <1>4, <1>5 DEF TypeOK
  <1>7. \A d \in Channel :
            active_ids'[d] = IF d = c /\ Accepted(pdo) /\ ~entries[c][pdo.id].valid
                             THEN Append(active_ids[c], pdo.id) ELSE active_ids[d]
    BY <1>1, <1>5 DEF TypeOK, Listed
  <1>. QED
    BY <1>1, <1>3, <1>4, <1>5, <1>6, <1>7 DEF c, pdo, new

(* The other actions leave the caches alone.                               *)
LEMMA CacheKept ==
    ASSUME [Next]_vars, ~ClearUpdated, ~DrainOne
    PROVE  UNCHANGED <<active_ids, entries>>
  BY DEF Next, vars, cache, MasterPush, OtherDrains, SpinOnce, DrainDone, DispatchId,
         DispatchNextChannel, EndCycle

LEMMA ActiveIdsStep ==
    ASSUME TypeOK, ActiveIdsExact, [Next]_vars
    PROVE  ActiveIdsExact'
  <1>1. CASE UNCHANGED <<active_ids, entries>>
    BY <1>1 DEF ActiveIdsExact
  <1>2. CASE ClearUpdated
    BY <1>2, ClearedCache DEF ActiveIdsExact
  <1>3. CASE DrainOne
    <2> DEFINE c == CHANNELS_ARRAY[chan]
               pdo == queue[c][1]
    <2>1. /\ c \in Channel
          /\ \A d \in Channel, id \in EcatId :
                 entries'[d][id] = IF d = c /\ id = pdo.id /\ Accepted(pdo)
                                   THEN [valid |-> TRUE, updated |-> TRUE,
                                         type |-> pdo.type, stamp |-> pdo.stamp]
                                   ELSE entries[d][id]
          /\ Accepted(pdo) => pdo.id \in EcatId
          /\ \A d \in Channel :
                 active_ids'[d] =
                     IF d = c /\ Accepted(pdo) /\ ~entries[c][pdo.id].valid
                     THEN Append(active_ids[c], pdo.id)
                     ELSE active_ids[d]
      BY <1>3, DrainedCache
    <2>2. \A d \in Channel : active_ids[d] \in Seq(EcatId)
      BY DEF TypeOK
    <2> HIDE DEF c, pdo
    <2>3. \A d \in Channel, id \in EcatId :
              entries'[d][id].valid <=>
                  entries[d][id].valid \/ (d = c /\ id = pdo.id /\ Accepted(pdo))
      BY <2>1
    <2> SUFFICES ASSUME NEW d \in Channel
                 PROVE  /\ \A id \in EcatId : entries'[d][id].valid
                               <=> \E i \in 1..Len(active_ids'[d]) : active_ids'[d][i] = id
                        /\ \A i, j \in 1..Len(active_ids'[d]) :
                               active_ids'[d][i] = active_ids'[d][j] => i = j
      BY DEF ActiveIdsExact
    <2>4. CASE active_ids'[d] = active_ids[d]
               /\ ~(d = c /\ Accepted(pdo) /\ ~entries[c][pdo.id].valid)
      BY <2>1, <2>3, <2>4 DEF ActiveIdsExact
    <2>5. CASE /\ d = c /\ Accepted(pdo) /\ ~entries[c][pdo.id].valid
               /\ active_ids'[c] = Append(active_ids[c], pdo.id)
      <3> DEFINE n == Len(active_ids[c])
      <3>1. /\ n \in Nat /\ Len(active_ids'[c]) = n + 1
            /\ \A i \in 1..n : active_ids'[c][i] = active_ids[c][i]
            /\ active_ids'[c][n + 1] = pdo.id
        BY <2>1, <2>2, <2>5
      <3>2. \A i \in 1..n : active_ids[c][i] # pdo.id
        BY <2>1, <2>5 DEF ActiveIdsExact
      <3>3. \A i \in 1..(n + 1) : i \in 1..n \/ i = n + 1
        BY <3>1
      <3>4. 1..n \subseteq 1..(n + 1) /\ n + 1 \in 1..(n + 1)
        BY <3>1
      <3>5. \A id \in EcatId : entries[c][id].valid
                <=> \E i \in 1..n : active_ids[c][i] = id
        BY <2>1 DEF ActiveIdsExact
      <3>6. \A i, j \in 1..n : active_ids[c][i] = active_ids[c][j] => i = j
        BY <2>1 DEF ActiveIdsExact
      <3> HIDE DEF n
      <3>7. ASSUME NEW id \in EcatId
            PROVE  entries'[c][id].valid
                       <=> \E i \in 1..(n + 1) : active_ids'[c][i] = id
        BY <2>1, <2>3, <2>5, <3>1, <3>3, <3>4, <3>5
      <3>8. ASSUME NEW i \in 1..(n + 1), NEW j \in 1..(n + 1),
                   active_ids'[c][i] = active_ids'[c][j]
            PROVE  i = j
        BY <3>1, <3>2, <3>3, <3>6, <3>8
      <3>. QED
        BY <2>5, <3>1, <3>7, <3>8
    <2>. QED
      BY <2>1, <2>4, <2>5
  <1>. QED
    BY <1>1, <1>2, <1>3, CacheKept

(***************************************************************************)
(* fill_cache: active_ids lists exactly the IDs with a valid entry, each   *)
(* once, however pushes, drains and cycles interleave.                     *)
(***************************************************************************)
THEOREM ActiveIdsAreExact == Spec => []ActiveIdsExact
  <1>1. Init => ActiveIdsExact
    BY DEF Init, ActiveIdsExact, NoEntry
  <1>2. TypeOK /\ ActiveIdsExact /\ [Next]_vars => ActiveIdsExact'
    BY ActiveIdsStep
  <1>. QED
    BY <1>1, <1>2, TypeCorrect, PTL DEF Spec

(* What a push does to the queue and to the newest sample of each ID.      *)
LEMMA PushedExact ==
    ASSUME TypeOK, NEW src \in Sources, MasterPush(src)
    PROVE  LET c == src.channel
               pdo == [has_index |-> src.has_index, id |-> src.id,
                       type |-> src.type, stamp |-> stamp[c] + 1]
           IN  /\ c \in Channel /\ pdo \in Pdo
               /\ \/ UNCHANGED <<queue, accepted>>
                  \/ /\ \A d \in Channel : queue'[d] = IF d = c THEN Append(queue[d], pdo)
                                                                ELSE queue[d]
                     /\ \A d \in Channel, id \in EcatId :
                            accepted'[d][id] = IF d = c /\ id = pdo.id /\ Accepted(pdo)
                                               THEN pdo.stamp ELSE accepted[d][id]
  <1> DEFINE c == src.channel
             pdo == [has_index |-> src.has_index, id |-> src.id,
                     type |-> src.type, stamp |-> stamp[c] + 1]
  <1>1. c \in Channel
    BY SourcesAssumption DEF Source
  <1>2. stamp[c] + 1 \in Nat \ {0}
    BY <1>1 DEF TypeOK
  <1>3. pdo \in Pdo
    BY <1>2, SourcesAssumption DEF Source, Pdo
  <1>4. \/ UNCHANGED <<queue, accepted>>
        \/ /\ queue' = [queue EXCEPT ![c] = Append(queue[c], pdo)]
           /\ accepted' = IF Accepted(pdo)
                          THEN [accepted EXCEPT ![c][pdo.id] = pdo.stamp]
                          ELSE accepted
    BY DEF MasterPush
  <1>5. Accepted(pdo) => pdo.id \in EcatId
    BY <1>3, SourcesAssumption DEF Accepted, Pdo, EcatId
  <1> HIDE DEF c, pdo
  <1>7. CASE accepted' = IF Accepted(pdo)
                         THEN [accepted EXCEPT ![c][pdo.id] = pdo.stamp]
                         ELSE accepted
    <2>1. \A d \in Channel, id \in EcatId :
              accepted'[d][id] = IF d = c /\ id = pdo.id /\ Accepted(pdo)
                                 THEN pdo.stamp ELSE accepted[d][id]
      BY <1>1, <1>5, <1>7 DEF TypeOK
    <2>2. CASE queue' = [queue EXCEPT ![c] = Append(queue[c], pdo)]
      <3>1. \A d \in Channel : queue'[d] = IF d = c THEN Append(queue[d], pdo) ELSE queue[d]
        BY <1>1, <2>2 DEF TypeOK
      <3>. QED
        BY <1>1, <1>3, <2>1, <3>1 DEF c, pdo
    <2>. QED
      BY <1>1, <1>3, <1>4, <2>2 DEF c, pdo
  <1>. QED
    BY <1>1, <1>3, <1>4, <1>7 DEF c, pdo

(* The head of the queue goes, and with it the claim on its sample.        *)
LEMMA OtherDrained ==
    ASSUME TypeOK, NEW c \in SharedChannels, OtherDrains(c)
    PROVE  /\ c \in Channel /\ queue[c][1] \in Pdo /\ Len(queue[c]) \in Nat \ {0}
           /\ \A d \in Channel : d # c => queue'[d] = queue[d]
           /\ Len(queue'[c]) = Len(queue[c]) - 1
           /\ \A i \in 1..Len(queue'[c]) : queue'[c][i] = queue[c][i + 1]
           /\ \A d \in Channel, id \in EcatId :
                  accepted'[d][id] = IF d = c /\ Here(c, id, 1)
                                        /\ accepted[c][id] = queue[c][1].stamp
                                     THEN 0 ELSE accepted[d][id]
           /\ UNCHANGED <<stamp, entries>>
  <1> DEFINE pdo == queue[c][1]
  <1>1. c \in Channel
    BY SourcesAssumption
  <1>2. queue[c] \in Seq(Pdo) /\ queue[c] # <<>>
    BY <1>1 DEF TypeOK, OtherDrains
  <1>3. pdo = Head(queue[c]) /\ pdo \in Pdo /\ Len(queue[c]) \in Nat \ {0}
    BY <1>2
  <1>4. Accepted(pdo) => pdo.id \in EcatId
    BY <1>3, SourcesAssumption DEF Accepted, Pdo, EcatId
  <1>5. /\ queue' = [queue EXCEPT ![c] = Tail(queue[c])]
        /\ accepted' = IF Accepted(pdo) /\ accepted[c][pdo.id] = pdo.stamp
                       THEN [accepted EXCEPT ![c][pdo.id] = 0] ELSE accepted
        /\ UNCHANGED <<stamp, entries>>
    BY <1>3 DEF OtherDrains, cache
  <1>6. queue'[c] = Tail(queue[c]) /\ \A d \in Channel : d # c => queue'[d] = queue[d]
    BY <1>1, <1>5 DEF TypeOK
  <1>7. /\ Len(queue'[c]) = Len(queue[c]) - 1
        /\ \A i \in 1..Len(queue'[c]) : queue'[c][i] = queue[c][i + 1]
    BY <1>2, <1>6
  <1> HIDE DEF pdo
  <1>8. \A d \in Channel, id \in EcatId :
            accepted'[d][id] = IF d = c /\ Accepted(pdo) /\ pdo.id = id
                                  /\ accepted[c][id] = pdo.stamp
                               THEN 0 ELSE accepted[d][id]
    BY <1>1, <1>4, <1>5 DEF TypeOK
  <1>. QED
    BY <1>1, <1>3, <1>5, <1>6, <1>7, <1>8 DEF pdo, Here

(* AcceptedKept, of one ID.                                                *)
Kept(c, id) ==
    \/ accepted[c][id] = 0
    \/ /\ \A i \in 1..Len(queue[c]) :
              Here(c, id, i) => queue[c][i].stamp <= accepted[c][id]
       /\ \/ accepted[c][id] = entries[c][id].stamp
          \/ \E i \in 1..Len(queue[c]) :
                 Here(c, id, i) /\ queue[c][i].stamp = accepted[c][id]

LEMMA PushKept ==
    ASSUME TypeOK, IInv, NEW src \in Sources, MasterPush(src),
           NEW d \in Channel, NEW id \in EcatId, Kept(d, id)
    PROVE  Kept(d, id)'
  <1> DEFINE c == src.channel
             pdo == [has_index |-> src.has_index, id |-> src.id,
                     type |-> src.type, stamp |-> stamp[c] + 1]
  <1>1. UNCHANGED entries
    BY DEF MasterPush, cache
  <1>2. CASE UNCHANGED <<queue, accepted>>
    BY <1>1, <1>2 DEF Kept, Here
  <1>3. CASE /\ queue'[d] = IF d = c THEN Append(queue[d], pdo) ELSE queue[d]
             /\ accepted'[d][id] = IF d = c /\ id = pdo.id /\ Accepted(pdo)
                                   THEN pdo.stamp ELSE accepted[d][id]
    <2>1. /\ pdo.stamp = stamp[c] + 1 /\ stamp[d] \in Nat
          /\ queue[d] \in Seq(Pdo) /\ accepted[d][id] \in Nat
      BY DEF TypeOK
    <2>0. PICK n \in Nat : n = Len(queue[d])
      BY <2>1
    <2>2. \A i \in 1..Len(queue[d]) : queue[d][i].stamp <= stamp[d]
                                      /\ queue[d][i].stamp \in Nat
      BY StampTypes DEF IInv, QueueOrdered
    <2> HIDE DEF c, pdo
    <2>3. CASE d # c
      BY <1>1, <1>3, <2>3 DEF Kept, Here
    <2>4. CASE d = c
      <3>1. /\ Len(queue'[d]) = n + 1
            /\ \A i \in 1..n : queue'[d][i] = queue[d][i]
            /\ queue'[d][n + 1] = pdo
        BY <1>3, <2>0, <2>1, <2>4
      <3>2. \A i \in 1..(n + 1) : i \in 1..n \/ i = n + 1
        BY <3>1
      <3>3. 1..n \subseteq 1..(n + 1) /\ n + 1 \in 1..(n + 1)
        BY <3>1
      <3>4. CASE id = pdo.id /\ Accepted(pdo)
        <4>1. accepted'[d][id] = stamp[d] + 1
          BY <1>3, <2>1, <2>4, <3>4
        <4>2. \A i \in 1..(n + 1) : queue'[d][i].stamp <= stamp[d] + 1
          <5>1. ASSUME NEW i \in 1..n
                PROVE  queue'[d][i].stamp <= stamp[d] + 1
            <6>1. queue'[d][i] = queue[d][i]
              BY <3>1
            <6>2. queue[d][i].stamp <= stamp[d] /\ queue[d][i].stamp \in Nat
              BY <2>0, <2>2
            <6>. QED
              BY <2>1, <6>1, <6>2
          <5>2. queue'[d][n + 1].stamp = stamp[d] + 1
            BY <2>1, <2>4, <3>1
          <5>. QED
            BY <2>1, <3>2, <5>1, <5>2
        <4>3. Here(d, id, n + 1)' /\ queue'[d][n + 1].stamp = stamp[d] + 1
          BY <2>1, <2>4, <3>1, <3>4 DEF Here, Accepted
        <4>. QED
          BY <3>1, <3>3, <4>1, <4>2, <4>3 DEF Kept
      <3>5. CASE ~(id = pdo.id /\ Accepted(pdo))
        <4>1. accepted'[d][id] = accepted[d][id]
          BY <1>3, <3>5
        <4>2. \A i \in 1..n : Here(d, id, i)' <=> Here(d, id, i)
          BY <3>1 DEF Here, Accepted
        <4>3. ~Here(d, id, n + 1)'
          BY <3>1, <3>5 DEF Here, Accepted
        <4>. QED
          BY <1>1, <2>0, <3>1, <3>2, <3>3, <4>1, <4>2, <4>3 DEF Kept
      <3>. QED
        BY <3>4, <3>5
    <2>. QED
      BY <2>3, <2>4
  <1>. QED
    BY <1>2, <1>3, PushedExact

LEMMA OtherDrainsKept ==
    ASSUME TypeOK, IInv, NEW c \in SharedChannels, OtherDrains(c),
           NEW d \in Channel, NEW id \in EcatId, Kept(d, id)
    PROVE  Kept(d, id)'
  <1>1. /\ c \in Channel /\ Len(queue[c]) \in Nat \ {0}
        /\ \A e \in Channel : e # c => queue'[e] = queue[e]
        /\ Len(queue'[c]) = Len(queue[c]) - 1
        /\ \A i \in 1..Len(queue'[c]) : queue'[c][i] = queue[c][i + 1]
        /\ accepted'[d][id] = IF d = c /\ Here(c, id, 1)
                                 /\ accepted[c][id] = queue[c][1].stamp
                              THEN 0 ELSE accepted[d][id]
        /\ UNCHANGED <<stamp, entries>>
    BY OtherDrained
  <1>2. CASE d # c
    BY <1>1, <1>2 DEF Kept, Here
  <1>3. CASE d = c /\ accepted'[d][id] = 0
    BY <1>3 DEF Kept
  <1>4. CASE d = c /\ accepted'[d][id] # 0
    <2> DEFINE n == Len(queue[c])
    <2>1. /\ accepted'[d][id] = accepted[d][id]
          /\ ~(Here(c, id, 1) /\ accepted[c][id] = queue[c][1].stamp)
      BY <1>1, <1>4
    <2>2. \A i \in 1..(n - 1) : i + 1 \in 1..n /\ (Here(c, id, i)' <=> Here(c, id, i + 1))
      BY <1>1 DEF Here, Accepted
    <2>3. \A i \in 1..n : i = 1 \/ i - 1 \in 1..(n - 1)
      BY <1>1
    <2>4. \A i \in 1..n : i - 1 + 1 = i
      BY <1>1
    <2>5. \A i \in 1..(n - 1) : Here(c, id, i)' => queue'[c][i].stamp <= accepted'[c][id]
      BY <1>1, <1>4, <2>1, <2>2 DEF Kept
    <2>6. ASSUME accepted[c][id] # entries[c][id].stamp
          PROVE  \E i \in 1..(n - 1) : Here(c, id, i)' /\ queue'[c][i].stamp = accepted'[c][id]
      <3>1. PICK i \in 1..n : Here(c, id, i) /\ queue[c][i].stamp = accepted[c][id]
        BY <1>4, <2>1, <2>6 DEF Kept
      <3>2. i # 1 /\ i - 1 \in 1..(n - 1) /\ i - 1 + 1 = i
        BY <2>1, <2>3, <2>4, <3>1
      <3>. QED
        BY <1>1, <1>4, <2>1, <2>2, <3>1, <3>2
    <2>. QED
      BY <1>1, <1>4, <2>1, <2>5, <2>6 DEF Kept
  <1>. QED
    BY <1>2, <1>3, <1>4

(* The cache takes over the sample that is popped; if it was not the       *)
(* newest of its ID, the newest is behind it.                              *)
LEMMA DrainKept ==
    ASSUME TypeOK, IInv, DrainOne, NEW d \in Channel, NEW id \in EcatId, Kept(d, id)
    PROVE  Kept(d, id)'
  <1>0. PICK c \in Channel, n \in Nat : c = CHANNELS_ARRAY[chan] /\ n = Len(queue[c])
    BY Drained, StampTypes
  <1>1. /\ n > 0
        /\ \A e \in Channel : e # c => queue'[e] = queue[e]
        /\ Len(queue'[c]) = n - 1
        /\ \A i \in 1..Len(queue'[c]) : queue'[c][i] = queue[c][i + 1]
    BY <1>0, Drained
  <1>2. /\ entries'[d][id] = IF d = c /\ id = queue[c][1].id /\ Accepted(queue[c][1])
                             THEN [valid |-> TRUE, updated |-> TRUE,
                                   type |-> queue[c][1].type, stamp |-> queue[c][1].stamp]
                             ELSE entries[d][id]
        /\ UNCHANGED accepted
    <2>1. \A e \in Channel, any \in EcatId :
              entries'[e][any] =
                  IF e = CHANNELS_ARRAY[chan] /\ any = queue[CHANNELS_ARRAY[chan]][1].id
                     /\ Accepted(queue[CHANNELS_ARRAY[chan]][1])
                  THEN [valid |-> TRUE, updated |-> TRUE,
                        type |-> queue[CHANNELS_ARRAY[chan]][1].type,
                        stamp |-> queue[CHANNELS_ARRAY[chan]][1].stamp]
                  ELSE entries[e][any]
      BY DrainedCache
    <2>2. UNCHANGED accepted
      BY DrainedCache
    <2>. QED
      BY <1>0, <2>1, <2>2
  <1>3. /\ accepted[c][id] \in Nat /\ entries[c][id].stamp \in Nat
        /\ \A i \in 1..n : queue[c][i].stamp \in Nat /\ entries[c][id].stamp < queue[c][i].stamp
    BY <1>0, StampTypes DEF TypeOK, IInv, CacheBeforeQueue
  <1>4. CASE d # c
    BY <1>1, <1>2, <1>4 DEF Kept, Here
  <1>5. CASE d = c /\ accepted[d][id] = 0
    BY <1>2, <1>5 DEF Kept
  <1>6. CASE d = c /\ accepted[d][id] # 0
    <2>1. \A i \in 1..(n - 1) : i + 1 \in 1..n /\ (Here(c, id, i)' <=> Here(c, id, i + 1))
      BY <1>1, <1>3 DEF Here, Accepted
    <2>2. \A i \in 1..n : (i = 1 \/ i - 1 \in 1..(n - 1)) /\ i - 1 + 1 = i
      BY <1>1, <1>3
    <2>3. \A i \in 1..(n - 1) : Here(c, id, i)' => queue'[c][i].stamp <= accepted[c][id]
      BY <1>0, <1>1, <1>6, <2>1 DEF Kept
    <2>4. CASE Here(c, id, 1) /\ accepted[c][id] = queue[c][1].stamp
      <3>1. entries'[c][id].stamp = accepted[c][id]
        BY <1>2, <1>6, <2>4 DEF Here
      <3>. QED
        BY <1>0, <1>1, <1>2, <1>6, <2>3, <3>1 DEF Kept
    <2>5. CASE Here(c, id, 1) /\ accepted[c][id] # queue[c][1].stamp
      <3>1. queue[c][1].stamp <= accepted[c][id] /\ 1 \in 1..n
        BY <1>0, <1>1, <1>3, <1>6, <2>5 DEF Kept
      <3>2. accepted[c][id] # entries[c][id].stamp
        BY <1>3, <3>1
      <3>3. PICK i \in 1..n : Here(c, id, i) /\ queue[c][i].stamp = accepted[c][id]
        BY <1>0, <1>6, <3>2 DEF Kept
      <3>4. i - 1 \in 1..(n - 1) /\ i - 1 + 1 = i
        BY <2>2, <2>5, <3>3
      <3>5. Here(c, id, i - 1)' /\ queue'[c][i - 1].stamp = accepted[c][id]
        BY <1>1, <2>1, <3>3, <3>4
      <3>. QED
        BY <1>0, <1>1, <1>2, <1>6, <2>3, <3>4, <3>5 DEF Kept
    <2>6. CASE ~Here(c, id, 1)
      <3>1. entries'[c][id] = entries[c][id]
        BY <1>2, <1>6, <2>6 DEF Here
      <3>2. ASSUME accepted[c][id] # entries[c][id].stamp
            PROVE  \E i \in 1..(n - 1) :
                       Here(c, id, i)' /\ queue'[c][i].stamp = accepted[c][id]
        <4>1. PICK i \in 1..n : Here(c, id, i) /\ queue[c][i].stamp = accepted[c][id]
          BY <1>0, <1>6, <3>2 DEF Kept
        <4>2. i - 1 \in 1..(n - 1) /\ i - 1 + 1 = i
          BY <2>2, <2>6, <4>1
        <4>. QED
          BY <1>1, <2>1, <4>1, <4>2
      <3>. QED
        BY <1>0, <1>1, <1>2, <1>6, <2>3, <3>1, <3>2 DEF Kept
    <2>. QED
      BY <2>4, <2>5, <2>6
  <1>. QED
    BY <1>4, <1>5, <1>6

LEMMA AcceptedKeptStep ==
    ASSUME TypeOK, IInv, AcceptedKept, [Next]_vars
    PROVE  AcceptedKept'
  <1>0. \A d \in Channel, id \in EcatId : Kept(d, id)
    BY DEF AcceptedKept, Kept
  <1> SUFFICES ASSUME NEW d \in Channel, NEW id \in EcatId
               PROVE  Kept(d, id)'
    BY DEF AcceptedKept, Kept
  <1>1. CASE UNCHANGED <<queue, accepted, entries>>
    BY <1>0, <1>1 DEF Kept, Here
  <1>2. CASE ClearUpdated
    BY <1>0, <1>2, ClearedCache DEF Kept, Here
  <1>. QED
    BY <1>0, <1>1, <1>2, PushKept, OtherDrainsKept, DrainKept
    DEF Next, vars, shm, cache, SpinOnce, DrainDone, DispatchId, DispatchNextChannel, EndCycle

(***************************************************************************)
(* fill_cache: once no sample of an ID is queued, its cache entry is the   *)
(* newest sample the queue took of it, whatever was pushed while the drain *)
(* was running, unless another plugin drained that one.                    *)
(***************************************************************************)
THEOREM LatestSampleWins == Spec => []LatestWins
  <1>1. Init => AcceptedKept
    BY DEF Init, AcceptedKept
  <1>2. TypeOK /\ IInv /\ AcceptedKept /\ [Next]_vars => AcceptedKept'
    BY AcceptedKeptStep
  <1>3. AcceptedKept => LatestWins
    BY DEF AcceptedKept, LatestWins, Queued, Here
  <1>. QED
    BY <1>1, <1>2, <1>3, TypeCorrect, IInvariant, PTL DEF Spec

-----------------------------------------------------------------------------
(* What is in the message and in a batch.                                  *)

LEMMA QueueSourcesStep ==
    ASSUME TypeOK, QueueFromSources, [Next]_vars
    PROVE  QueueFromSources'
  <1> DEFINE Pushed(c, pdo) == \E src \in Sources : /\ src.channel = c
                                                    /\ src.has_index = pdo.has_index
                                                    /\ src.id = pdo.id
                                                    /\ src.type = pdo.type
  <1>0. \A d \in Channel : \A i \in 1..Len(queue[d]) : Pushed(d, queue[d][i])
    BY DEF QueueFromSources
  <1> SUFFICES ASSUME NEW d \in Channel, NEW i \in 1..Len(queue'[d])
               PROVE  Pushed(d, queue'[d][i])
    BY DEF QueueFromSources
  <1>1. CASE UNCHANGED queue
    BY <1>0, <1>1
  <1>2. ASSUME NEW src \in Sources, MasterPush(src)
        PROVE  Pushed(d, queue'[d][i])
    <2> DEFINE c == src.channel
               pdo == [has_index |-> src.has_index, id |-> src.id,
                       type |-> src.type, stamp |-> stamp[c] + 1]
    <2>1. queue'[d] = queue[d] \/ (d = c /\ queue'[d] = Append(queue[d], pdo))
      BY <1>2, PushedExact
    <2>2. Pushed(c, pdo)
      OBVIOUS
    <2>3. queue[d] \in Seq(Pdo)
      BY DEF TypeOK
    <2> HIDE DEF pdo, c, Pushed
    <2>4. CASE queue'[d] = queue[d]
      BY <1>0, <2>4
    <2>5. CASE d = c /\ queue'[d] = Append(queue[d], pdo)
      <3>1. i \in 1..Len(queue[d]) \/ i = Len(queue[d]) + 1
        BY <2>3, <2>5
      <3>2. CASE i \in 1..Len(queue[d])
        <4>1. queue'[d][i] = queue[d][i]
          BY <2>3, <2>5, <3>2
        <4>. QED
          BY <1>0, <3>2, <4>1
      <3>3. CASE i = Len(queue[d]) + 1
        <4>1. queue'[d][i] = pdo
          BY <2>3, <2>5, <3>3
        <4>. QED
          BY <2>2, <2>5, <4>1
      <3>. QED
        BY <3>1, <3>2, <3>3
    <2>. QED
      BY <2>1, <2>4, <2>5
  <1>3. ASSUME NEW c \in Channel, Len(queue[c]) \in Nat,
               \A e \in Channel : e # c => queue'[e] = queue[e],
               Len(queue'[c]) = Len(queue[c]) - 1,
               \A k \in 1..Len(queue'[c]) : queue'[c][k] = queue[c][k + 1]
        PROVE  Pushed(d, queue'[d][i])
    <2> HIDE DEF Pushed
    <2>1. CASE d # c
      BY <1>0, <1>3, <2>1
    <2>2. CASE d = c
      <3>1. i + 1 \in 1..Len(queue[c]) /\ queue'[c][i] = queue[c][i + 1]
        BY <1>3, <2>2
      <3>. QED
        BY <1>0, <2>2, <3>1
    <2>. QED
      BY <2>1, <2>2
  <1>4. ASSUME NEW c \in SharedChannels, OtherDrains(c)
        PROVE  Pushed(d, queue'[d][i])
    BY <1>3, <1>4, OtherDrained
  <1>5. CASE DrainOne
    <2>1. CHANNELS_ARRAY[chan] \in Channel /\ Len(queue[CHANNELS_ARRAY[chan]]) \in Nat
      BY <1>5, Drained, StampTypes
    <2>. QED
      BY <1>3, <1>5, <2>1, Drained
  <1>. QED
    BY <1>1, <1>2, <1>4, <1>5
    DEF Next, vars, shm, SpinOnce, ClearUpdated, DrainDone, DispatchId,
        DispatchNextChannel, EndCycle

LEMMA CacheSourcesStep ==
    ASSUME TypeOK, QueueFromSources, CacheFromSources, [Next]_vars
    PROVE  CacheFromSources'
  <1> DEFINE Filed(c, id, entry) ==
                 /\ entry.updated => entry.valid
                 /\ entry.valid => \E src \in Sources : /\ src.channel = c /\ src.has_index
                                                        /\ src.id = id
                                                        /\ src.type = entry.type
  <1>0. \A c \in Channel, id \in EcatId : Filed(c, id, entries[c][id])
    BY DEF CacheFromSources
  <1> SUFFICES ASSUME NEW d \in Channel, NEW id \in EcatId
               PROVE  Filed(d, id, entries'[d][id])
    BY DEF CacheFromSources
  <1>1. CASE UNCHANGED entries
    BY <1>0, <1>1
  <1>2. CASE ClearUpdated
    BY <1>0, <1>2, ClearedCache
  <1>3. CASE DrainOne
    <2> DEFINE c == CHANNELS_ARRAY[chan]
               pdo == queue[c][1]
    <2>1. /\ c \in Channel
          /\ entries'[d][id] = IF d = c /\ id = pdo.id /\ Accepted(pdo)
                               THEN [valid |-> TRUE, updated |-> TRUE,
                                     type |-> pdo.type, stamp |-> pdo.stamp]
                               ELSE entries[d][id]
      BY <1>3, DrainedCache
    <2>2. 1 \in 1..Len(queue[c])
      BY <1>3, Drained, StampTypes
    <2>3. PICK src \in Sources : /\ src.channel = c /\ src.has_index = pdo.has_index
                                 /\ src.id = pdo.id /\ src.type = pdo.type
      BY <2>1, <2>2 DEF QueueFromSources
    <2> HIDE DEF c, pdo
    <2>. QED
      BY <1>0, <2>1, <2>3 DEF Accepted
  <1>. QED
    BY <1>1, <1>2, <1>3, CacheKept

(* A publisher that converts all its sources send keeps what it wants.     *)
LEMMA ConvertedIsKept ==
    ASSUME TypeOK, CacheFromSources, DispatchId, ~accept_all_ids(sub), ConvertsAll(sub)
    PROVE  LET c == subscriptions[sub].channels[chan]
               id == active_ids[c][pos]
           IN  entries[c][id].updated /\ id \in ids_allowed(sub)
                   => Keeps(sub, entries[c][id].type)
  <1> DEFINE c == subscriptions[sub].channels[chan]
             id == active_ids[c][pos]
  <1> SUFFICES ASSUME entries[c][id].updated, id \in ids_allowed(sub)
               PROVE  Keeps(sub, entries[c][id].type)
    OBVIOUS
  <1>1. c \in Channel /\ id \in EcatId /\ sub \in Sub
    BY DispatchedId DEF TypeOK, DispatchId
  <1>2. PICK src \in Sources : /\ src.channel = c /\ src.has_index
                               /\ src.id = id /\ src.type = entries[c][id].type
    BY <1>1 DEF CacheFromSources
  <1>3. chan \in 1..Len(subscriptions[sub].channels)
    <2>1. subscriptions[sub] \in Registration
      BY <1>1, SubscriptionsAssumption DEF Sub
    <2>2. subscriptions[sub].channels \in Seq(Channel)
      BY <2>1 DEF Registration
    <2>3. chan \in Nat \ {0}
      BY DEF TypeOK
    <2>4. chan <= Len(subscriptions[sub].channels)
      BY DEF DispatchId
    <2>. QED
      BY <2>2, <2>3, <2>4
  <1>4. Feeds(src, sub)
    BY <1>2, <1>3 DEF Feeds
  <1>. QED
    BY <1>2, <1>4 DEF ConvertsAll, Keeps

(* One look at the cache: an ID that is wanted is added to ids_seen, and   *)
(* unless a DDS publisher cannot convert it, a sample of it to the message. *)
LEMMA DispatchSeen ==
    ASSUME TypeOK, CacheFromSources, MessageOfSeen, DispatchId
    PROVE  MessageOfSeen'
  <1> DEFINE c == subscriptions[sub].channels[chan]
             id == active_ids[c][pos]
             entry == entries[c][id]
             sample == [channel |-> c, id |-> id, type |-> entry.type,
                        stamp |-> entry.stamp]
             wanted == /\ entry.updated
                       /\ accept_all_ids(sub) \/ id \in ids_allowed(sub)
                       /\ id \notin ids_seen
  <1>1. /\ pc = "dispatch" /\ pc' = "dispatch" /\ sub' = sub
        /\ ids_seen' = IF wanted THEN ids_seen \cup {id} ELSE ids_seen
        /\ message' = IF wanted /\ Keeps(sub, entry.type)
                      THEN Append(message, sample) ELSE message
    BY DEF DispatchId
  <1>2. c \in Channel /\ id \in EcatId /\ sub \in Sub
    BY DispatchedId DEF TypeOK, DispatchId
  <1>3. message \in Seq(Sample)
    BY DEF TypeOK
  <1>4. sample.id = id
    OBVIOUS
  <1>5. ASSUME wanted, ~accept_all_ids(sub), ConvertsAll(sub)
        PROVE  Keeps(sub, entry.type)
    BY <1>5, ConvertedIsKept
  <1>6. /\ \A i \in 1..Len(message) : message[i].id \in ids_seen
        /\ \A i, j \in 1..Len(message) : message[i].id = message[j].id => i = j
        /\ ~accept_all_ids(sub) => ids_seen \subseteq ids_allowed(sub)
        /\ ~accept_all_ids(sub) /\ ConvertsAll(sub) =>
               \A any \in ids_seen : \E i \in 1..Len(message) : message[i].id = any
    BY <1>1 DEF MessageOfSeen
  <1>7. wanted => id \notin ids_seen /\ (accept_all_ids(sub) \/ id \in ids_allowed(sub))
    OBVIOUS
  <1> HIDE DEF c, id, entry, sample, wanted
  <1>8. CASE ids_seen' = ids_seen /\ message' = message
    BY <1>1, <1>6, <1>8 DEF MessageOfSeen, accept_all_ids, ids_allowed, ConvertsAll, Feeds
  <1>9. CASE /\ wanted /\ ids_seen' = ids_seen \cup {id} /\ message' = message
             /\ ~Keeps(sub, entry.type)
    <2>1. accept_all_ids(sub) \/ ~ConvertsAll(sub)
      BY <1>5, <1>9
    <2>. QED
      BY <1>1, <1>6, <1>7, <1>9, <2>1
      DEF MessageOfSeen, accept_all_ids, ids_allowed, ConvertsAll, Feeds
  <1>10. CASE /\ wanted /\ ids_seen' = ids_seen \cup {id}
              /\ message' = Append(message, sample)
    <2> DEFINE n == Len(message)
    <2>1. /\ n \in Nat /\ Len(message') = n + 1
          /\ \A i \in 1..n : message'[i] = message[i]
          /\ message'[n + 1] = sample
      BY <1>3, <1>10
    <2>2. \A i \in 1..(n + 1) : i \in 1..n \/ i = n + 1
      BY <2>1
    <2>3. 1..n \subseteq 1..(n + 1) /\ n + 1 \in 1..(n + 1)
      BY <2>1
    <2>4. \A i \in 1..n : message[i].id \in ids_seen
      BY <1>6
    <2>5. \A i, j \in 1..n : message[i].id = message[j].id => i = j
      BY <1>6
    <2>6. ~accept_all_ids(sub) /\ ConvertsAll(sub) =>
              \A any \in ids_seen : \E i \in 1..n : message[i].id = any
      BY <1>6
    <2> HIDE DEF n
    <2>7. \A i \in 1..(n + 1) : message'[i].id \in ids_seen'
      BY <1>4, <1>10, <2>1, <2>2, <2>4
    <2>8. ASSUME NEW i \in 1..(n + 1), NEW j \in 1..(n + 1), message'[i].id = message'[j].id
          PROVE  i = j
      BY <1>4, <1>7, <1>10, <2>1, <2>2, <2>4, <2>5, <2>8
    <2>9. ~accept_all_ids(sub) => ids_seen' \subseteq ids_allowed(sub)
      BY <1>6, <1>7, <1>10
    <2>10. ASSUME ~accept_all_ids(sub), ConvertsAll(sub), NEW any \in ids_seen'
           PROVE  \E i \in 1..(n + 1) : message'[i].id = any
      BY <1>4, <1>10, <2>1, <2>3, <2>6, <2>10
    <2>. QED
      BY <1>1, <2>1, <2>7, <2>8, <2>9, <2>10
      DEF MessageOfSeen, accept_all_ids, ids_allowed, ConvertsAll, Feeds
  <1>. QED
    BY <1>1, <1>8, <1>9, <1>10

LEMMA MessageSeenStep ==
    ASSUME TypeOK, CacheFromSources, MessageOfSeen, [Next]_vars
    PROVE  MessageOfSeen'
  <1>1. CASE UNCHANGED <<pc, sub, ids_seen, message>>
    BY <1>1 DEF MessageOfSeen
  <1>2. CASE pc' # "dispatch"
    BY <1>2 DEF MessageOfSeen
  <1>3. CASE BeginCycle
    BY <1>3 DEF BeginCycle, MessageOfSeen
  <1>. QED
    BY <1>1, <1>2, <1>3, DispatchSeen
    DEF Next, vars, cursor, publisher, MasterPush, OtherDrains, SpinOnce, ClearUpdated,
        DrainOne, DrainDone, DispatchNextChannel, EndCycle

(* end_cycle of a publisher that writes all or nothing.                    *)
LEMMA CompleteStep ==
    ASSUME TypeOK, MessageOfSeen, CompleteSnapshot, [Next]_vars
    PROVE  CompleteSnapshot'
  <1>1. CASE UNCHANGED last
    BY <1>1 DEF CompleteSnapshot, Batch
  <1>2. ASSUME pc = "dispatch", sub \in Sub, NEW written \in Outcomes, written # {},
               last' = [last EXCEPT ![sub] = [i \in written |-> message[i]]]
        PROVE  CompleteSnapshot'
    <2>1. /\ last'[sub] = [i \in written |-> message[i]]
          /\ \A s \in Sub : s # sub => last'[s] = last[s]
      BY <1>2 DEF TypeOK, HistoryTypeOK
    <2> SUFFICES ASSUME NEW s \in Sub, ~accept_all_ids(s),
                        subscriptions[s].kind # "protobuf", ConvertsAll(s),
                        last'[s] # <<>>
                 PROVE  /\ {e.id : e \in Batch(s)'} = ids_allowed(s)
                        /\ \A i, j \in DOMAIN last'[s] :
                               last'[s][i].id = last'[s][j].id => i = j
      BY DEF CompleteSnapshot
    <2>2. CASE s # sub
      BY <2>1, <2>2 DEF CompleteSnapshot, Batch
    <2>3. CASE s = sub
      <3>1. subscriptions[s].kind \in {"dds", "cdr"}
        <4>1. subscriptions[s] \in Registration
          BY SubscriptionsAssumption DEF Sub
        <4>. QED
          BY <4>1 DEF Registration
      <3>2. valid /\ written = 1..Len(message)
        <4>1. ~(~valid \/ message = <<>>)
          BY <1>2 DEF Outcomes
        <4>2. CASE subscriptions[sub].kind = "dds"
          BY <1>2, <4>1, <4>2 DEF Outcomes
        <4>3. CASE subscriptions[sub].kind = "cdr"
          BY <1>2, <4>1, <4>3 DEF Outcomes
        <4>. QED
          BY <2>3, <3>1, <4>1, <4>2, <4>3
      <3>3. ids_seen = ids_allowed(sub)
        BY <2>3, <3>2 DEF valid
      <3>4. /\ \A i \in written : message[i].id \in ids_allowed(sub)
            /\ \A i, j \in written : message[i].id = message[j].id => i = j
            /\ \A id \in ids_allowed(sub) : \E i \in written : message[i].id = id
        BY <1>2, <2>3, <3>2, <3>3 DEF MessageOfSeen
      <3>5. DOMAIN last'[s] = written /\ \A i \in written : last'[s][i] = message[i]
        BY <2>1, <2>3
      <3>6. Batch(s)' = {message[i] : i \in written}
        BY <3>5 DEF Batch
      <3>7. {e.id : e \in Batch(s)'} = ids_allowed(sub)
        BY <3>4, <3>6
      <3>. QED
        BY <2>3, <3>4, <3>5, <3>7
    <2>. QED
      BY <2>2, <2>3
  <1>3. CASE EndCycle
    BY <1>1, <1>2, <1>3 DEF EndCycle, TypeOK, history
  <1>. QED
    BY <1>1, <1>3
    DEF Next, vars, history, MasterPush, OtherDrains, SpinOnce, ClearUpdated,
        DrainOne, DrainDone, DispatchId, DispatchNextChannel

(* From the queue to the batch: every part holds what the one before it    *)
(* handed on.                                                              *)
Assembly == QueueFromSources /\ CacheFromSources /\ MessageOfSeen /\ CompleteSnapshot

LEMMA AssemblyInvariant == Spec => []Assembly
  <1>1. Init => Assembly
    BY DEF Assembly, Init, QueueFromSources, CacheFromSources, MessageOfSeen,
           CompleteSnapshot, NoEntry
  <1>2. TypeOK /\ Assembly /\ [Next]_vars => Assembly'
    BY QueueSourcesStep, CacheSourcesStep, MessageSeenStep, CompleteStep DEF Assembly
  <1>. QED
    BY <1>1, <1>2, TypeCorrect, PTL DEF Spec

(***************************************************************************)
(* dispatch: a DDS or CDR publisher with an ID list, able to convert what  *)
(* its slaves send, writes all of its IDs or nothing, each exactly once.   *)
(***************************************************************************)
THEOREM SnapshotsAreComplete == Spec => []CompleteSnapshot
  <1>1. Assembly => CompleteSnapshot
    BY DEF Assembly
  <1>. QED
    BY <1>1, AssemblyInvariant, PTL

-----------------------------------------------------------------------------
(***************************************************************************)
(* The order of a message. dispatch_cache looks at the channels of the     *)
(* subscription in turn and in each at active_ids from its head, so that a *)
(* position of the two loops tells which slaves have been looked at. Two   *)
(* messages of all IDs agree in their order because it is the order in     *)
(* which the loops come to the slaves, which new IDs at the end of         *)
(* active_ids do not change.                                               *)
(***************************************************************************)
Passed(s, k, p, c, id) ==
    \E i \in 1..Len(subscriptions[s].channels), j \in 1..Len(active_ids[c]) :
        /\ subscriptions[s].channels[i] = c
        /\ active_ids[c][j] = id
        /\ i < k \/ (i = k /\ j < p)

(* The slave is one the loops come to.                                     *)
Heard(s, e) ==
    /\ \E i \in 1..Len(subscriptions[s].channels) : subscriptions[s].channels[i] = e.channel
    /\ \E j \in 1..Len(active_ids[e.channel]) : active_ids[e.channel][j] = e.id

(* Wherever the loops are past f they are past e.                          *)
Precedes(s, e, f) ==
    \A k, p \in Nat :
        Passed(s, k, p, f.channel, f.id) => Passed(s, k, p, e.channel, e.id)

(* The publishers StableOrder is about.                                    *)
Indexed(s) ==
    /\ ~accept_all_ids(s)
    /\ subscriptions[s].kind # "protobuf"
    /\ ConvertsAll(s)
    /\ OneChannelPerId(s)

(* Every slave of the subscription was heard in this cycle.                *)
Fresh(s) ==
    \A i \in 1..Len(subscriptions[s].channels) : \A id \in ids_allowed(s) :
        LET entry == entries[subscriptions[s].channels[i]][id]
        IN  entry.valid => entry.updated

BatchSorted ==
    \A s \in Sub : Indexed(s) /\ last[s] # <<>> =>
        /\ \E n \in Nat : DOMAIN last[s] = 1..n
        /\ \A i \in DOMAIN last[s] : Heard(s, last[s][i])
        /\ \A i, j \in DOMAIN last[s] : i < j => Precedes(s, last[s][i], last[s][j])

MessageSorted ==
    pc = "dispatch" =>
        /\ \A i \in 1..Len(message) :
               Passed(sub, chan, pos, message[i].channel, message[i].id)
        /\ \A i, j \in 1..Len(message) : i < j => Precedes(sub, message[i], message[j])

(* What the loops have passed and was updated is in ids_seen, and all      *)
(* that is in it was updated.                                              *)
SeenUpdated ==
    pc = "dispatch" =>
        /\ \A c \in Channel, id \in EcatId :
               /\ Passed(sub, chan, pos, c, id)
               /\ entries[c][id].updated
               /\ accept_all_ids(sub) \/ id \in ids_allowed(sub)
               => id \in ids_seen
        /\ \A id \in ids_seen : \E i \in 1..Len(subscriptions[sub].channels) :
               entries[subscriptions[sub].channels[i]][id].updated

(* In a cycle that can be complete the message repeats the last one as far *)
(* as the loops have come, and they have not come to the rest of it.       *)
Aligned ==
    pc = "dispatch" /\ Indexed(sub) /\ last[sub] # <<>> /\ Fresh(sub) =>
        /\ \A i \in 1..Len(message) :
               i \in DOMAIN last[sub] /\ message[i].id = last[sub][i].id
        /\ \A i \in DOMAIN last[sub] :
               i > Len(message) =>
                   ~Passed(sub, chan, pos, last[sub][i].channel, last[sub][i].id)
(* The loops' channels, and where in the loops a step of dispatch is.      *)
LEMMA LoopChannels ==
    ASSUME NEW s \in Sub
    PROVE  /\ subscriptions[s].channels \in Seq(Channel)
           /\ Len(subscriptions[s].channels) \in Nat
           /\ \A i \in 1..Len(subscriptions[s].channels) :
                  subscriptions[s].channels[i] \in Channel
           /\ subscriptions[s].kind \in {"dds", "cdr", "protobuf"}
  <1>1. subscriptions[s] \in Registration
    BY SubscriptionsAssumption DEF Sub
  <1>. QED
    BY <1>1 DEF Registration

LEMMA LoopAt ==
    ASSUME TypeOK, DispatchId
    PROVE  /\ sub \in Sub
           /\ chan \in 1..Len(subscriptions[sub].channels)
           /\ subscriptions[sub].channels[chan] \in Channel
           /\ pos \in 1..Len(active_ids[subscriptions[sub].channels[chan]])
           /\ active_ids[subscriptions[sub].channels[chan]][pos] \in EcatId
  <1>1. sub \in Sub /\ chan \in Nat \ {0} /\ pos \in Nat \ {0}
    BY DEF TypeOK, DispatchId
  <1>6. /\ chan <= Len(subscriptions[sub].channels)
        /\ pos <= Len(active_ids[subscriptions[sub].channels[chan]])
    BY DEF DispatchId
  <1>2. chan \in 1..Len(subscriptions[sub].channels)
    <2>1. Len(subscriptions[sub].channels) \in Nat
      BY <1>1, LoopChannels
    <2>. QED
      BY <1>1, <1>6, <2>1
  <1>3. subscriptions[sub].channels[chan] \in Channel
    BY <1>1, <1>2, LoopChannels
  <1>4. active_ids[subscriptions[sub].channels[chan]] \in Seq(EcatId)
    BY <1>3 DEF TypeOK
  <1>5. pos \in 1..Len(active_ids[subscriptions[sub].channels[chan]])
    BY <1>1, <1>4, <1>6
  <1>. QED
    BY <1>1, <1>2, <1>3, <1>4, <1>5

(* Listing one more ID leaves the others where they are.                   *)
LEMMA ActiveGrows ==
    ASSUME TypeOK, ActiveIdsExact, DrainOne,
           NEW d \in Channel, NEW id \in EcatId,
           \E j \in 1..Len(active_ids[d]) : active_ids[d][j] = id
    PROVE  \A j \in Nat : j \in 1..Len(active_ids'[d]) /\ active_ids'[d][j] = id
                              <=> j \in 1..Len(active_ids[d]) /\ active_ids[d][j] = id
  <1> DEFINE c == CHANNELS_ARRAY[chan]
             pdo == queue[c][1]
  <1>1. /\ c \in Channel
        /\ Accepted(pdo) => pdo.id \in EcatId
        /\ active_ids'[d] = IF d = c /\ Accepted(pdo) /\ ~entries[c][pdo.id].valid
                            THEN Append(active_ids[c], pdo.id)
                            ELSE active_ids[d]
    BY DrainedCache
  <1> HIDE DEF c, pdo
  <1>2. CASE active_ids'[d] = active_ids[d]
    BY <1>2
  <1>3. CASE /\ d = c /\ Accepted(pdo) /\ ~entries[c][pdo.id].valid
             /\ active_ids'[d] = Append(active_ids[d], pdo.id)
    <2>1. active_ids[d] \in Seq(EcatId) /\ pdo.id \in EcatId
      BY <1>1, <1>3 DEF TypeOK
    <2>2. pdo.id # id
      BY <1>1, <1>3 DEF ActiveIdsExact
    <2>3. PICK n \in Nat : n = Len(active_ids[d])
      BY <2>1
    <2>4. /\ Len(active_ids'[d]) = n + 1
          /\ \A j \in 1..n : active_ids'[d][j] = active_ids[d][j]
          /\ active_ids'[d][n + 1] = pdo.id
      BY <1>3, <2>1, <2>3
    <2>5. \A j \in Nat : j \in 1..(n + 1) <=> j \in 1..n \/ j = n + 1
      OBVIOUS
    <2>. QED
      BY <2>2, <2>3, <2>4, <2>5
  <1>. QED
    BY <1>1, <1>2, <1>3

LEMMA PassedStays ==
    ASSUME TypeOK, ActiveIdsExact, DrainOne, NEW s \in Sub, NEW e \in Sample, Heard(s, e)
    PROVE  /\ Heard(s, e)'
           /\ \A k, p \in Nat :
                  Passed(s, k, p, e.channel, e.id)' <=> Passed(s, k, p, e.channel, e.id)
  <1>1. PICK d \in Channel, id \in EcatId : d = e.channel /\ id = e.id
    BY DEF Sample
  <1>2. \A j \in Nat : j \in 1..Len(active_ids'[d]) /\ active_ids'[d][j] = id
                           <=> j \in 1..Len(active_ids[d]) /\ active_ids[d][j] = id
    BY <1>1, ActiveGrows DEF Heard
  <1>3. PICK n \in Nat, m \in Nat : n = Len(active_ids[d]) /\ m = Len(active_ids'[d])
    <2>1. active_ids[d] \in Seq(EcatId) /\ active_ids'[d] \in Seq(EcatId)
      BY DrainTypeOK DEF TypeOK
    <2>. QED
      BY <2>1
  <1>4. \A j \in Nat : j \in 1..m /\ active_ids'[d][j] = id <=> j \in 1..n /\ active_ids[d][j] = id
    BY <1>2, <1>3
  <1>5. Heard(s, e)'
    BY <1>1, <1>3, <1>4 DEF Heard
  <1>6. ASSUME NEW k \in Nat, NEW p \in Nat
        PROVE  Passed(s, k, p, d, id)' <=> Passed(s, k, p, d, id)
    BY <1>3, <1>4 DEF Passed
  <1>. QED
    BY <1>1, <1>5, <1>6
(* One iteration passes one slave, and the end of a list passes none.      *)
LEMMA PassedNext ==
    ASSUME TypeOK, DispatchId, NEW d, NEW any
    PROVE  LET c == subscriptions[sub].channels[chan]
           IN  Passed(sub, chan, pos + 1, d, any)
                   <=> Passed(sub, chan, pos, d, any) \/ (d = c /\ any = active_ids[c][pos])
  <1>1. /\ chan \in 1..Len(subscriptions[sub].channels)
        /\ pos \in 1..Len(active_ids[subscriptions[sub].channels[chan]])
        /\ chan \in Nat /\ pos \in Nat
    BY LoopAt DEF TypeOK
  <1>2. \A j \in Nat : j < pos + 1 <=> j < pos \/ j = pos
    BY <1>1
  <1>. QED
    BY <1>1, <1>2 DEF Passed

LEMMA PassedChannel ==
    ASSUME TypeOK, DispatchNextChannel, NEW d, NEW any
    PROVE  Passed(sub, chan + 1, 1, d, any) <=> Passed(sub, chan, pos, d, any)
  <1>1. chan \in Nat /\ pos \in Nat /\ sub \in Sub
    BY DEF TypeOK, DispatchNextChannel
  <1>2. pos > Len(active_ids[subscriptions[sub].channels[chan]])
        /\ chan <= Len(subscriptions[sub].channels)
    BY DEF DispatchNextChannel
  <1>3. chan \in 1..Len(subscriptions[sub].channels)
    <2>1. Len(subscriptions[sub].channels) \in Nat
      BY <1>1, LoopChannels
    <2>. QED
      BY <1>1, <1>2, <2>1 DEF TypeOK
  <1>4. active_ids[subscriptions[sub].channels[chan]] \in Seq(EcatId)
    <2>1. subscriptions[sub].channels[chan] \in Channel
      BY <1>1, <1>3, LoopChannels
    <2>. QED
      BY <2>1 DEF TypeOK
  <1>5. \A j \in 1..Len(active_ids[subscriptions[sub].channels[chan]]) : j < pos
    BY <1>1, <1>2, <1>4
  <1>6. /\ \A i \in Nat : i < chan + 1 <=> i < chan \/ i = chan
        /\ \A j \in Nat : j >= 1 => ~(j < 1)
    BY <1>1
  <1>. QED
    BY <1>1, <1>5, <1>6 DEF Passed

(* At the head of the loops nothing is passed.                             *)
LEMMA PassedNone ==
    ASSUME NEW s, NEW d, NEW any
    PROVE  ~Passed(s, 1, 1, d, any)
  BY DEF Passed

(* What a step of the loops does not touch.                                *)
LEMMA DispatchFrame ==
    ASSUME DispatchId \/ DispatchNextChannel
    PROVE  /\ pc = "dispatch" /\ pc' = "dispatch" /\ sub' = sub
           /\ active_ids' = active_ids /\ entries' = entries /\ last' = last
           /\ DispatchNextChannel =>
                  /\ chan' = chan + 1 /\ pos' = 1
                  /\ ids_seen' = ids_seen /\ message' = message
           /\ DispatchId => chan' = chan /\ pos' = pos + 1
  BY DEF DispatchId, DispatchNextChannel, cache, history, publisher

(* How far a step of the loops takes them.                                 *)
LEMMA PassedMoves ==
    ASSUME TypeOK, NEW d, NEW any
    PROVE  /\ DispatchNextChannel =>
                  (Passed(sub, chan, pos, d, any)' <=> Passed(sub, chan, pos, d, any))
           /\ DispatchId =>
                  (Passed(sub, chan, pos, d, any)' <=>
                       \/ Passed(sub, chan, pos, d, any)
                       \/ /\ d = subscriptions[sub].channels[chan]
                          /\ any = active_ids[subscriptions[sub].channels[chan]][pos])
  <1>1. ASSUME DispatchNextChannel
        PROVE  Passed(sub, chan, pos, d, any)' <=> Passed(sub, chan, pos, d, any)
    <2>1. Passed(sub, chan, pos, d, any)' <=> Passed(sub, chan + 1, 1, d, any)
      BY <1>1, DispatchFrame DEF Passed
    <2>. QED
      BY <1>1, <2>1, PassedChannel
  <1>2. ASSUME DispatchId
        PROVE  Passed(sub, chan, pos, d, any)' <=>
                   \/ Passed(sub, chan, pos, d, any)
                   \/ /\ d = subscriptions[sub].channels[chan]
                      /\ any = active_ids[subscriptions[sub].channels[chan]][pos]
    <2>1. Passed(sub, chan, pos, d, any)' <=> Passed(sub, chan, pos + 1, d, any)
      BY <1>2, DispatchFrame DEF Passed
    <2>. QED
      BY <1>2, <2>1, PassedNext
  <1>. QED
    BY <1>1, <1>2

(* The steps that start a message, and those that leave it alone.          *)
LEMMA MessageSteps ==
    ASSUME [Next]_vars, ~DispatchId, ~DispatchNextChannel
    PROVE  \/ pc' # "dispatch"
           \/ chan' = 1 /\ pos' = 1 /\ ids_seen' = {} /\ message' = <<>>
           \/ UNCHANGED <<pc, sub, chan, pos, ids_seen, message, active_ids, entries, last>>
  BY DEF Next, vars, shm, cache, cursor, publisher, history, MasterPush, OtherDrains,
         SpinOnce, ClearUpdated, DrainOne, DrainDone, EndCycle, BeginCycle

LEMMA SeenUpdatedStep ==
    ASSUME TypeOK, SeenUpdated, [Next]_vars
    PROVE  SeenUpdated'
  <1>1. CASE DispatchNextChannel
    <2>1. /\ pc = "dispatch" /\ sub' = sub /\ active_ids' = active_ids /\ entries' = entries
          /\ chan' = chan + 1 /\ pos' = 1 /\ ids_seen' = ids_seen
      BY <1>1, DispatchFrame
    <2>2. \A d \in Channel, id \in EcatId :
              Passed(sub, chan, pos, d, id)' <=> Passed(sub, chan, pos, d, id)
      BY <1>1, PassedMoves
    <2>. QED
      BY <2>1, <2>2 DEF SeenUpdated, accept_all_ids, ids_allowed
  <1>2. CASE DispatchId
    <2> DEFINE c == subscriptions[sub].channels[chan]
               id == active_ids[c][pos]
               wanted == /\ entries[c][id].updated
                         /\ accept_all_ids(sub) \/ id \in ids_allowed(sub)
                         /\ id \notin ids_seen
    <2>1. /\ pc = "dispatch" /\ sub' = sub /\ active_ids' = active_ids /\ entries' = entries
          /\ chan' = chan /\ pos' = pos + 1
          /\ ids_seen' = IF wanted THEN ids_seen \cup {id} ELSE ids_seen
      BY <1>2, DispatchFrame DEF DispatchId
    <2>2. \A d \in Channel, any \in EcatId :
              Passed(sub, chan, pos, d, any)'
                  <=> Passed(sub, chan, pos, d, any) \/ (d = c /\ any = id)
      BY <1>2, PassedMoves
    <2>3. chan \in 1..Len(subscriptions[sub].channels)
      BY <1>2, LoopAt
    <2>4. wanted => entries[subscriptions[sub].channels[chan]][id].updated
      OBVIOUS
    <2>5. ~wanted => \/ ~entries[c][id].updated
                     \/ ~(accept_all_ids(sub) \/ id \in ids_allowed(sub))
                     \/ id \in ids_seen
      OBVIOUS
    <2> HIDE DEF c, id, wanted
    <2>6. ASSUME NEW d \in Channel, NEW any \in EcatId, Passed(sub, chan, pos, d, any)',
                 entries[d][any].updated, accept_all_ids(sub) \/ any \in ids_allowed(sub)
          PROVE  any \in ids_seen'
      BY <2>1, <2>2, <2>5, <2>6 DEF SeenUpdated
    <2>7. ASSUME NEW any \in ids_seen'
          PROVE  \E i \in 1..Len(subscriptions[sub].channels) :
                     entries[subscriptions[sub].channels[i]][any].updated
      BY <2>1, <2>3, <2>4, <2>7 DEF SeenUpdated
    <2>. QED
      BY <2>1, <2>6, <2>7 DEF SeenUpdated, accept_all_ids, ids_allowed
  <1>3. CASE chan' = 1 /\ pos' = 1 /\ ids_seen' = {}
    <2>1. \A d \in Channel, any \in EcatId : ~Passed(sub, chan, pos, d, any)'
      BY <1>3, PassedNone DEF Passed
    <2>. QED
      BY <1>3, <2>1 DEF SeenUpdated
  <1>4. CASE UNCHANGED <<pc, sub, chan, pos, ids_seen, active_ids, entries>>
    BY <1>4 DEF SeenUpdated, Passed, accept_all_ids, ids_allowed
  <1>5. CASE pc' # "dispatch"
    BY <1>5 DEF SeenUpdated
  <1>. QED
    BY <1>1, <1>2, <1>3, <1>4, <1>5, MessageSteps

(* The loops come to what they have not passed after what they have.       *)
LEMMA PassedLater ==
    ASSUME NEW s \in Sub, NEW d \in Channel, NEW a, NEW e \in Channel, NEW b,
           NEW k \in Nat, NEW p \in Nat, NEW k2 \in Nat, NEW p2 \in Nat, TypeOK,
           Passed(s, k, p, d, a), ~Passed(s, k, p, e, b), Passed(s, k2, p2, e, b)
    PROVE  Passed(s, k2, p2, d, a)
  <1>1. PICK L \in Nat, M \in Nat, N \in Nat :
             L = Len(subscriptions[s].channels) /\ M = Len(active_ids[d]) /\ N = Len(active_ids[e])
    <2>1. active_ids[d] \in Seq(EcatId) /\ active_ids[e] \in Seq(EcatId)
      BY DEF TypeOK
    <2>. QED
      BY <2>1, LoopChannels
  <1>2. PICK i \in 1..L, j \in 1..M : /\ subscriptions[s].channels[i] = d
                                      /\ active_ids[d][j] = a
                                      /\ i < k \/ (i = k /\ j < p)
    BY <1>1 DEF Passed
  <1>3. PICK x \in 1..L, y \in 1..N : /\ subscriptions[s].channels[x] = e
                                      /\ active_ids[e][y] = b
                                      /\ x < k2 \/ (x = k2 /\ y < p2)
    BY <1>1 DEF Passed
  <1>4. ~(x < k \/ (x = k /\ y < p))
    BY <1>1, <1>3 DEF Passed
  <1>5. i < k2 \/ (i = k2 /\ j < p2)
    BY <1>2, <1>3, <1>4
  <1>. QED
    BY <1>1, <1>2, <1>5 DEF Passed

LEMMA PrecedesStays ==
    ASSUME active_ids' = active_ids, NEW s, NEW e, NEW f
    PROVE  Precedes(s, e, f)' <=> Precedes(s, e, f)
  BY DEF Precedes, Passed

LEMMA MessageSortedStep ==
    ASSUME TypeOK, SeenUpdated, MessageSorted, [Next]_vars
    PROVE  MessageSorted'
  <1>0. message \in Seq(Sample)
    BY DEF TypeOK
  <1>1. ASSUME DispatchId \/ DispatchNextChannel, message' = message
        PROVE  MessageSorted'
    <2>1. pc = "dispatch" /\ sub' = sub /\ active_ids' = active_ids
      BY <1>1, DispatchFrame
    <2>2. PICK s \in Sub : s = sub
      BY <2>1 DEF TypeOK
    <2>3. \A i, j \in 1..Len(message) : i < j => Precedes(s, message[i], message[j])
      BY <2>1, <2>2 DEF MessageSorted
    <2>4. ASSUME NEW i \in 1..Len(message)
          PROVE  Passed(sub, chan, pos, message[i].channel, message[i].id)'
      <3>1. PICK e \in Sample : e = message[i]
        BY <1>0
      <3>2. Passed(sub, chan, pos, e.channel, e.id)
        BY <2>1, <3>1 DEF MessageSorted
      <3>3. Passed(sub, chan, pos, e.channel, e.id)'
        BY <1>1, <3>2, PassedMoves
      <3>4. message'[i] = e
        BY <1>1, <3>1
      <3>. QED
        BY <3>3, <3>4
    <2>5. ASSUME NEW i \in 1..Len(message), NEW j \in 1..Len(message), i < j
          PROVE  Precedes(sub, message[i], message[j])'
      <3>1. PICK e \in Sample, f \in Sample : e = message[i] /\ f = message[j]
        BY <1>0
      <3>2. Precedes(s, e, f)'
        BY <2>1, <2>3, <2>5, <3>1, PrecedesStays
      <3>3. message'[i] = e /\ message'[j] = f /\ sub' = s
        BY <1>1, <2>1, <2>2, <3>1
      <3>. QED
        BY <3>2, <3>3
    <2>. QED
      BY <1>1, <2>4, <2>5 DEF MessageSorted
  <1>2. CASE DispatchId /\ message' # message
    <2> DEFINE c == subscriptions[sub].channels[chan]
               id == active_ids[c][pos]
               sample == [channel |-> c, id |-> id, type |-> entries[c][id].type,
                          stamp |-> entries[c][id].stamp]
    <2>1. /\ pc = "dispatch" /\ sub' = sub /\ active_ids' = active_ids
          /\ chan \in Nat /\ pos \in Nat
      BY <1>2, DispatchFrame DEF TypeOK
    <2>2. PICK s \in Sub : s = sub
      BY <2>1 DEF TypeOK
    <2>3. /\ message' = Append(message, sample)
          /\ entries[c][id].updated /\ id \notin ids_seen
          /\ accept_all_ids(sub) \/ id \in ids_allowed(sub)
      BY <1>2 DEF DispatchId
    <2>4. c \in Channel /\ id \in EcatId
      BY <1>2, LoopAt
    <2>5. ~Passed(sub, chan, pos, c, id)
      BY <2>1, <2>3, <2>4 DEF SeenUpdated
    <2>6. PICK f : f = sample
      OBVIOUS
    <2>7. PICK fc \in Channel, fid \in EcatId : fc = c /\ fid = id
      BY <2>4
    <2>8. f.channel = fc /\ f.id = fid
      BY <2>6, <2>7
    <2>9. message' = Append(message, f) /\ ~Passed(sub, chan, pos, fc, fid)
      BY <2>3, <2>5, <2>6, <2>7
    <2>10. Passed(sub, chan, pos, fc, fid)'
      BY <1>2, <2>7, PassedMoves
    <2> HIDE DEF c, id, sample
    <2>11. PICK n \in Nat : n = Len(message)
      BY <1>0
    <2>12. /\ Len(message') = n + 1
           /\ \A i \in 1..n : message'[i] = message[i]
           /\ message'[n + 1] = f
      BY <1>0, <2>9, <2>11
    <2>13. \A i \in 1..(n + 1) : i \in 1..n \/ i = n + 1
      BY <2>11
    <2>14. ASSUME NEW i \in 1..n
           PROVE  /\ message[i] \in Sample
                  /\ Passed(sub, chan, pos, message[i].channel, message[i].id)
      BY <1>0, <2>1, <2>11 DEF MessageSorted
    <2>15. ASSUME NEW i \in 1..(n + 1)
           PROVE  Passed(sub, chan, pos, message[i].channel, message[i].id)'
      <3>1. CASE i = n + 1
        BY <2>8, <2>10, <2>12, <3>1
      <3>2. CASE i \in 1..n
        <4>1. PICK e \in Sample : e = message[i]
          BY <2>14, <3>2
        <4>2. Passed(sub, chan, pos, e.channel, e.id)'
          BY <1>2, <2>14, <3>2, <4>1, PassedMoves
        <4>. QED
          BY <2>12, <3>2, <4>1, <4>2
      <3>. QED
        BY <2>13, <3>1, <3>2
    <2>16. ASSUME NEW i \in 1..(n + 1), NEW j \in 1..(n + 1), i < j
           PROVE  Precedes(sub, message[i], message[j])'
      <3>1. i \in 1..n
        BY <2>11, <2>16
      <3>2. PICK e \in Sample : e = message[i]
        BY <2>14, <3>1
      <3>3. message'[i] = e
        BY <2>12, <3>1, <3>2
      <3>4. CASE j = n + 1
        <4>1. e.channel \in Channel
          BY DEF Sample
        <4>2. Passed(sub, chan, pos, e.channel, e.id)
          BY <2>14, <3>1, <3>2
        <4>3. ASSUME NEW k \in Nat, NEW p \in Nat, Passed(s, k, p, fc, fid)
              PROVE  Passed(s, k, p, e.channel, e.id)
          BY <2>1, <2>2, <2>9, <4>1, <4>2, <4>3, PassedLater
        <4>4. Precedes(s, e, f)
          BY <2>8, <4>3 DEF Precedes
        <4>5. Precedes(s, e, f)'
          BY <2>1, <4>4, PrecedesStays
        <4>. QED
          BY <2>1, <2>2, <2>12, <3>3, <3>4, <4>5
      <3>5. CASE j \in 1..n
        <4>1. PICK g \in Sample : g = message[j]
          BY <2>14, <3>5
        <4>2. Precedes(s, e, g)
          BY <2>1, <2>2, <2>11, <2>16, <3>1, <3>2, <3>5, <4>1 DEF MessageSorted
        <4>3. Precedes(s, e, g)'
          BY <2>1, <4>2, PrecedesStays
        <4>4. message'[j] = g
          BY <2>12, <3>5, <4>1
        <4>. QED
          BY <2>1, <2>2, <3>3, <4>3, <4>4
      <3>. QED
        BY <2>13, <3>4, <3>5
    <2>. QED
      BY <2>12, <2>15, <2>16 DEF MessageSorted
  <1>3. CASE message' = <<>>
    BY <1>3 DEF MessageSorted
  <1>4. CASE UNCHANGED <<pc, sub, chan, pos, message, active_ids>>
    <2>1. ASSUME NEW e, NEW f
          PROVE  /\ Passed(sub, chan, pos, e, f)' <=> Passed(sub, chan, pos, e, f)
                 /\ Precedes(sub, e, f)' <=> Precedes(sub, e, f)
      BY <1>4 DEF Passed, Precedes
    <2>2. ASSUME pc = "dispatch", NEW i \in 1..Len(message)
          PROVE  Passed(sub, chan, pos, message[i].channel, message[i].id)'
      <3>1. PICK e \in Sample : e = message[i]
        BY <1>0
      <3>2. Passed(sub, chan, pos, e.channel, e.id)'
        BY <2>1, <2>2, <3>1 DEF MessageSorted
      <3>. QED
        BY <1>4, <3>1, <3>2
    <2>3. ASSUME pc = "dispatch", NEW i \in 1..Len(message), NEW j \in 1..Len(message), i < j
          PROVE  Precedes(sub, message[i], message[j])'
      <3>1. PICK e \in Sample, f \in Sample : e = message[i] /\ f = message[j]
        BY <1>0
      <3>2. Precedes(sub, e, f)'
        BY <2>1, <2>3, <3>1 DEF MessageSorted
      <3>. QED
        BY <1>4, <3>1, <3>2
    <2>. QED
      BY <1>4, <2>2, <2>3 DEF MessageSorted
  <1>5. CASE pc' # "dispatch"
    BY <1>5 DEF MessageSorted
  <1>. QED
    BY <1>1, <1>2, <1>3, <1>4, <1>5, MessageSteps, DispatchFrame

(* end_cycle is the only step that writes, and a publisher that writes all *)
(* or nothing then writes the message of a complete cycle.                 *)
LEMMA WritesWhole ==
    ASSUME TypeOK, [Next]_vars, NEW s \in Sub, subscriptions[s].kind # "protobuf",
           last'[s] # last[s]
    PROVE  /\ EndCycle /\ s = sub /\ pc = "dispatch" /\ valid
           /\ active_ids' = active_ids
           /\ DOMAIN last'[s] = 1..Len(message)
           /\ \A i \in 1..Len(message) : last'[s][i] = message[i]
  <1>1. EndCycle
    BY DEF Next, vars, history, MasterPush, OtherDrains, SpinOnce, ClearUpdated,
           DrainOne, DrainDone, DispatchId, DispatchNextChannel
  <1>2. sub \in Sub /\ pc = "dispatch" /\ active_ids' = active_ids
    BY <1>1 DEF TypeOK, EndCycle, cache
  <1>3. PICK written \in Outcomes :
            /\ written # {}
            /\ last' = [last EXCEPT ![sub] = [i \in written |-> message[i]]]
    BY <1>1 DEF EndCycle, history
  <1>4. s = sub /\ last'[s] = [i \in written |-> message[i]]
    BY <1>2, <1>3 DEF TypeOK, HistoryTypeOK
  <1>5. ~(~valid \/ message = <<>>)
    BY <1>3 DEF Outcomes
  <1>6. written = 1..Len(message)
    <2>1. CASE subscriptions[sub].kind = "dds"
      BY <1>3, <1>5, <2>1 DEF Outcomes
    <2>2. CASE subscriptions[sub].kind = "cdr"
      BY <1>3, <1>5, <2>2 DEF Outcomes
    <2>. QED
      BY <1>2, <1>4, <2>1, <2>2, LoopChannels
  <1>. QED
    BY <1>1, <1>2, <1>4, <1>5, <1>6

LEMMA BatchSortedStep ==
    ASSUME TypeOK, ActiveIdsExact, MessageSorted, BatchSorted, [Next]_vars
    PROVE  BatchSorted'
  <1> SUFFICES ASSUME NEW s \in Sub, Indexed(s), last'[s] # <<>>
               PROVE  /\ \E n \in Nat : DOMAIN last'[s] = 1..n
                      /\ \A i \in DOMAIN last'[s] : Heard(s, last[s][i])'
                      /\ \A i, j \in DOMAIN last'[s] :
                             i < j => Precedes(s, last[s][i], last[s][j])'
    BY DEF BatchSorted, Indexed, accept_all_ids, ConvertsAll, OneChannelPerId, Feeds, ids_allowed
  <1>1. ASSUME last'[s] = last[s],
               \A e \in Sample : Heard(s, e) =>
                   /\ Heard(s, e)'
                   /\ \A k, p \in Nat :
                          Passed(s, k, p, e.channel, e.id)' <=> Passed(s, k, p, e.channel, e.id)
        PROVE  /\ \E n \in Nat : DOMAIN last'[s] = 1..n
               /\ \A i \in DOMAIN last'[s] : Heard(s, last[s][i])'
               /\ \A i, j \in DOMAIN last'[s] :
                      i < j => Precedes(s, last[s][i], last[s][j])'
    <2>1. /\ \E n \in Nat : DOMAIN last[s] = 1..n
          /\ \A i \in DOMAIN last[s] : last[s][i] \in Sample /\ Heard(s, last[s][i])
          /\ \A i, j \in DOMAIN last[s] : i < j => Precedes(s, last[s][i], last[s][j])
      BY <1>1 DEF BatchSorted, TypeOK, HistoryTypeOK
    <2>2. ASSUME NEW i \in DOMAIN last[s]
          PROVE  Heard(s, last[s][i])'
      <3>1. PICK e \in Sample : e = last[s][i] /\ Heard(s, e)
        BY <2>1
      <3>2. Heard(s, e)'
        BY <1>1, <3>1
      <3>. QED
        BY <1>1, <3>1, <3>2
    <2>3. ASSUME NEW i \in DOMAIN last[s], NEW j \in DOMAIN last[s], i < j
          PROVE  Precedes(s, last[s][i], last[s][j])'
      <3>1. PICK e \in Sample, f \in Sample :
                e = last[s][i] /\ Heard(s, e) /\ f = last[s][j] /\ Heard(s, f)
        BY <2>1
      <3>2. Precedes(s, e, f)
        BY <2>1, <2>3, <3>1
      <3>3. Precedes(s, e, f)'
        BY <1>1, <3>1, <3>2 DEF Precedes
      <3>. QED
        BY <1>1, <3>1, <3>3
    <2>. QED
      BY <1>1, <2>1, <2>2, <2>3
  <1>2. CASE active_ids' = active_ids /\ last'[s] = last[s]
    <2>1. ASSUME NEW e \in Sample, Heard(s, e)
          PROVE  /\ Heard(s, e)'
                 /\ \A k, p \in Nat :
                        Passed(s, k, p, e.channel, e.id)' <=> Passed(s, k, p, e.channel, e.id)
      BY <1>2, <2>1 DEF Heard, Passed
    <2>. QED
      BY <1>1, <1>2, <2>1
  <1>3. CASE DrainOne
    <2>1. last'[s] = last[s]
      BY <1>3 DEF DrainOne, history
    <2>. QED
      BY <1>1, <1>3, <2>1, PassedStays
  <1>4. CASE last'[s] # last[s]
    <2>1. /\ s = sub /\ pc = "dispatch" /\ active_ids' = active_ids
          /\ DOMAIN last'[s] = 1..Len(message)
          /\ \A i \in 1..Len(message) : last'[s][i] = message[i]
      BY <1>4, WritesWhole DEF Indexed
    <2>2. message \in Seq(Sample)
      BY DEF TypeOK
    <2>3. /\ \A i \in 1..Len(message) :
                 Passed(s, chan, pos, message[i].channel, message[i].id)
          /\ \A i, j \in 1..Len(message) : i < j => Precedes(s, message[i], message[j])
      BY <2>1 DEF MessageSorted
    <2>4. ASSUME NEW i \in 1..Len(message)
          PROVE  Heard(s, last[s][i])'
      <3>1. PICK e \in Sample : e = message[i]
        BY <2>2
      <3>2. Heard(s, e)'
        BY <2>1, <2>3, <3>1 DEF Passed, Heard
      <3>. QED
        BY <2>1, <3>1, <3>2
    <2>5. ASSUME NEW i \in 1..Len(message), NEW j \in 1..Len(message), i < j
          PROVE  Precedes(s, last[s][i], last[s][j])'
      <3>1. PICK e \in Sample, f \in Sample : e = message[i] /\ f = message[j]
        BY <2>2
      <3>2. Precedes(s, e, f)'
        BY <2>1, <2>3, <2>5, <3>1, PrecedesStays
      <3>. QED
        BY <2>1, <3>1, <3>2
    <2>. QED
      BY <2>1, <2>2, <2>4, <2>5
  <1>5. CASE active_ids' # active_ids
    <2>1. DrainOne
      BY <1>5 DEF Next, vars, cache, MasterPush, OtherDrains, SpinOnce, ClearUpdated,
                  DrainDone, DispatchId, DispatchNextChannel, EndCycle
    <2>. QED
      BY <1>3, <2>1
  <1>. QED
    BY <1>2, <1>4, <1>5

(* A valid entry came from a source, so a slave that is heard on one       *)
(* channel only has entries on one channel only.                           *)
LEMMA OneChannel ==
    ASSUME TypeOK, CacheFromSources, NEW s \in Sub, OneChannelPerId(s), NEW id \in ids_allowed(s),
           NEW i \in 1..Len(subscriptions[s].channels),
           NEW j \in 1..Len(subscriptions[s].channels),
           entries[subscriptions[s].channels[i]][id].valid,
           entries[subscriptions[s].channels[j]][id].valid
    PROVE  subscriptions[s].channels[i] = subscriptions[s].channels[j]
  <1>1. /\ id \in EcatId
        /\ subscriptions[s].channels[i] \in Channel
        /\ subscriptions[s].channels[j] \in Channel
    BY LoopChannels DEF ids_allowed
  <1>2. PICK a \in Sources : /\ a.channel = subscriptions[s].channels[i]
                             /\ a.has_index /\ a.id = id
    BY <1>1 DEF CacheFromSources
  <1>3. PICK b \in Sources : /\ b.channel = subscriptions[s].channels[j]
                             /\ b.has_index /\ b.id = id
    BY <1>1 DEF CacheFromSources
  <1>4. Feeds(a, s) /\ Feeds(b, s)
    BY <1>2, <1>3 DEF Feeds
  <1>. QED
    BY <1>2, <1>3, <1>4 DEF OneChannelPerId

(* What the last batch of such a publisher looks like.                     *)
LEMMA LastBatch ==
    ASSUME TypeOK, ActiveIdsExact, CompleteSnapshot, BatchSorted,
           NEW s \in Sub, Indexed(s), last[s] # <<>>
    PROVE  \E n \in Nat :
               /\ DOMAIN last[s] = 1..n
               /\ \A i \in 1..n :
                      /\ last[s][i] \in Sample
                      /\ last[s][i].id \in ids_allowed(s)
                      /\ \E k \in 1..Len(subscriptions[s].channels) :
                             /\ subscriptions[s].channels[k] = last[s][i].channel
                             /\ entries[subscriptions[s].channels[k]][last[s][i].id].valid
               /\ \A i, j \in 1..n : last[s][i].id = last[s][j].id => i = j
               /\ \A i, j \in 1..n : i < j => Precedes(s, last[s][i], last[s][j])
               /\ \A id \in ids_allowed(s) : \E i \in 1..n : last[s][i].id = id
  <1>1. /\ {e.id : e \in Batch(s)} = ids_allowed(s)
        /\ \A i, j \in DOMAIN last[s] : last[s][i].id = last[s][j].id => i = j
    BY DEF CompleteSnapshot, Indexed
  <1>2. PICK n \in Nat : DOMAIN last[s] = 1..n
    BY DEF BatchSorted
  <1>3. /\ \A i \in 1..n : Heard(s, last[s][i])
        /\ \A i, j \in 1..n : i < j => Precedes(s, last[s][i], last[s][j])
    BY <1>2 DEF BatchSorted
  <1>4. ASSUME NEW i \in 1..n
        PROVE  /\ last[s][i] \in Sample
               /\ last[s][i].id \in ids_allowed(s)
               /\ \E k \in 1..Len(subscriptions[s].channels) :
                      /\ subscriptions[s].channels[k] = last[s][i].channel
                      /\ entries[subscriptions[s].channels[k]][last[s][i].id].valid
    <2>1. last[s][i] \in Sample
      BY <1>2 DEF TypeOK, HistoryTypeOK
    <2>2. last[s][i].id \in ids_allowed(s)
      BY <1>1, <1>2 DEF Batch
    <2>3. PICK d \in Channel, id \in EcatId : d = last[s][i].channel /\ id = last[s][i].id
      BY <2>1 DEF Sample
    <2>4. entries[d][id].valid
      BY <1>3, <2>3 DEF Heard, ActiveIdsExact
    <2>. QED
      BY <1>3, <2>1, <2>2, <2>3, <2>4 DEF Heard
  <1>5. \A id \in ids_allowed(s) : \E i \in 1..n : last[s][i].id = id
    BY <1>1, <1>2 DEF Batch
  <1>. QED
    BY <1>1, <1>2, <1>3, <1>4, <1>5

(* One iteration in a cycle that can be complete: the next slave that goes *)
(* into the message is the next one of the last batch.                     *)
LEMMA AlignedId ==
    ASSUME TypeOK, ActiveIdsExact, CacheFromSources, MessageOfSeen, CompleteSnapshot,
           BatchSorted, Aligned, DispatchId
    PROVE  Aligned'
  <1> DEFINE c == subscriptions[sub].channels[chan]
             id == active_ids[c][pos]
             entry == entries[c][id]
             wanted == /\ entry.updated
                       /\ accept_all_ids(sub) \/ id \in ids_allowed(sub)
                       /\ id \notin ids_seen
             sample == [channel |-> c, id |-> id, type |-> entry.type, stamp |-> entry.stamp]
  <1>1. /\ pc = "dispatch" /\ sub' = sub /\ active_ids' = active_ids
        /\ entries' = entries /\ last' = last
    BY DispatchFrame
  <1>2. PICK s \in Sub : s = sub
    BY <1>1 DEF TypeOK
  <1> SUFFICES ASSUME Indexed(s), last[s] # <<>>, Fresh(s)
               PROVE  /\ \A i \in 1..Len(message') :
                             i \in DOMAIN last[s] /\ message'[i].id = last[s][i].id
                      /\ \A i \in DOMAIN last[s] : i > Len(message') =>
                             ~Passed(sub, chan, pos, last[s][i].channel, last[s][i].id)'
    <2>1. Indexed(sub)' => Indexed(s)
      BY <1>1, <1>2 DEF Indexed, accept_all_ids, ConvertsAll, OneChannelPerId, Feeds, ids_allowed
    <2>2. Fresh(sub)' => Fresh(s)
      BY <1>1, <1>2 DEF Fresh, ids_allowed
    <2>. QED
      BY <1>1, <1>2, <2>1, <2>2 DEF Aligned
  <1>3. PICK n \in Nat :
             /\ DOMAIN last[s] = 1..n
             /\ \A i \in 1..n :
                    /\ last[s][i] \in Sample
                    /\ last[s][i].id \in ids_allowed(s)
                    /\ \E x \in 1..Len(subscriptions[s].channels) :
                           /\ subscriptions[s].channels[x] = last[s][i].channel
                           /\ entries[subscriptions[s].channels[x]][last[s][i].id].valid
             /\ \A i, j \in 1..n : last[s][i].id = last[s][j].id => i = j
             /\ \A i, j \in 1..n : i < j => Precedes(s, last[s][i], last[s][j])
             /\ \A any \in ids_allowed(s) : \E i \in 1..n : last[s][i].id = any
    BY LastBatch
  <1>4. PICK k \in Nat : k = Len(message)
    <2>1. message \in Seq(Sample)
      BY DEF TypeOK
    <2>. QED
      BY <2>1
  <1>5. /\ \A i \in 1..k : i \in 1..n /\ message[i].id = last[s][i].id
        /\ \A i \in 1..n : i > k =>
               ~Passed(s, chan, pos, last[s][i].channel, last[s][i].id)
    BY <1>1, <1>2, <1>3, <1>4 DEF Aligned
  <1>6. /\ \A i \in 1..k : message[i].id \in ids_seen
        /\ \A any \in ids_seen : \E i \in 1..k : message[i].id = any
    BY <1>1, <1>2, <1>4 DEF MessageOfSeen, Indexed
  <1>7. /\ c \in Channel /\ id \in EcatId
        /\ chan \in 1..Len(subscriptions[s].channels)
        /\ pos \in 1..Len(active_ids[c]) /\ chan \in Nat /\ pos \in Nat
    BY <1>2, LoopAt DEF TypeOK
  <1>8. entry.valid
    BY <1>7 DEF ActiveIdsExact
  <1>9. \A d, any : Passed(sub, chan, pos, d, any)' <=>
                        Passed(s, chan, pos, d, any) \/ (d = c /\ any = id)
    BY <1>2, PassedMoves
  <1>10. \A d, any : Passed(s, chan, pos + 1, d, any) <=>
                         Passed(s, chan, pos, d, any) \/ (d = c /\ any = id)
    BY <1>2, PassedNext
  <1>11. CASE wanted
    <2>1. id \in ids_allowed(s) /\ id \notin ids_seen
      BY <1>2, <1>11 DEF Indexed
    <2>2. message' = Append(message, sample)
      BY <1>2, <1>11, ConvertedIsKept DEF Indexed, DispatchId
    <2>3. PICK m \in 1..n : last[s][m].id = id
      BY <1>3, <2>1
    <2>4. last[s][m].channel = c
      <3>1. PICK x \in 1..Len(subscriptions[s].channels) :
                /\ subscriptions[s].channels[x] = last[s][m].channel
                /\ entries[subscriptions[s].channels[x]][id].valid
        BY <1>3, <2>3
      <3>2. entries[subscriptions[s].channels[chan]][id].valid
        BY <1>2, <1>8
      <3>3. subscriptions[s].channels[x] = subscriptions[s].channels[chan]
        BY <1>7, <2>1, <3>1, <3>2, OneChannel DEF Indexed
      <3>. QED
        BY <1>2, <3>1, <3>3
    <2> HIDE DEF c, id, entry, wanted
    <2>5. m > k
      BY <1>5, <1>6, <2>1, <2>3
    <2>6. m = k + 1
      <3> SUFFICES ASSUME m # k + 1
                   PROVE  FALSE
        OBVIOUS
      <3>1. k + 1 \in 1..n /\ k + 1 < m /\ k + 1 > k
        BY <2>3, <2>5
      <3>2. Precedes(s, last[s][k + 1], last[s][m])
        BY <1>3, <3>1
      <3>3. Passed(s, chan, pos + 1, last[s][m].channel, last[s][m].id)
        BY <1>10, <2>3, <2>4
      <3>4. pos + 1 \in Nat
        BY <1>7
      <3>5. Passed(s, chan, pos + 1, last[s][k + 1].channel, last[s][k + 1].id)
        BY <1>7, <3>2, <3>3, <3>4 DEF Precedes
      <3>6. ~Passed(s, chan, pos, last[s][k + 1].channel, last[s][k + 1].id)
        BY <1>5, <3>1
      <3>7. last[s][k + 1].id = id
        BY <1>10, <3>5, <3>6
      <3>. QED
        BY <1>3, <2>3, <3>1, <3>7
    <2>7. /\ Len(message') = k + 1
          /\ \A i \in 1..k : message'[i] = message[i]
          /\ message'[k + 1].id = id
      <3>1. message \in Seq(Sample)
        BY DEF TypeOK
      <3>2. sample.id = id
        OBVIOUS
      <3> HIDE DEF sample
      <3>3. /\ Len(message') = k + 1
            /\ \A i \in 1..k : message'[i] = message[i]
            /\ message'[k + 1] = sample
        BY <1>4, <2>2, <3>1
      <3>. QED
        BY <3>2, <3>3
    <2>8. ASSUME NEW i \in 1..(k + 1)
          PROVE  i \in 1..n /\ message'[i].id = last[s][i].id
      <3>1. CASE i = k + 1
        BY <2>3, <2>6, <2>7, <3>1
      <3>2. CASE i \in 1..k
        BY <1>5, <2>7, <3>2
      <3>. QED
        BY <3>1, <3>2
    <2>9. ASSUME NEW i \in 1..n, i > k + 1
          PROVE  ~Passed(sub, chan, pos, last[s][i].channel, last[s][i].id)'
      <3>1. PICK e \in Sample : e = last[s][i]
        BY <1>3
      <3>2. i > k
        BY <2>9
      <3>3. ~Passed(s, chan, pos, e.channel, e.id)
        BY <1>5, <3>1, <3>2
      <3>4. e.id # id
        <4>1. i # m
          BY <2>6, <2>9
        <4>. QED
          BY <1>3, <2>3, <3>1, <4>1
      <3>5. ~Passed(sub, chan, pos, e.channel, e.id)'
        BY <1>9, <3>3, <3>4
      <3>. QED
        BY <1>1, <3>1, <3>5
    <2>. QED
      BY <1>1, <1>3, <1>4, <2>7, <2>8, <2>9
  <1>12. CASE ~wanted
    <2>1. message' = message
      BY <1>12 DEF DispatchId
    <2>2. id \in ids_allowed(s) => id \in ids_seen
      <3> SUFFICES ASSUME id \in ids_allowed(s)
                   PROVE  id \in ids_seen
        OBVIOUS
      <3>1. entries[subscriptions[s].channels[chan]][id].valid
        BY <1>2, <1>8
      <3> HIDE DEF id
      <3>2. entries[subscriptions[s].channels[chan]][id].updated
        BY <1>7, <3>1 DEF Fresh
      <3>. QED
        BY <1>2, <1>12, <3>2
    <2> HIDE DEF c, id, entry, wanted, sample
    <2>3. ASSUME NEW i \in 1..n, i > k
          PROVE  ~Passed(sub, chan, pos, last[s][i].channel, last[s][i].id)'
      <3>1. PICK e \in Sample : e = last[s][i]
        BY <1>3
      <3>2. ~Passed(s, chan, pos, e.channel, e.id)
        BY <1>5, <2>3, <3>1
      <3>3. e.id # id
        <4> SUFFICES ASSUME e.id = id
                     PROVE  FALSE
          OBVIOUS
        <4>1. id \in ids_seen
          BY <1>3, <2>2, <3>1
        <4>2. PICK j \in 1..k : message[j].id = id
          BY <1>6, <4>1
        <4>3. j \in 1..n /\ last[s][j].id = last[s][i].id
          BY <1>5, <3>1, <4>2
        <4>4. j = i
          BY <1>3, <4>3
        <4>. QED
          BY <2>3, <4>2, <4>4
      <3>4. ~Passed(sub, chan, pos, e.channel, e.id)'
        BY <1>9, <3>2, <3>3
      <3>. QED
        BY <1>1, <3>1, <3>4
    <2>. QED
      BY <1>1, <1>3, <1>4, <1>5, <2>1, <2>3
  <1>. QED
    BY <1>11, <1>12

LEMMA AlignedStep ==
    ASSUME TypeOK, ActiveIdsExact, CacheFromSources, MessageOfSeen, CompleteSnapshot,
           BatchSorted, Aligned, [Next]_vars
    PROVE  Aligned'
  <1>1. CASE DispatchNextChannel \/ UNCHANGED <<pc, sub, chan, pos, ids_seen, message,
                                                active_ids, entries, last>>
    <2>1. sub' = sub /\ message' = message /\ entries' = entries /\ last' = last
          /\ (pc' = "dispatch" => pc = "dispatch")
      BY <1>1, DispatchFrame
    <2>2. \A d, any : Passed(sub, chan, pos, d, any)' <=> Passed(sub, chan, pos, d, any)
      <3>1. CASE DispatchNextChannel
        BY <3>1, PassedMoves
      <3>2. CASE UNCHANGED <<pc, sub, chan, pos, ids_seen, message, active_ids, entries, last>>
        BY <3>2 DEF Passed
      <3>. QED
        BY <1>1, <3>1, <3>2
    <2>3. Indexed(sub)' => Indexed(sub)
      BY <2>1 DEF Indexed, accept_all_ids, ConvertsAll, OneChannelPerId, Feeds, ids_allowed
    <2>4. Fresh(sub)' => Fresh(sub)
      BY <2>1 DEF Fresh, ids_allowed
    <2> SUFFICES ASSUME pc = "dispatch", Indexed(sub), last[sub] # <<>>, Fresh(sub)
                 PROVE  /\ \A i \in 1..Len(message) :
                               i \in DOMAIN last[sub] /\ message[i].id = last[sub][i].id
                        /\ \A i \in DOMAIN last[sub] : i > Len(message) =>
                               ~Passed(sub, chan, pos, last[sub][i].channel, last[sub][i].id)'
      BY <2>1, <2>3, <2>4 DEF Aligned
    <2>5. ASSUME NEW i \in DOMAIN last[sub], i > Len(message)
          PROVE  ~Passed(sub, chan, pos, last[sub][i].channel, last[sub][i].id)'
      <3>1. ~Passed(sub, chan, pos, last[sub][i].channel, last[sub][i].id)
        BY <2>5 DEF Aligned
      <3>2. PICK d, any : d = last[sub][i].channel /\ any = last[sub][i].id
        OBVIOUS
      <3>3. ~Passed(sub, chan, pos, d, any)'
        BY <2>2, <3>1, <3>2
      <3>. QED
        BY <2>1, <3>2, <3>3
    <2>. QED
      BY <2>5 DEF Aligned
  <1>2. CASE chan' = 1 /\ pos' = 1 /\ message' = <<>>
    <2>1. \A d, any : ~Passed(sub, chan, pos, d, any)'
      BY <1>2, PassedNone DEF Passed
    <2>2. \A i \in DOMAIN (last[sub])' :
              ~Passed(sub, chan, pos, last[sub][i].channel, last[sub][i].id)'
      BY <2>1
    <2>. QED
      BY <1>2, <2>2 DEF Aligned
  <1>3. CASE pc' # "dispatch"
    BY <1>3 DEF Aligned
  <1>4. CASE DispatchId
    BY <1>4, AlignedId
  <1>. QED
    BY <1>1, <1>2, <1>3, <1>4, MessageSteps

(* A complete cycle writes the IDs of the last batch in the same order.    *)
LEMMA OrderStays ==
    ASSUME TypeOK, ActiveIdsExact, CacheFromSources, MessageOfSeen, CompleteSnapshot,
           BatchSorted, SeenUpdated, Aligned, [Next]_vars,
           NEW s \in Sub, Indexed(s), last[s] # <<>>, last'[s] # last[s]
    PROVE  Order(s)' = Order(s)
  <1>1. /\ s = sub /\ pc = "dispatch" /\ valid
        /\ DOMAIN last'[s] = 1..Len(message)
        /\ \A i \in 1..Len(message) : last'[s][i] = message[i]
    BY WritesWhole DEF Indexed
  <1>2. ids_seen = ids_allowed(s)
    BY <1>1 DEF valid, Indexed
  <1>3. Fresh(s)
    <2> SUFFICES ASSUME NEW i \in 1..Len(subscriptions[s].channels), NEW id \in ids_allowed(s),
                        entries[subscriptions[s].channels[i]][id].valid
                 PROVE  entries[subscriptions[s].channels[i]][id].updated
      BY DEF Fresh
    <2>1. PICK j \in 1..Len(subscriptions[s].channels) :
              entries[subscriptions[s].channels[j]][id].updated
      BY <1>1, <1>2 DEF SeenUpdated
    <2>2. subscriptions[s].channels[j] \in Channel /\ id \in EcatId
      BY LoopChannels DEF ids_allowed
    <2>3. entries[subscriptions[s].channels[j]][id].valid
      BY <2>1, <2>2 DEF CacheFromSources
    <2>4. subscriptions[s].channels[i] = subscriptions[s].channels[j]
      BY <2>3, OneChannel DEF Indexed
    <2>. QED
      BY <2>1, <2>4
  <1>4. \A i \in 1..Len(message) : i \in DOMAIN last[s] /\ message[i].id = last[s][i].id
    BY <1>1, <1>3 DEF Aligned
  <1>5. ASSUME NEW i \in DOMAIN last[s]
        PROVE  i \in 1..Len(message)
    <2>1. last[s][i].id \in ids_seen
      BY <1>2 DEF CompleteSnapshot, Indexed, Batch
    <2>2. PICK j \in 1..Len(message) : message[j].id = last[s][i].id
      BY <1>1, <2>1 DEF MessageOfSeen, Indexed
    <2>3. j \in DOMAIN last[s] /\ last[s][j].id = last[s][i].id
      BY <1>4, <2>2
    <2>4. i = j
      BY <2>3 DEF CompleteSnapshot, Indexed
    <2>. QED
      BY <2>4
  <1>6. DOMAIN last[s] = DOMAIN last'[s]
    BY <1>1, <1>4, <1>5
  <1>7. \A i \in DOMAIN last[s] : last'[s][i].id = last[s][i].id
    BY <1>1, <1>4, <1>5
  <1>. QED
    BY <1>6, <1>7 DEF Order

(***************************************************************************)
(* active_ids only grows at its end and dispatch_cache goes through it in  *)
(* order: every batch of a DDS or CDR publisher with an ID list lists its  *)
(* slaves in the same order as the batch before, provided each is heard on *)
(* one channel only and the publisher converts what they send.             *)
(***************************************************************************)
THEOREM OrderIsStable == Spec => StableOrder
  <1> DEFINE Ordered == SeenUpdated /\ MessageSorted /\ BatchSorted /\ Aligned
             Stays == \A s \in Sub :
                          /\ last[s] # <<>> /\ last'[s] # last[s]
                          /\ ~accept_all_ids(s)
                          /\ subscriptions[s].kind # "protobuf"
                          /\ ConvertsAll(s)
                          /\ OneChannelPerId(s)
                          => Order(s)' = Order(s)
  <1>1. Init => Ordered
    BY DEF Init, SeenUpdated, MessageSorted, BatchSorted, Aligned
  <1>2. TypeOK /\ ActiveIdsExact /\ Assembly /\ Ordered /\ [Next]_vars => Ordered'
    BY SeenUpdatedStep, MessageSortedStep, BatchSortedStep, AlignedStep DEF Assembly
  <1>3. TypeOK /\ ActiveIdsExact /\ Assembly /\ Ordered /\ [Next]_vars => [Stays]_vars
    BY OrderStays DEF Indexed, Assembly
  <1>4. StableOrder <=> [][Stays]_vars
    BY PTL DEF StableOrder
  <1> HIDE DEF Ordered, Stays
  <1>. QED
    BY <1>1, <1>2, <1>3, <1>4, TypeCorrect, ActiveIdsAreExact, AssemblyInvariant, PTL DEF Spec

=============================================================================
