-------------------------- MODULE AdapterPublishers --------------------------
(***************************************************************************)
(* The receive path of the middleware: the EtherCAT master pushes PDOs     *)
(* into one bounded shared-memory queue per receive channel, and the       *)
(* adapter thread's spin_once() drains every queue into a per-channel      *)
(* cache (fill_cache) and then feeds the cache to each registered          *)
(* publisher (dispatch), which publishes at most one batch per cycle.      *)
(*                                                                         *)
(* The master runs concurrently with the adapter, so every pop of a queue  *)
(* and every step of the dispatch loops is an action of its own, and       *)
(* pushes fall anywhere between them. So do the pops of a second plugin    *)
(* that is connected to the same shared memory: draining consumes.         *)
(*                                                                         *)
(* A spin_once() that finds the shared memory not ok returns at once and   *)
(* changes nothing: it is a stuttering step here.                          *)
(*                                                                         *)
(* Operators named Mutant... are wrong variants of the operator after      *)
(* them. No specification uses them: they show which property notices.     *)
(***************************************************************************)
EXTENDS Naturals, Sequences

CONSTANTS
    CHANNELS_ARRAY,  \* the receive channels in enum order, without repetition
    MaxEcatIds,      \* the cache has one entry per ID below this bound
    Sources,         \* what the master may push: records in Source
    Types,           \* the PDO types
    Unspecified,     \* the type of a default-constructed PDO
    subscriptions,   \* the registered publishers, in registration order
    SharedChannels,  \* the channels a second plugin drains as well
    Capacity,        \* slots of one shared-memory queue
    MaxPush          \* bound: pushes the master attempts, per channel

Channel == {CHANNELS_ARRAY[i] : i \in 1..Len(CHANNELS_ARRAY)}
EcatId == 0 .. MaxEcatIds - 1

(* A source is a slave seen on a channel; a malformed one has no index.    *)
Source == [channel: Channel, has_index: BOOLEAN, id: Nat, type: Types]

(***************************************************************************)
(* A registration: the topic's publisher, how it assembles ("dds": one     *)
(* message merged as PDOs come; "cdr": one message serialized at the end;  *)
(* "protobuf": one message per PDO), the types it can convert, the         *)
(* channels it reads in order, and the IDs it was configured with.         *)
(***************************************************************************)
Registration ==
    [topic: Seq(STRING), kind: {"dds", "cdr", "protobuf"}, handles: SUBSET Types,
     channels: Seq(Channel), ids: SUBSET Nat]

Sub == 1..Len(subscriptions)

ASSUME ChannelsAssumption ==
    /\ CHANNELS_ARRAY \in Seq(Channel)
    /\ Len(CHANNELS_ARRAY) > 0
    /\ \A i, j \in 1..Len(CHANNELS_ARRAY) :
           CHANNELS_ARRAY[i] = CHANNELS_ARRAY[j] => i = j
ASSUME SourcesAssumption ==
    /\ MaxEcatIds \in Nat
    /\ Unspecified \in Types
    /\ Sources \subseteq Source
    /\ SharedChannels \subseteq Channel
ASSUME SubscriptionsAssumption ==
    subscriptions \in Seq(Registration)
ASSUME BoundsAssumption ==
    /\ Capacity \in Nat
    /\ MaxPush \in [Channel -> Nat]

VARIABLES
    queue,       \* shared memory: per channel, the PDOs not yet drained
    stamp,       \* per channel, how many pushes the master has attempted
    active_ids,  \* ChannelCache::active_ids, in order of first arrival
    entries,     \* ChannelCache::entries
    pc,          \* where the adapter thread is in spin_once()
    chan,        \* index of the channel being drained or dispatched
    sub,         \* index of the subscription being dispatched
    pos,         \* index in active_ids of the ID being dispatched
    ids_seen,    \* Subscription::ids_seen
    message,     \* what the publisher has assembled since begin_cycle()
    accepted,    \* history: per channel and ID, the newest sample a queue took,
                 \* 0 if there is none or another plugin has popped it
    last,        \* history: the last batch each publisher handed to the network
    published,   \* history: the newest sample each publisher ever handed to the
                 \* network, per channel and ID; 0 if there is none
    wrote        \* history: the publishers that wrote in the current cycle

cache == <<active_ids, entries>>
cursor == <<chan, sub, pos>>
publisher == <<ids_seen, message>>
history == <<last, published, wrote>>
shm == <<queue, stamp, accepted>>
vars == <<shm, cache, pc, cursor, publisher, history>>

Pdo == [has_index: BOOLEAN, id: Nat, type: Types, stamp: Nat \ {0}]
Entry == [valid: BOOLEAN, updated: BOOLEAN, type: Types, stamp: Nat]
Sample == [channel: Channel, id: EcatId, type: Types, stamp: Nat]

NoEntry == [valid |-> FALSE, updated |-> FALSE,
            type |-> Unspecified, stamp |-> 0]

-----------------------------------------------------------------------------
(* register_publisher: an empty list accepts every ID; IDs the cache has   *)
(* no entry for are dropped from a non-empty one, which may leave it empty. *)
accept_all_ids(s) == subscriptions[s].ids = {}
ids_allowed(s) == subscriptions[s].ids \cap EcatId

Init ==
    /\ queue = [c \in Channel |-> <<>>]
    /\ stamp = [c \in Channel |-> 0]
    /\ active_ids = [c \in Channel |-> <<>>]
    /\ entries = [c \in Channel |-> [id \in EcatId |-> NoEntry]]
    /\ pc = "idle"
    /\ chan = 1 /\ sub = 1 /\ pos = 1
    /\ ids_seen = {}
    /\ message = <<>>
    /\ accepted = [c \in Channel |-> [id \in EcatId |-> 0]]
    /\ last = [s \in Sub |-> <<>>]
    /\ published = [s \in Sub |-> [c \in Channel |-> [id \in EcatId |-> 0]]]
    /\ wrote = {}

(* The drain callback drops a PDO without an index or with too large an ID. *)
Accepted(pdo) == pdo.has_index /\ pdo.id < MaxEcatIds

(***************************************************************************)
(* The master pushes the next sample of a slave. The queue is bounded and  *)
(* a push into a full one is refused: that sample is lost.                 *)
(***************************************************************************)
MasterPush(src) ==
    LET c == src.channel
        pdo == [has_index |-> src.has_index, id |-> src.id, type |-> src.type,
                stamp |-> stamp[c] + 1]
    IN  /\ stamp[c] < MaxPush[c]
        /\ stamp' = [stamp EXCEPT ![c] = @ + 1]
        /\ IF Len(queue[c]) < Capacity
           THEN /\ queue' = [queue EXCEPT ![c] = Append(@, pdo)]
                /\ accepted' = IF Accepted(pdo)
                               THEN [accepted EXCEPT ![c][pdo.id] = pdo.stamp]
                               ELSE accepted
           ELSE UNCHANGED <<queue, accepted>>
        /\ UNCHANGED <<cache, pc, cursor, publisher, history>>

(***************************************************************************)
(* fill_cache() of another plugin pops a PDO that this adapter never sees. *)
(***************************************************************************)
OtherDrains(c) ==
    LET pdo == Head(queue[c])
    IN  /\ queue[c] # <<>>
        /\ queue' = [queue EXCEPT ![c] = Tail(@)]
        /\ accepted' = IF Accepted(pdo) /\ accepted[c][pdo.id] = pdo.stamp
                       THEN [accepted EXCEPT ![c][pdo.id] = 0]
                       ELSE accepted
        /\ UNCHANGED <<stamp, cache, pc, cursor, publisher, history>>

(* spin_once() with the shared memory ok.                                  *)
SpinOnce ==
    /\ pc = "idle"
    /\ pc' = "clear"
    /\ chan' = 1
    /\ wrote' = {}
    /\ UNCHANGED <<shm, cache, sub, pos, publisher, last, published>>

(* fill_cache, top of the channel loop: no entry is updated yet.           *)
MutantNotCleared(entry) == entry
Cleared(entry) == [entry EXCEPT !.updated = FALSE]

ClearUpdated ==
    LET c == CHANNELS_ARRAY[chan]
    IN  /\ pc = "clear"
        /\ pc' = "drain"
        /\ entries' = [entries EXCEPT ![c] =
                          [id \in EcatId |-> Cleared(@[id])]]
        /\ UNCHANGED <<shm, active_ids, cursor, publisher, history>>

(***************************************************************************)
(* The drain callback: what one popped PDO does to the channel's cache. An *)
(* ID is listed when its entry becomes valid; the entry is overwritten.    *)
(***************************************************************************)
MutantListedEachCycle(c, id) ==
    IF entries[c][id].updated THEN active_ids[c] ELSE Append(active_ids[c], id)
MutantListedByRecency(c, id) ==
    Append(SelectSeq(active_ids[c], LAMBDA other : other # id), id)
Listed(c, id) ==
    IF entries[c][id].valid THEN active_ids[c] ELSE Append(active_ids[c], id)

MutantFirstReceived(c, pdo) ==
    IF entries[c][pdo.id].updated
    THEN entries[c][pdo.id]
    ELSE [valid |-> TRUE, updated |-> TRUE, type |-> pdo.type, stamp |-> pdo.stamp]
Received(c, pdo) ==
    [valid |-> TRUE, updated |-> TRUE, type |-> pdo.type, stamp |-> pdo.stamp]

DrainOne ==
    LET c == CHANNELS_ARRAY[chan]
        received == Head(queue[c])
    IN  /\ pc = "drain"
        /\ queue[c] # <<>>
        /\ queue' = [queue EXCEPT ![c] = Tail(@)]
        /\ IF Accepted(received)
           THEN /\ active_ids' = [active_ids EXCEPT ![c] = Listed(c, received.id)]
                /\ entries' = [entries EXCEPT ![c][received.id] =
                                  Received(c, received)]
           ELSE UNCHANGED cache
        /\ UNCHANGED <<stamp, accepted, pc, cursor, publisher, history>>

(* begin_cycle() of the publisher about to be fed: a fresh message.        *)
MutantBeginCycleAtZero ==
    /\ chan' = 0 /\ pos' = 0
    /\ ids_seen' = {}
    /\ message' = <<>>
MutantBeginCycleKeepsMessage ==
    /\ chan' = 1 /\ pos' = 1
    /\ ids_seen' = {}
    /\ UNCHANGED message
BeginCycle ==
    /\ chan' = 1 /\ pos' = 1
    /\ ids_seen' = {}
    /\ message' = <<>>

(* The queue was observed empty: next channel, or dispatch().              *)
DrainDone ==
    /\ pc = "drain"
    /\ queue[CHANNELS_ARRAY[chan]] = <<>>
    /\ IF chan < Len(CHANNELS_ARRAY)
       THEN /\ pc' = "clear"
            /\ chan' = chan + 1
            /\ UNCHANGED <<sub, pos, publisher>>
       ELSE /\ pc' = IF Sub = {} THEN "idle" ELSE "dispatch"
            /\ sub' = 1
            /\ BeginCycle
    /\ UNCHANGED <<shm, cache, history>>

(* IPublisher::consume(): a DDS publisher merges what process() converts   *)
(* and ignores the rest; a Zenoh publisher keeps every PDO.                *)
Keeps(s, type) ==
    subscriptions[s].kind = "dds" => type \in subscriptions[s].handles

(* dispatch_cache, one iteration of the loop over active_ids.              *)
DispatchId ==
    LET c == subscriptions[sub].channels[chan]
        id == active_ids[c][pos]
        entry == entries[c][id]
        wanted == /\ entry.updated
                  /\ accept_all_ids(sub) \/ id \in ids_allowed(sub)
                  /\ id \notin ids_seen
    IN  /\ pc = "dispatch"
        /\ chan <= Len(subscriptions[sub].channels)
        /\ pos <= Len(active_ids[c])
        /\ pos' = pos + 1
        /\ ids_seen' = IF wanted THEN ids_seen \cup {id} ELSE ids_seen
        /\ message' = IF wanted /\ Keeps(sub, entry.type)
                      THEN Append(message, [channel |-> c, id |-> id,
                                            type |-> entry.type,
                                            stamp |-> entry.stamp])
                      ELSE message
        /\ UNCHANGED <<shm, cache, pc, chan, sub, history>>

(* End of the loop over one channel's active_ids.                          *)
DispatchNextChannel ==
    /\ pc = "dispatch"
    /\ chan <= Len(subscriptions[sub].channels)
    /\ pos > Len(active_ids[subscriptions[sub].channels[chan]])
    /\ chan' = chan + 1
    /\ pos' = 1
    /\ UNCHANGED <<shm, cache, pc, sub, publisher, history>>

(* dispatch(): did the cycle see what the subscription asked for?          *)
MutantValidIfAny == ids_seen # {}
valid ==
    IF accept_all_ids(sub) THEN ids_seen # {} ELSE ids_seen = ids_allowed(sub)

(***************************************************************************)
(* end_cycle(): the positions of the message that reach the network. Any   *)
(* single write may fail (it is logged and forgotten). DDS and CDR write   *)
(* the whole message or nothing; CDR refuses a message holding a type its  *)
(* serializer does not know; protobuf puts the PDOs one by one.            *)
(***************************************************************************)
Outcomes ==
    LET all == 1..Len(message)
        serializable == \A i \in all :
                            message[i].type \in subscriptions[sub].handles
    IN  IF ~valid \/ message = <<>> THEN {{}}
        ELSE CASE subscriptions[sub].kind = "dds" -> {{}, all}
               [] subscriptions[sub].kind = "cdr" ->
                      IF serializable THEN {{}, all} ELSE {{}}
               [] OTHER -> SUBSET all

(* What is the newest sample of a slave once these positions are written.  *)
NewestAfter(written, c, id) ==
    LET stamps == {message[i].stamp : i \in
                       {j \in written : message[j].channel = c /\ message[j].id = id}}
    IN  IF stamps = {} THEN published[sub][c][id] ELSE CHOOSE n \in stamps : TRUE

EndCycle ==
    /\ pc = "dispatch"
    /\ chan > Len(subscriptions[sub].channels)
    /\ \E written \in Outcomes :
           IF written = {}
           THEN UNCHANGED history
           ELSE /\ last' = [last EXCEPT ![sub] = [i \in written |-> message[i]]]
                /\ published' = [published EXCEPT ![sub] =
                       [c \in Channel |-> [id \in EcatId |->
                           NewestAfter(written, c, id)]]]
                /\ wrote' = wrote \cup {sub}
    /\ pc' = IF sub = Len(subscriptions) THEN "idle" ELSE "dispatch"
    /\ sub' = IF sub = Len(subscriptions) THEN 1 ELSE sub + 1
    /\ BeginCycle
    /\ UNCHANGED <<shm, cache>>

Next ==
    \/ \E src \in Sources : MasterPush(src)
    \/ \E c \in SharedChannels : OtherDrains(c)
    \/ SpinOnce
    \/ ClearUpdated
    \/ DrainOne
    \/ DrainDone
    \/ DispatchId
    \/ DispatchNextChannel
    \/ EndCycle

Spec == Init /\ [][Next]_vars

-----------------------------------------------------------------------------
HistoryTypeOK ==
    /\ DOMAIN last = Sub
    /\ \A s \in Sub : /\ DOMAIN last[s] \subseteq Nat \ {0}
                      /\ \A i \in DOMAIN last[s] : last[s][i] \in Sample
    /\ published \in [Sub -> [Channel -> [EcatId -> Nat]]]

TypeOK ==
    /\ queue \in [Channel -> Seq(Pdo)]
    /\ stamp \in [Channel -> Nat]
    /\ accepted \in [Channel -> [EcatId -> Nat]]
    /\ active_ids \in [Channel -> Seq(EcatId)]
    /\ entries \in [Channel -> [EcatId -> Entry]]
    /\ pc \in {"idle", "clear", "drain", "dispatch"}
    /\ chan \in Nat \ {0} /\ sub \in Nat \ {0} /\ pos \in Nat \ {0}
    /\ pc \in {"clear", "drain"} => chan <= Len(CHANNELS_ARRAY)
    /\ pc = "dispatch" => sub \in Sub
    /\ ids_seen \subseteq EcatId
    /\ message \in Seq(Sample)
    /\ HistoryTypeOK
    /\ wrote \subseteq Sub

Batch(s) == {last[s][i] : i \in DOMAIN last[s]}

(***************************************************************************)
(* fill_cache: active_ids lists every ID ever received on the channel      *)
(* exactly once, so dispatch_cache neither misses one nor meets it twice.  *)
(***************************************************************************)
ActiveIdsExact ==
    \A c \in Channel :
        /\ \A id \in EcatId :
               entries[c][id].valid
                   <=> \E i \in 1..Len(active_ids[c]) : active_ids[c][i] = id
        /\ \A i, j \in 1..Len(active_ids[c]) :
               active_ids[c][i] = active_ids[c][j] => i = j

(***************************************************************************)
(* fill_cache keeps the last PDO of an ID: once none of its samples is     *)
(* left in the queue, the cache holds the newest one the queue ever took,  *)
(* whatever was pushed while the drain was running, unless another plugin  *)
(* got hold of that one.                                                   *)
(***************************************************************************)
Queued(c, id) ==
    \E i \in 1..Len(queue[c]) : Accepted(queue[c][i]) /\ queue[c][i].id = id

LatestWins ==
    \A c \in Channel, id \in EcatId :
        ~Queued(c, id) => accepted[c][id] \in {0, entries[c][id].stamp}

(***************************************************************************)
(* dispatch serves every publisher from the same cache: two topics written *)
(* in one cycle never carry different samples of the same slave, although  *)
(* the master keeps pushing between their writes.                          *)
(***************************************************************************)
SameCycleAgreement ==
    \A s, t \in wrote : \A e \in Batch(s), f \in Batch(t) :
        e.channel = f.channel /\ e.id = f.id => e = f

(***************************************************************************)
(* dispatch's valid flag: a publisher with an ID list that converts every  *)
(* type its slaves send writes all of its IDs or nothing, each once, even  *)
(* when a slave is heard on two channels or the drain split a batch.       *)
(***************************************************************************)
Feeds(src, s) ==
    /\ \E i \in 1..Len(subscriptions[s].channels) :
           subscriptions[s].channels[i] = src.channel
    /\ src.has_index
    /\ src.id \in ids_allowed(s)

ConvertsAll(s) ==
    \A src \in Sources : Feeds(src, s) => src.type \in subscriptions[s].handles

CompleteSnapshot ==
    \A s \in Sub :
        /\ last[s] # <<>>
        /\ ~accept_all_ids(s)
        /\ subscriptions[s].kind # "protobuf"
        /\ ConvertsAll(s)
        => /\ {e.id : e \in Batch(s)} = ids_allowed(s)
           /\ \A i, j \in DOMAIN last[s] : last[s][i].id = last[s][j].id => i = j

(***************************************************************************)
(* updated_this_cycle: whenever a publisher writes, every sample it writes *)
(* is newer than all it has ever written of that channel, in the cycle     *)
(* before or long ago, whether or not the channel was in the batches since.*)
(* In particular it never writes the same batch twice.                     *)
(***************************************************************************)
NeverRepublished ==
    [][\A s \in wrote' \ wrote : \A e \in Batch(s)' : \A id \in EcatId :
           e.stamp > published[s][e.channel][id]]_vars

(***************************************************************************)
(* active_ids only grows at its end: a slave keeps its position in every   *)
(* message of a topic (readers of joint_states index by it), provided      *)
(* every slave of the topic is heard on one channel only.                  *)
(***************************************************************************)
OneChannelPerId(s) ==
    \A a, b \in Sources :
        Feeds(a, s) /\ Feeds(b, s) /\ a.id = b.id => a.channel = b.channel

Order(s) == [i \in DOMAIN last[s] |-> last[s][i].id]

StableOrder ==
    [][\A s \in Sub :
           /\ last[s] # <<>> /\ last'[s] # last[s]
           /\ ~accept_all_ids(s)
           /\ subscriptions[s].kind # "protobuf"
           /\ ConvertsAll(s)
           /\ OneChannelPerId(s)
           => Order(s)' = Order(s)]_vars

=============================================================================
