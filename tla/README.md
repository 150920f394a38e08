# TLA+ models of the ADVRF EtherCAT middleware

The middleware connects the EtherCAT master of a robot to the outside. The
master lives in another process and talks through shared memory (one bounded
queue per kind of device and direction) and through a ZeroMQ socket (commands to
the master itself). A *plugin* is a process that carries device states from the
shared memory to a network (CycloneDDS, FastDDS or Zenoh), commands from that
network back into the shared memory, and REPL commands to the ZeroMQ socket.

This directory holds models of the parts of it that decide something: what is
published and when, how a plugin starts and stops, which publishers exist, what
ROS is told about them, what the master is told and what a caller is told about it,
and what the inspector shows. Data is abstracted. A PDO
is its ID, type, channel and a stamp that tells one sample from the next; no
field of a PDO, no text and no wire format is modelled.

Paths below are relative to the repository; `core/` stands for
`src/core/advrf_middleware_core/`, with `include/advrf_middleware_core/` left
out, and `plugins/` for `src/plugins/`.

## 1. The system: inventory

### Receive path - `core/adapters/adapter_publishers.hpp`
* State: a cache per receive channel (`ChannelCache`: 256 entries with `valid`
  and `updated_this_cycle`, and `active_ids` in order of first arrival); a list
  of subscriptions (publisher, channels, allowed IDs); the publishers' messages.
* Operations: `spin_once()` = `fill_cache()` for each channel, then `dispatch()`
  to each subscription (`begin_cycle`, `consume`, `end_cycle`).
* Interaction: pops the queues the master pushes to, and another plugin may pop them
  too; calls the network.
* Hard: the master pushes while the queue is drained, so a cycle can hold two
  samples of one slave or only some of the slaves; the cache outlives the cycle;
  several topics are served one after the other; a write can fail.
* Correct when: a topic is written from a complete, fresh and consistent set of
  samples, in a stable order, and nothing is published twice.

### Plugin lifecycle - `core/plugin/plugin_exec.hpp`
* State: the atomic flag `running_`, shared with all workers; the list of
  processes with their threads; the static `instance_` the signal handler uses.
* Operations: `register_adapter`, `start(wait_for_exit)`, `stop`, destructor,
  `Process::start` with the worker loop (flag, health check once a second,
  `spin_once`, sleep until the deadline), the signal handler.
* Hard: main thread, workers, signals and failing connections move at once; a
  process in the middle of the list may fail to start; `join` blocks.
* Correct when: every way to stop ends with every worker joined and `main()`
  returning, and nothing is used after it is destroyed.

### Publisher registration - `plugins/*/src/*_adapter_publishers.cpp`
* State: the list of registrations, from the map of discovered devices and the
  configured names.
* Operations: `init()`, topic by topic. DDS gives up at the first problem, Zenoh
  goes on and reports failure at the end.
* Hard: registration decides whether a topic can ever complete a cycle: the ID
  list, the channel list and the types the publisher converts must fit together,
  and they are written in three different places.
* Correct when: every registered topic can be written and every device is served.

### Command path - `core/adapters/adapter_subscribers.hpp`, `plugins/*/src/*_adapter_subscribers.cpp`
* State: the readers' histories (DDS) or `pending_` (Zenoh, one command per
  topic); the transmit queues in shared memory.
* Operations: registration, reception on the network's thread, `spin_once()`:
  take, convert element by element, `push()`.
* Hard: three buffers in a row with different rules for a full buffer; refusal in
  the middle of a command; connection lost between two elements.
* Correct when: setpoints never go backwards, the newest command is the one that
  survives, a command is not applied with holes.

### Discovery - `core/utils/ecat_discover.hpp`
* State: the map ID -> metadata.
* Operations: `start()`, `discover()`, `discover_once()` (peeks every receive queue).
* Hard: waits for slaves that may never answer, on queues that other processes
  fill and drain; the loop ends by comparing two sizes.
* Correct when: the result names every configured ID, does not change any more,
  and comes when the bus is complete.

### REPL service - `core/src/adapter_service.cpp`, `core/adapters/adapter_service.hpp`
* State: `started_`, `request_mutex_`, one REQ socket per transaction.
* Operations: `start`, `close`, `process_request(_result)`, `execute_zmq`.
* Hard: commands are not idempotent, replies are lost or late, the master
  restarts, ZeroMQ throws before or after the message left.
* Correct when: a command is executed at most once and the caller is never told
  something about it that is not true.

### DDS service layer - `plugins/*/service/service_{server,client}.hpp`, `dds_adapter_service.cpp`
* State: request and reply topics (KeepLast), identifiers.
* Operations: `ServiceServer::spin_once()`, `ServiceClient::call()`.
* Hard: all clients read one reply topic; timeouts on two levels; discovery of
  peers takes time.
* Correct when: a client is told about its own command.

### Start-up of the DDS plugins, ROS graph bridge - `plugins/*dds_plugin/plugin/plugin.cpp`, `ros_graph_bridge.hpp`, `ros_graph_state.hpp`
* State: three participants, an adapter on each; per adapter its endpoint objects,
  made of DDS entities, and a bridge with the GIDs of its readers and writers, which
  publishes the whole list as one transient-local sample after each change.
* Operations: `main()`; the constructors, `init()` and destructors it runs;
  `add_writer`, `add_reader`, `publish`. `remove_writer` and `remove_reader` have no
  caller.
* Hard: every step can fail with the earlier ones done. FastDDS holds raw pointers,
  some of which it never tests; CycloneDDS holds members. Destruction order follows
  from declaration order.
* Correct when: ROS is never told of an endpoint that does not exist, knows all that
  exist when the workers run, and nothing is left on any way out.

### Shared-memory inspector - `src/tools/shm_tools`
* State: per memory a mapping with its queue descriptors (`BridgeInspector`) and the
  last snapshot; the memory on the screen, the mode, a pause.
* Operations: `poll` (`initialize`, `read`, `make_snapshot`), `reconnect`, the loop of
  `InspectorApp::run` with its timer and keys.
* Hard: the master restarts under the mapping; messages and sizes are read at two
  moments; a snapshot is sometimes kept instead of replaced.
* Correct when: the screen shows what it says it shows, `--keep-last-queue` keeps the
  last messages of a memory whose queues have run empty, and one reconnect recovers.

### Other parts
* **Converters** (`dds_common/src/converter.cpp`, `ros2cdr.cpp`): stateless copies
  of fields. Only which types they convert, and what they do with the rest,
  matters to the models.
* **Configuration** (`core/config`, `dds_config.hpp`): YAML, flags, topic names.
* **Clock, logging, name resolver** (`core/utils`).
* **Mock producer** (`core/src/producer.cpp`): plays the master in demos.
* **ZeroMQ plugin** (`plugins/advrf_zmq_plugin`): a `main()` without a body.

`PROJECT.json` lists all of them with their status, and under "hazards" the places
where the code can go wrong in a way a test would hardly reach, each at its line
and with the properties aimed at it.

## 2. The modules

| module | models | proofs | instance |
|---|---|---|---|
| `AdapterPublishers` | receive path, with the master's pushes and a second plugin | `AdapterPublishers_proofs` | `MCAdapterPublishers`, `MCJointStates` |
| `PluginExec` | lifecycle of a plugin | `PluginExec_proofs` | `MCPluginExec` |
| `Registrations` | tables: topics, channels, IDs, convertible types | | |
| `PublisherSetup` | `init()` of the publishers, over `Registrations` | `PublisherSetup_proofs` | `MCPublisherSetup` |
| `CommandOutcome` | abstract promise of the REPL service | | |
| `ReplService` | REPL service, network and master; implements `CommandOutcome` | `DdsReplService_proofs` | `MCReplService` |
| `DdsReplService` | the DDS layer around `ReplService` | `DdsReplService_proofs` | `MCDdsReplService` |
| `EcatDiscovery` | discovery, with the bus | `EcatDiscovery_proofs` | `MCEcatDiscovery` |
| `CommandPath` | command path, with clients and master | `CommandPath_proofs` | `MCCommandPath` |
| `PluginStartup` | `main()` of the DDS plugins with the ROS graph bridges | `PluginStartup_proofs` | `MCPluginStartup` |
| `ShmInspector` | the inspector, with the masters and other consumers | `ShmInspector_proofs` | `MCShmInspector` |

Composition: `DdsReplService` EXTENDS `ReplService`, takes its transaction as a step
of the worker and leaves the network and the master to act as before;
`MCJointStates` runs `AdapterPublishers` with a registration built by
`Registrations`, so that what one part configures is what the other executes.

In each module the operators called `Mutant...` are wrong variants of the operator
that follows them. No specification refers to them. Each property is paired in
`PROJECT.json` with a variant that breaks it, which shows that the property
depends on the code it is about.

### How state and actions correspond to the code

**AdapterPublishers.** `queue` is the shared memory; `entries` and `active_ids` are
`ChannelCache`; `pc`, `chan`, `pos`, `sub` are the loop positions of `spin_once()`;
`ids_seen` and `message` are the locals of `dispatch` and the publisher's own
message. `MasterPush` is the environment. `ClearUpdated` is the loop at the head of
`fill_cache`, `DrainOne` one call of its callback, `DrainDone` the moment the queue
is seen empty, `DispatchId` one iteration of `dispatch_cache`, `EndCycle` the
`valid` test with `end_cycle`. A push can fall between any two of them, and so can
`OtherDrains`, the pop of another plugin on one of `SharedChannels`. The three
kinds of publisher differ in what they keep (`Keeps`) and in what a write can do
(`Outcomes`). `accepted`, `last`, `published`, `wrote` and the stamps are history that
no guard of the code's actions reads; `published` is the newest sample each publisher
ever wrote, by channel and slave.

**PluginExec.** `thread[p]` is the position of a worker in its loop, `main` that of
the main thread, `next` the cursor of `start()` and of the joins. `Signal` is the
handler. `HealthChanges` makes `is_ok()` of an adapter change at any time.
An exception from `Process::start` unwinds into the destructor.

**PublisherSetup.** One step per topic (per device for Zenoh's device topics), with
the refusals of DDS and the remembered failures of Zenoh as actions of their own.

**ReplService.** One record of state per call: where its thread is, where its
message is, what it was told. `Return` stands for the destructors at the end of
`execute_zmq` (socket closed with linger 0, mutex released). `Deliver`, the three
`Master...` actions and `MasterRestarts` are external.

**DdsReplService.** `requests` and `inbox` are reader histories, `serving` is the
worker inside the service callback, `checking` a client between its take and its
look at the clock.

**EcatDiscovery.** `DiscoverOnce` is the reading of one channel: other processes act
between two channels, not within one peek. `overwrites` says what a full queue of
the external shared-memory library does; both answers are explored.

**CommandPath.** `pending` is the DDS reader's history or Zenoh's `pending_`; `batch`
is what the worker took. `PushElement` is one iteration of the conversion loop with
`push()`; clients, the pops of the master and the connection act in between.

**PluginStartup.** `owned` is the stack of constructed C++ objects that `main()`, or the
unwinding of an exception, destroys from its end; `entities` are the DDS entities that
exist. An object is created by one action, which has variants for the failures the code
distinguishes: refused and owned (`CreatePublisherFails`), refused and dropped
(`RegisterSubscriberFails`), thrown out of a constructor (`CreateServerThrows`,
`CreateBridgeThrows`), and not noticed (`CreateServerUnchecked`). `Unwind` is one
destructor. `Deleted` has the rule of both DDS implementations that a topic or group in
use is not deleted. `gids` is `RosGraphState`, `graph` the sample readers of
`ros_discovery_info` get. The three other components `main()` goes through are modelled
on their own: discovery, the choice of publishers, and `PluginExec`, which is the state
"running" here.

**ShmInspector.** `view` says whether a `BridgeInspector` maps the memory behind the name
("live"), one that was removed since ("old"), or none. `Read` is `initialize()` with
`read()`, `Size` is `make_snapshot()` with the decision of `poll_source()`; masters and
other consumers act in between. `Reopen` is `reconnect()`; `Polled` leads
`reconnect_all()` to the next memory. `Timer` is the end of the wait, the keys are
actions. What a removed memory still holds, and what its `is_ok()` says, is left open.
The queues of one memory are read in one step; an instance with one queue per memory
loses nothing by it. `moved` and `torn` are history: a poll is torn when a queue of the
memory moved between its two readings, or when the memory was a removed one.

## 3. The runs

Distinct states are those of a complete search.

| run | module | states | result |
|---|---|---|---|
| `adapter_publishers` | MCAdapterPublishers | 972 600 | passes |
| `plugin_exec` | MCPluginExec | 64 384 | passes |
| `publisher_setup` | MCPublisherSetup | 241 689 | passes |
| `repl_service` | MCReplService | 11 506 | passes |
| `dds_repl_service` | MCDdsReplService | 2 066 442 | passes |
| `ecat_discovery` | MCEcatDiscovery | 893 906 | passes |
| `command_path` | MCCommandPath | 110 316 | passes |
| `plugin_startup` | MCPluginStartup | 444 | passes |
| `shm_inspector` | MCShmInspector | 1 398 996 | passes |
| `plugin_exec_signal` | MCPluginExec | | violation of `SignalStops` |
| `joint_states` | MCJointStates | | violation of `AggregatesConfiguredJoints` |
| `dds_reply_match` | MCDdsReplService | | violation of `ReplyMatchesCall` |

### adapter_publishers
`ActiveIdsExact` (the list of active IDs is exactly the valid entries, each once),
`LatestWins` (when nothing of a slave is left in the queue, the cache has the last
sample the queue took, unless another plugin took it), `SameCycleAgreement` (topics written in one cycle agree),
`CompleteSnapshot` (a topic with an ID list is written with all of its IDs, each
once, or not at all), `NeverRepublished` (every sample written is newer than all the
publisher has ever written of that slave on that channel, whatever it wrote in
between), `StableOrder` (a slave keeps its position).

Bounds: two channels, two cacheable IDs, queues of two, four pushes on one channel
and two on the other. The bus has a slave heard on two channels, an ID beyond
the cache and a PDO without an index. Four pushes through a queue of two give a full
queue, a cycle with two samples of a slave, a cycle with half of the slaves, and two
complete cycles in a row, which is what the properties compare. One publisher of
each kind is registered, with an ID list that contains an ID out of range and with
no list. Another plugin drains the motor channel at any time; the other channel is this
plugin's alone. All properties hold with and without the competitor: losing samples to
it makes topics rarer, never wrong.

### plugin_exec
`NoWorkerOutlivesExec`, `AtMostOneLateSpin`, and four liveness properties:
`StopCompletes` (a stop request that comes after `start()` raised the flag ends the
program), `FailedStartStops` (a process that does not start stops the others),
`DestructorCompletes` (the destructor never waits for workers nobody told to stop),
`HealthFailureStops` (an adapter that stays unusable stops the application).
Up to three adapters: one before, one at and one behind the one that fails.

### publisher_setup
`EveryIdIsHeard`, `EveryDeviceServed` and `CyclesAreConvertible` for every bus of up to three devices on five channels with every naming: three
devices give two of one kind beside another one, and all three joint channels at
once. The two channels left out are treated by the code exactly like the pump.
Init stops when it returns, so deadlock is not an error there.

### repl_service
`AtMostOnce`, `OneTransaction` (transactions do not overlap, and a command of a
settled call is not on its way any more), `EveryCallReturns`, and
`ResultsAreTruthful`: `ReplService` implements `CommandOutcome`, with the set of
executed commands as the refinement mapping. Three calls on three threads, two of
the same command type: a late reply can then meet a later call it could be
mistaken for, with a third one waiting.

### dds_repl_service
`SuccessIsExecuted` (no response claims success for a command that was not
executed), `AloneIsMatched` (a client that is alone and never gave up gets its own
response), `NoRequestIsStuck` (the worker comes back to an empty reader, even with a
dead master; a request that was overwritten in the reader is not answered, and the
property says nothing of it). Two clients, three calls, histories of depth one instead of ten, so
that overwriting happens with three requests.

### ecat_discovery
`CompleteIfConnected`, `FirstObservationStands`, and `DiscoveryReturns`: discovery
returns once the bus is settled (every configured slave answers, the master
runs, no other plugin drains). Two configured IDs, one slave nobody configured, one
that claims another's index on another channel; queues of two. Each channel carries
a configured slave beside one that must not be taken for it, which is the case the
filter of the callback is for. Discovery stops when it has failed or returned, so
deadlock is not an error.

### command_path
`SetpointsAdvance` (nothing older or repeated behind something newer),
`NewestIsKept` (the command that arrived last is done, or last in line),
`NoGaps` (of a Zenoh command a prefix is applied), `NewestIsHandled` (it is handled
unless a newer one comes). All four kinds; three commands through histories of
two (DDS) or one (Zenoh) and transmit queues of two; two Zenoh topics that share a
transmit channel. Three commands are one in progress, one pending and one that makes
it overflow. `NoGaps` is not claimed for DDS, which goes on behind a refused element
by design.

### plugin_startup
`AdvertisedIsTrue`: in every state, failures and destruction included, the ROS graph
names only endpoints that exist; when the workers start it names all of them; and
CycloneDDS never runs with an endpoint missing. `NothingIsLeft`: on every way out an
object's entities go with it and none outlives its participant. The exception is stated
in the property: a FastDDS bridge whose constructor throws has no destructor run, and
its entities live until the participant's cleanup deletes what it contains.
Both plugins, with and without `declare_to_ros`, and two publishers, so that a failure can
come behind a publisher that exists. More publishers repeat the same step. `main()` ends,
so deadlock is not an error.

### shm_inspector
`ScreenIsHonest` (what is drawn was read from the memory mapped now and in the selected
mode, its messages and sizes agree unless the poll was torn, and an error is shown
exactly when nothing could be read), `KeepsLast` (with `--keep-last-queue` messages are
replaced by none only if the old or the new poll was torn, or the user reconnects),
`ReconnectRecovers` (with the masters up for good, one
reconnect shows every memory as it is, whatever was mapped before). Two memories of
one queue with one slot: two are needed for `reconnect_all()` to fail at one and go on to
the other, and the properties only tell an empty queue from one that is not. Masters
restart without limit. The inspector quits, so deadlock is not an error.

### The three disagreements
* `SignalStops`: a signal between the constructor and `running_ = true` in `start()`
  is overwritten (`plugin_exec.hpp:165`; the class comment promises that a signal
  stops all processes). `StopCompletes` shows that a stop request that comes later
  is not lost.
* `AggregatesConfiguredJoints`: the DDS `joint_states` publisher is configured with
  valves and has no case for their PDOs; the batch counts as complete without them
  (`dds_pdo_publisher.cpp:22`).
* `ReplyMatchesCall`: `ServiceClient::call()` does not compare `request_id`
  (`service_client.hpp:74`), though `repl_service.md` leaves it to the DDS layer.
  `AloneIsMatched` gives the conditions under which it is harmless.

### Noted while modelling
* `discover()` returns an empty map at once when the connection is lost after `start()`
  (`ecat_discover.hpp:66`), and its callers run without any publisher, while the class
  comment says that discovery completes only when every ID was observed.
  `CompleteIfConnected` shows that the comment holds otherwise.
* Without a reply writer the FastDDS service dies at the first request it answers
  (`AnswerCrashes` in `PluginStartup`); CycloneDDS throws in the constructor instead.
* The inspector's help says that `c` clears the filter (`src/tools/shm_tools/src/main.cpp:59`).
  `c` reconnects, and `x` clears the filter. `--keep-last-queue` is not in the help.
* With `--keep-last-queue` a kept snapshot stays in the mode it was taken in when the user
  switches between latest and history, which is why `ScreenIsHonest` does not claim the
  mode in that case.
* `--keep-last-queue` decides by sizes that are read after the messages
  (`bridge_inspector.hpp:183`, `inspector_app.hpp:142`). When the master pushes between
  the two readings of a poll that found the queues empty, the messages kept are replaced
  by a snapshot without any. When another process drains between them, the snapshot has
  messages and the size zero, and the next empty poll replaces it. These are the torn
  polls `KeepsLast` excepts; it shows that there is no other way to lose the messages.
* A restarted master is not noticed by the inspector: it polls the removed memory until
  the user reconnects.
* Two devices of a kind with the same name share a Zenoh key; the configuration is not
  checked for it.
* FastDDS's subscriber adapter ignores that a subscriber could not be registered and
  runs without it (`RegisterFails` in `CommandPath`).
* The DDS subscribers do not look at what `push()` returns: a refused element is
  dropped and the next one is tried.
* A slave that starts to answer only when the queues are full is discovered only if
  the queues give up old PDOs or somebody drains them (`Settled` in `EcatDiscovery`).

## 4. Fairness

* `PluginExec`: weak fairness of the main thread and of every worker (they are
  threads, and `spin_once()` and `start()` return); strong fairness of the health
  check, because an iteration sleeps until its deadline and so the one-second test
  comes true again and again; the destructor runs when `start()` blocked, as in
  all plugins' `main()`. Nothing is assumed of signals or connections.
* `ReplService`: weak fairness of each call's thread. `sndtimeo` and `rcvtimeo` bound
  all its waits. Nothing is assumed of the master or the network. Weak fairness
  suffices for the mutex because every other call holds it a bounded number of times.
* `DdsReplService`: weak fairness of the worker; nothing about clients or master.
* `EcatDiscovery`: the master runs its cycles while it is up, and `main()` is
  scheduled. Slaves need not answer.
* `CommandPath`: weak fairness of the worker, whose `spin_once()` `PluginExec` calls
  at the adapter's rate as long as it has not stopped. `NewestIsHandled` is therefore
  about a plugin that goes on: a health check that finds the connection down may stop it,
  and then nobody handles what is pending. The master need not pop and the connection need not be up.
* `ShmInspector`: weak fairness of the program's own steps (polls, the timer, the steps
  of a reconnect), which wait for nobody. No key need be pressed and no master come.

## 5. What is proved

Every safety property of the passing runs, invariant or action property, is also a
theorem, which TLAPS proves for every value of the constants: any number of adapters,
channels, IDs, publishers, slaves, calls, clients, memories, and any capacity and depth.
Each block names the theorems, the strengthening that makes the property inductive, and
the assumptions on the constants. The strengthenings were checked with TLC on the
instances of section 3 before they were proved.

**AdapterPublishers_proofs** (with a second plugin on any set of channels)
* `TypeCorrect`: Spec => []TypeOK. `IInvariant`: Spec => []IInv.
* `NoRepublication`: Spec => NeverRepublished.
* `Agreement`: Spec => []SameCycleAgreement.
* `ActiveIdsAreExact`: Spec => []ActiveIdsExact.
* `LatestSampleWins`: Spec => []LatestWins.
* `SnapshotsAreComplete`: Spec => []CompleteSnapshot.
* `OrderIsStable`: Spec => StableOrder.

`NeverRepublished` compares a batch with all that was ever written (`published`), so it
needs to know that whatever can still get into a batch is newer. `IInv` states it
place by place along the way of a sample: stamps increase within a queue
(`QueueOrdered`), the cache is older than the queue (`CacheBeforeQueue`), what was
written is older than the queue (`PublishedBeforeQueue`) and, for a publisher that has not
written in this cycle, older than every entry whose `updated_this_cycle` flag is set
(`PublishedBeforeUpdated`); the message under construction repeats the cache
(`MessageInCache`), as does everything written in this cycle, and publishers write in
their order (`WroteInOrder`). `Agreement` follows from the last two. `NewestIsNewer` is
what a write does to `published`.

`LatestWins` speaks of a queue without samples of a slave. `AcceptedKept` says for any
queue where the newest accepted sample is: in the queue, where no sample of its slave is
newer, or in the cache, or with the other plugin. `CompleteSnapshot` follows the types
and IDs from the sources through the queue and the cache into the message
(`QueueFromSources`, `CacheFromSources`), where `MessageOfSeen` relates it to `ids_seen`:
one sample per seen ID if all can be converted.

`StableOrder` compares two batches, with any number of new slaves in `active_ids` and of
incomplete cycles between them. `Passed` says what the two loops of `dispatch_cache` have
come to at a given position. A message (`MessageSorted`) and a batch (`BatchSorted`) list
slaves in the order in which the loops pass them, at any position of the loops; appending to
`active_ids` changes that for no slave that is listed. What was passed and updated is in
`ids_seen` (`SeenUpdated`). So in a cycle in which all slaves of the list are updated the
message repeats the last batch as far as the loops have come, and they have not come to
the rest of it (`Aligned`).

Assumptions: `ChannelsAssumption` (channels are a sequence without repetition),
`SourcesAssumption`, `SubscriptionsAssumption` (records of the right shape),
`BoundsAssumption`.

**PluginExec_proofs**
* `TypeCorrect`, `IInvariant`.
* `WorkersAreJoined`: Spec => []NoWorkerOutlivesExec.
* `StopIsPrompt`: Spec => []AtMostOneLateSpin.

`IInv` says that only processes behind the cursor of `start()` have threads
(`ThreadsOfStarted`), that while joining everything behind the cursor is joined
(`JoinedSoFar`), and that nobody is late while the flag is up, nor a worker that has
tested the flag and not spun yet (`LateOnce`). Assumption: `MaxProcesses \in Nat`.

**EcatDiscovery_proofs**
* `TypeCorrect`, with the conjunct that only configured IDs enter the map.
* `Complete`: Spec => []CompleteIfConnected. The loop stops when the map has at least as
  many entries as there are IDs; its domain is a subset of the IDs by `TypeCorrect`; a
  subset of a finite set with as many elements is the whole set.
* `FirstStands`: Spec => FirstObservationStands.

Assumptions: slaves and IDs are finite sets, the master's cycle serves all slaves, the
channel order is not empty, indices are naturals, -1 or absent, and a queue holds one
cycle.

**PublisherSetup_proofs**
* `IdsAreHeard`: Spec => []EveryIdIsHeard.
* `ConfiguredCyclesConvert`: Spec => []CyclesAreConvertible.
* `SuccessServesEveryDevice`: Spec => []EveryDeviceServed.

The first two hold registration by registration (`AllWellFormed`), from the tables of
`Registrations`: the IDs of a topic are those of its channels. For the third, as long as
nothing failed every device of a topic that is done has its registration (`DoneTopics`),
as have the devices of the topic in progress that are not in `remaining` (`InProgress`),
and success is returned only behind the last topic (`Returned`). Each channel has a topic
of its own that converts its types, which is a fact about the tables. Assumption: the IDs
are a finite set, the channels are among those of the code, names are not empty.

**DdsReplService_proofs** (about `ReplService` and `DdsReplService`)
* `ReplTypeCorrect`: Spec => []TypeOK.
* `CommandsAtMostOnce`: Spec => []AtMostOnce.
* `TransactionsDoNotOverlap`: Spec => []OneTransaction.
* `ResultsTruthful`: Spec => ResultsAreTruthful, the refinement of `CommandOutcome`.
* `DdsTypeCorrect`, `SuccessOnlyIfExecuted`, `AloneGetsItsResponse`: DdsSpec =>
  []DdsTypeOK, []SuccessIsExecuted, []AloneIsMatched.

`IInv` relates the places of a call's thread, message and reply: the mutex belongs to
the call between lock and return (`Held`), which has its verdict exactly when it has
returned (`Told`); a message exists from the send on and does not stay in a closed socket
(`Placed`); its place says how often the command was executed (`Counted`); a reply and a
verdict say what became of it (`Replied`, `Truthful`). The refinement maps the executed
calls to `CommandOutcome`'s set; each step is shown to be a step of it or a stutter. The
steps of the DDS layer keep `IInv`. There `CallsOwned` says whose the call under way is and
that only returned calls have responses, and `OneUnderWay` that for a client that is alone
and never gave up the reader, the worker and the inbox together hold one request or
response, its own. Assumptions: every call has a type and a client, the history depth is not
zero.

**CommandPath_proofs**
* `CommandTypeCorrect`: Spec => []TypeOK.
* `SetpointsInOrder`: Spec => []SetpointsAdvance.
* `NewestCommandIsKept`: Spec => []NewestIsKept.
* `ZenohCommandsHaveNoGaps`: Spec => []NoGaps.

Commands are numbered as they are sent. Those of a topic wait in that order in the batch
and then in the reader, behind those that are done (`WaitingInOrder`). `Frontier` is the
element of a topic that is pushed next; all that was pushed, queued or popped, is before it,
on the topic's own channel (`QueuesInOrder`). `NewestKept` is `NewestIsKept` for all topics,
registered or not. For `NoGaps` the accepted elements of the command in progress are all
those behind the cursor, or a prefix if the rest was given up (`Unbroken`). Assumptions:
the configured topics do not repeat, depth and capacity are not zero, the IDs of devices are
naturals.

**PluginStartup_proofs**
* `StartupTypeCorrect`: Spec => []TypeOK.
* `GraphIsTrue`: Spec => []AdvertisedIsTrue.
* `EntitiesGoWithTheirObjects`: Spec => []NothingIsLeft.

`IInv` says how far construction is and what is owned at each point of `main()`
(`Progress`), that nothing of an adapter is constructed after its bridge, so that
the bridge goes first (`BridgeLast`), that a bridge which knows anything is alive and
what it knows exists (`KnownExists`), and that the endpoint objects of finished
adapters are whole (`SetUp`). `NothingInUse` is the fact about the tables that every
destructor deletes a reader or writer before the topic and group it uses. Assumption: the
publishers are named differently from each other and from the other objects.

**ShmInspector_proofs**
* `InspectorTypeCorrect`: Spec => []TypeOK.
* `ScreenHonest`: Spec => []ScreenIsHonest.
* `LastContentIsKept`: Spec => KeepsLast.

A snapshot is of the memory that is mapped, unless a reconnect has opened another and has
yet to poll it (`OfTheMapped`); a memory whose queues are declared is shown as read, except
during the poll that declares them (`ReadIsShown`); content was read from a memory
(`ContentIsRead`); what was read still stands before the sizes are taken, unless the
queues have moved (`ReadStands`), so that messages and sizes of every snapshot agree
unless it is torn (`SnapshotsWhole`), which is what `KeepsLast` needs; what is on the screen was polled in the selected mode (`ActivePolled`).
`Loop` and `Declaring` relate the position in the loop to the reconnect and to what is
mapped. Assumptions: there is a memory, each has the queues of one of the code's
declarations or fewer, queues have a slot.

### What the proofs corrected
Five definitions could not be reasoned about as they stood, and were repaired: two
overlapping guards of a CASE in `Outcomes`; a conjunction in `DdsReplService` that bound
less than it seemed to; `TypeOK` of `CommandPath`, which was false without any Zenoh topic;
`buffered` in `ShmInspector`, which was not always a Boolean; and the fold that deleted
the parts of an object in `PluginStartup`, now stated in closed form. None changed the
reachable states of an instance.

## 6. What is only model-checked

* Liveness, because the prover does not reason about fairness: `StopCompletes`,
  `FailedStartStops`, `DestructorCompletes`, `HealthFailureStops`, `EveryCallReturns`,
  `NoRequestIsStuck`, `DiscoveryReturns`, `NewestIsHandled`, `ReconnectRecovers`.
* The three violations, which are behaviours of an instance.

## 7. What is not modelled

* Contents of PDOs and messages, and their conversion field by field.
* Time: periods, deadlines and timeouts are choices that can fall either way.
* Exceptions from `spin_once()`, which end the process with `std::terminate`.
* The inspector's drawing, queue selection, filter, rates and ages (layout), the mock
  producer (the models have the master as an environment), logging.
* Parsing of the configuration: each key is checked in turn and the first error ends
  `main()`, which is one step of `PluginStartup`. The clock offset is a single
  subtraction no modelled decision uses.
* `ServiceServerNotSequential` and the `spin()` loops of the service headers, which
  nothing uses, and the ZeroMQ plugin, which is empty.
* The shared-memory library, DDS, Zenoh and ZeroMQ are external: they appear as the
  users of them in `src/` see them, with the failures these handle.

## 8. Plan

Done: the modules above, in the order receive path, lifecycle, registration, REPL
service, DDS service, discovery, commands, start-up with the ROS graph, inspector; the
receive path with a second plugin on its queues.

The proofs in the same order: types and freshness of the receive path, lifecycle,
discovery; then the rest of the receive path, the REPL service with its refinement and the
DDS layer, commands, registration, start-up, inspector.

Possible next:
1. The composition of `Registrations` with `AdapterPublishers`: `CompleteSnapshot` and
   `StableOrder` assume `ConvertsAll` and `OneChannelPerId` of a publisher, which is what
   `PublisherSetup` establishes for most topics. A theorem could discharge the one from the
   other.
2. What the liveness arguments rest on, as safety theorems: what decreases in a step of
   the worker between two returns to its loop.
