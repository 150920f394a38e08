---------------------------- MODULE PluginStartup ----------------------------
(***************************************************************************)
(* main() of the two DDS plugins: what is created, in which order, what is *)
(* advertised to ROS, and what is destroyed again, from the command line   *)
(* to the return of main(), when any step can fail.                        *)
(*                                                                         *)
(* main() makes three participants and, on each, one adapter: publishers   *)
(* ("rx"), subscribers ("tx") and the REPL service ("service"). An adapter *)
(* has endpoint objects (a publisher per topic, the subscriber of the      *)
(* commands, the service server) and, if declare_to_ros is set, a ROS      *)
(* graph bridge, which keeps the GIDs of the adapter's DDS endpoints and   *)
(* publishes the whole list on ros_discovery_info whenever it changes.     *)
(* An object consists of DDS entities (topics, a publisher or subscriber   *)
(* around the endpoint, the reader or writer), its parts.                  *)
(*                                                                         *)
(* owned is the C++ side: the objects whose destructors will run, in the   *)
(* order of their construction. It is unwound from its end, whether main() *)
(* returns or throws. entities is the DDS side. In FastDDS the two differ: *)
(* an object holds raw pointers, so that a constructor that throws leaves  *)
(* its entities behind; in CycloneDDS the parts are members that go with   *)
(* it. The workers themselves are in PluginExec, the choice of publishers  *)
(* in PublisherSetup and the discovery in EcatDiscovery.                   *)
(*                                                                         *)
(* Operators named Mutant... are wrong variants of the operator after      *)
(* them. No specification uses them: they show which property notices.     *)
(***************************************************************************)
EXTENDS Naturals, SequencesExt

CONSTANT Publishers  \* the publishers of the robot, in the order of init()

ASSUME PublishersAssumption ==
    /\ Publishers \in Seq(STRING \ {"commands", "server", "bridge", "participant"})
    /\ IsInjective(Publishers)

VARIABLES
    plugin,          \* which of the two DDS plugins this is
    declare_to_ros,  \* DdsConfig::declare_to_ros
    pc,              \* where main() is
    node,            \* the adapter being set up
    ok,              \* DDSAdapterSubscribers::init() of CycloneDDS: its result
    owned,           \* the constructed objects, <<node, object>>
    entities,        \* the DDS entities that exist, <<node, object, part>>
    gids,            \* RosGraphState of each bridge: the endpoints it knows
    graph,           \* the sample on ros_discovery_info of each node
    exit             \* what main() returns

vars == <<plugin, declare_to_ros, pc, node, ok, owned, entities, gids, graph, exit>>

Node == {"rx", "tx", "service"}

(* The order of the adapters in main().                                    *)
NextNode == [rx |-> "tx", tx |-> "service"]

Endpoints(n) ==
    CASE n = "rx" -> Publishers
      [] n = "tx" -> <<"commands">>
      [] n = "service" -> <<"server">>

(* The parts of an object in the order they are created ...                *)
Parts(o) ==
    CASE o = "participant" -> <<"participant">>
      [] o = "bridge" -> IF plugin = "fastdds" THEN <<"topic", "group", "endpoint">>
                                               ELSE <<"group", "topic", "endpoint">>
      [] o = "server" ->
             LET topics == <<"request_topic", "reply_topic">>
                 groups == <<"subscriber", "publisher">>
             IN  (IF plugin = "fastdds" THEN topics \o groups ELSE groups \o topics)
                     \o <<"reader", "writer">>
      [] OTHER -> <<"topic", "group", "endpoint">>

(* ... and in the order its destructor deletes them.                       *)
MutantDeletes(o) ==
    IF o = "server" THEN Parts(o) ELSE Reverse(Parts(o))
Deletes(o) ==
    CASE plugin = "fastdds" /\ o = "server" ->
             <<"reader", "writer", "subscriber", "publisher", "request_topic", "reply_topic">>
      [] plugin = "cyclonedds" /\ o \notin {"server", "bridge", "participant"} ->
             <<"endpoint", "topic", "group">>
      [] OTHER -> Reverse(Parts(o))

(* A reader or writer uses its topic and its group, and nothing uses it.   *)
Uses(part) ==
    CASE part = "endpoint" -> {"topic", "group"}
      [] part = "reader" -> {"subscriber", "request_topic"}
      [] part = "writer" -> {"publisher", "reply_topic"}
      [] OTHER -> {}

(* An entity that is in use is not deleted: the call returns an error,     *)
(* which nobody looks at. Gone is what has no user, or none that was not   *)
(* deleted before it.                                                      *)
Deleted(o, existing) ==
    {Deletes(o)[i] : i \in {k \in DOMAIN Deletes(o) :
        \A user \in existing :
            Deletes(o)[k] \in Uses(user) => \E j \in 1..(k - 1) : Deletes(o)[j] = user}}

Of(n, o) == {<<n, o, part>> : part \in ToSet(Parts(o))}

(* What is left of the entities after the destructor of an object. With a  *)
(* participant goes whatever it still contains.                            *)
Destroyed(n, o) ==
    IF o = "participant"
    THEN {e \in entities : e[1] # n}
    ELSE LET existing == {part \in ToSet(Parts(o)) : <<n, o, part>> \in entities}
         IN  entities \ {<<n, o, part>> : part \in Deleted(o, existing)}

(* Everything a ROS node should be told about: readers and writers of the  *)
(* adapter, not the bridge's own.                                          *)
Connectables(n) ==
    CASE n = "rx" -> [i \in DOMAIN Publishers |-> <<"rx", Publishers[i], "endpoint">>]
      [] n = "tx" -> << <<"tx", "commands", "endpoint">> >>
      [] n = "service" -> << <<"service", "server", "reader">>,
                             <<"service", "server", "writer">> >>

EndpointsOf(n) == ToSet(Connectables(n)) \cap entities

Init ==
    /\ plugin \in {"cyclonedds", "fastdds"}
    /\ declare_to_ros \in BOOLEAN
    /\ pc = "config"
    /\ node = "rx"
    /\ ok = TRUE
    /\ owned = << >>
    /\ entities = {}
    /\ gids = [n \in Node |-> {}]
    /\ graph = [n \in Node |-> {}]
    /\ exit = "none"

settings == <<plugin, declare_to_ros>>
bridges == <<gids, graph>>

-----------------------------------------------------------------------------
(* main(): the ways out                                                    *)

(* return or catch: the scopes are left with the exit code decided.        *)
Leave(code) ==
    /\ pc' = "unwinding"
    /\ exit' = code

MutantThrow ==
    /\ pc' = "unwinding"
    /\ UNCHANGED exit
Throw == Leave("failure")

(* A null pointer is used: the process dies here.                          *)
Crash ==
    /\ pc' = "crashed"
    /\ UNCHANGED exit

-----------------------------------------------------------------------------
(* main(): up to the adapters                                              *)

(* Options and configuration, then EcatDiscover; both can end main()       *)
(* before there is any entity.                                             *)
Configure ==
    /\ pc = "config"
    /\ \/ pc' = "discover" /\ UNCHANGED exit
       \/ Leave("success")  \* --help
       \/ Throw
    /\ UNCHANGED <<settings, node, ok, owned, entities, bridges>>

Discover ==
    /\ pc = "discover"
    /\ \/ pc' = "participants" /\ UNCHANGED exit
       \/ Leave("failure")  \* start() found no shared memory
    /\ UNCHANGED <<settings, node, ok, owned, entities, bridges>>

CreateParticipant ==
    /\ pc = "participants"
    /\ owned' = Append(owned, <<node, "participant">>)
    /\ entities' = entities \cup Of(node, "participant")
    /\ IF node = "service"
       THEN pc' = "endpoints" /\ node' = "rx"
       ELSE pc' = "participants" /\ node' = NextNode[node]
    /\ UNCHANGED <<settings, ok, bridges, exit>>

CreateParticipantFails ==
    /\ pc = "participants"
    /\ Throw
    /\ UNCHANGED <<settings, node, ok, owned, entities, bridges>>

-----------------------------------------------------------------------------
(* The endpoint objects                                                    *)

(* The first of a list that is wanted, if there is one.                    *)
FirstOf(list, wanted) ==
    {list[i] : i \in {k \in DOMAIN list :
        list[k] \in wanted /\ \A j \in 1..(k - 1) : list[j] \notin wanted}}

(* The endpoint objects to create: init() makes one after the other, and   *)
(* the subscriber that failed is not tried again.                          *)
Owns(o) == <<node, o>> \in ToSet(owned)
Pending == {o \in ToSet(Endpoints(node)) : ~Owns(o)}
NextEndpoint == FirstOf(Endpoints(node), Pending)

(* The sets of parts that exist after a step of several failed in between. *)
Partial(o) == {ToSet(made) : made \in Prefixes(Front(Parts(o)))}

Create(o, made) ==
    /\ owned' = Append(owned, <<node, o>>)
    /\ entities' = entities \cup {<<node, o, part>> : part \in made}

CreateEndpoint ==
    /\ pc = "endpoints"
    /\ \E o \in NextEndpoint : Create(o, ToSet(Parts(o)))
    /\ UNCHANGED <<settings, pc, node, ok, bridges, exit>>

(* All endpoints are there, and init_ros_graph_bridge() is called.         *)
EndpointsDone ==
    /\ pc = "endpoints"
    /\ Pending = {}
    /\ pc' = "bridge"
    /\ UNCHANGED <<settings, node, ok, owned, entities, bridges, exit>>

(* create_publisher(): init() returned false. The publisher is registered  *)
(* by then, so that what it has created goes with the adapter.             *)
CreatePublisherFails ==
    /\ pc = "endpoints" /\ node = "rx"
    /\ \E o \in NextEndpoint : \E made \in Partial(o) : Create(o, made)
    /\ Throw
    /\ UNCHANGED <<settings, node, ok, bridges>>

(* DDSAdapterPublishers::init() returns false: more devices than it can do.*)
InitPublishersRefuses ==
    /\ pc = "endpoints" /\ node = "rx"
    /\ Throw
    /\ UNCHANGED <<settings, node, ok, owned, entities, bridges>>

(* register_subscriber(): the subscriber goes at the return. Both plugins  *)
(* go on, and only CycloneDDS keeps in mind that it failed.                *)
RegisterSubscriberFails ==
    /\ pc = "endpoints" /\ node = "tx"
    /\ Pending # {}
    /\ ok' = (plugin = "fastdds")
    /\ pc' = "bridge"
    /\ UNCHANGED <<settings, node, owned, entities, bridges, exit>>

(* ServiceServer of CycloneDDS: a member's constructor throws, and the     *)
(* members before it are destroyed.                                        *)
CreateServerThrows ==
    /\ pc = "endpoints" /\ node = "service" /\ plugin = "cyclonedds"
    /\ Pending # {}
    /\ Throw
    /\ UNCHANGED <<settings, node, ok, owned, entities, bridges>>

(* ServiceServer of FastDDS tests none of its pointers. Without a topic or *)
(* a group it dies at once, without a reader or a writer it goes on.       *)
CreateServerUnchecked ==
    /\ pc = "endpoints" /\ node = "service" /\ plugin = "fastdds"
    /\ Pending # {}
    /\ \E missing \in (SUBSET ToSet(Parts("server"))) \ {{}} :
           IF missing \subseteq {"reader", "writer"}
           THEN /\ Create("server", ToSet(Parts("server")) \ missing)
                /\ pc' = "bridge"
                /\ UNCHANGED exit
           ELSE /\ Crash
                /\ UNCHANGED <<owned, entities>>
    /\ UNCHANGED <<settings, node, ok, bridges>>

-----------------------------------------------------------------------------
(* The ROS graph bridge                                                    *)

(* The adapter is set up: on to the next one, or to PluginExec. The        *)
(* subscribers of CycloneDDS report their failure only now.                *)
AdapterDone ==
    CASE ~ok -> Throw /\ UNCHANGED node
      [] ok /\ node = "service" -> pc' = "running" /\ UNCHANGED <<node, exit>>
      [] ok /\ node # "service" ->
             pc' = "endpoints" /\ node' = NextNode[node] /\ UNCHANGED exit

NoBridge ==
    /\ pc = "bridge"
    /\ ~declare_to_ros
    /\ AdapterDone
    /\ UNCHANGED <<settings, ok, owned, entities, bridges>>

(* The bridge is a member of the adapter that is destroyed before the      *)
(* endpoints it tells about.                                               *)
MutantOwnBridge ==
    LET below == SelectSeq(owned, LAMBDA x : x[1] # node \/ x[2] = "participant")
        above == SelectSeq(owned, LAMBDA x : x[1] = node /\ x[2] # "participant")
    IN  below \o <<<<node, "bridge">>>> \o above
OwnBridge == Append(owned, <<node, "bridge">>)

(* publish_locked(): the sample holds every GID the bridge knows. It is    *)
(* the only one that is kept (TRANSIENT_LOCAL, KEEP_LAST 1), for those who *)
(* come later too, as long as its writer exists.                           *)
Publish(known) ==
    /\ gids' = [gids EXCEPT ![node] = known]
    /\ graph' = [graph EXCEPT ![node] = known]

CreateBridge ==
    /\ pc = "bridge"
    /\ declare_to_ros
    /\ owned' = OwnBridge
    /\ entities' = entities \cup Of(node, "bridge")
    /\ Publish({})
    /\ pc' = "connect"
    /\ UNCHANGED <<settings, node, ok, exit>>

(* Its constructor throws, at one of the parts or at the first publish().  *)
(* The destructor does not run: FastDDS is left with what was created.     *)
CreateBridgeThrows ==
    /\ pc = "bridge"
    /\ declare_to_ros
    /\ IF plugin = "fastdds"
       THEN \E made \in Partial("bridge") \cup {ToSet(Parts("bridge"))} :
                entities' = entities \cup {<<node, "bridge", part>> : part \in made}
       ELSE UNCHANGED entities
    /\ Throw
    /\ UNCHANGED <<settings, node, ok, owned, bridges>>

(* connect_ros_graph_bridge() of each connectable; the server adds its     *)
(* reader, then its writer. A null pointer is passed over.                 *)
Unknown == EndpointsOf(node) \ gids[node]
NextUnknown == FirstOf(Connectables(node), Unknown)

(* add_writer(), add_reader(): remember the GID, then publish all.         *)
AddEndpoint(e) == Publish(gids[node] \cup {e})

Connect ==
    /\ pc = "connect"
    /\ \E e \in NextUnknown : AddEndpoint(e)
    /\ UNCHANGED <<settings, pc, node, ok, owned, entities, exit>>

(* get_guid() fails, or the write does after the GID was added.            *)
ConnectThrows ==
    /\ pc = "connect"
    /\ \E e \in NextUnknown :
           \/ plugin = "cyclonedds" /\ UNCHANGED gids
           \/ gids' = [gids EXCEPT ![node] = @ \cup {e}]
    /\ Throw
    /\ UNCHANGED <<settings, node, ok, owned, entities, graph>>

Connected ==
    /\ pc = "connect"
    /\ Unknown = {}
    /\ AdapterDone
    /\ UNCHANGED <<settings, ok, owned, entities, bridges>>

-----------------------------------------------------------------------------
(* PluginExec and the end of main()                                        *)

(* The service's worker answers a request without a reply writer.          *)
AnswerCrashes ==
    /\ pc = "running"
    /\ <<"service", "server", "reader">> \in entities
    /\ <<"service", "server", "writer">> \notin entities
    /\ Crash
    /\ UNCHANGED <<settings, node, ok, owned, entities, bridges>>

(* exec.start() returns, also when an adapter could not be started.        *)
ExecReturns ==
    /\ pc = "running"
    /\ Leave("success")
    /\ UNCHANGED <<settings, node, ok, owned, entities, bridges>>

(* The destructor of the object constructed last. What a bridge has        *)
(* published goes with its writer.                                         *)
Unwind ==
    LET n == Last(owned)[1]
        o == Last(owned)[2]
    IN  /\ pc = "unwinding"
        /\ owned # << >>
        /\ owned' = Front(owned)
        /\ entities' = Destroyed(n, o)
        /\ IF o = "bridge"
           THEN /\ gids' = [gids EXCEPT ![n] = {}]
                /\ graph' = [graph EXCEPT ![n] = {}]
           ELSE UNCHANGED bridges
        /\ UNCHANGED <<settings, pc, node, ok, exit>>

Return ==
    /\ pc = "unwinding"
    /\ owned = << >>
    /\ pc' = "done"
    /\ UNCHANGED <<settings, node, ok, owned, entities, bridges, exit>>

Next ==
    \/ Configure \/ Discover
    \/ CreateParticipant \/ CreateParticipantFails
    \/ CreateEndpoint \/ EndpointsDone
    \/ CreatePublisherFails \/ InitPublishersRefuses
    \/ RegisterSubscriberFails
    \/ CreateServerThrows \/ CreateServerUnchecked
    \/ NoBridge \/ CreateBridge \/ CreateBridgeThrows
    \/ Connect \/ ConnectThrows \/ Connected
    \/ AnswerCrashes \/ ExecReturns \/ Unwind \/ Return

Spec == Init /\ [][Next]_vars

-----------------------------------------------------------------------------
Object == [node: Node, name: {"participant", "bridge", "commands", "server"}
                                \cup ToSet(Publishers)]
Entity == UNION {Of(x.node, x.name) : x \in Object}

(* No object is constructed twice, and main() has an exit code exactly     *)
(* when it leaves its scopes.                                              *)
TypeOK ==
    /\ plugin \in {"cyclonedds", "fastdds"}
    /\ declare_to_ros \in BOOLEAN /\ ok \in BOOLEAN
    /\ pc \in {"config", "discover", "participants", "endpoints", "bridge",
               "connect", "running", "unwinding", "done", "crashed"}
    /\ node \in Node
    /\ ToSet(owned) \subseteq {<<x.node, x.name>> : x \in Object}
    /\ IsInjective(owned)
    /\ entities \subseteq Entity
    /\ gids \in [Node -> SUBSET Entity] /\ graph \in [Node -> SUBSET Entity]
    /\ exit \in {"none", "success", "failure"}
    /\ exit # "none" <=> pc \in {"unwinding", "done"}

(***************************************************************************)
(* The ROS graph tells the truth. It never names an endpoint that does not *)
(* exist: not while adapters are set up, not after a failure half-way and  *)
(* not while they are destroyed, although remove_writer() and              *)
(* remove_reader() are never called: the sample must go before the         *)
(* endpoints do. And when the workers start, it names every reader and     *)
(* writer there is, whatever failed on the way: in CycloneDDS all of them, *)
(* in FastDDS possibly without the commands' reader or an endpoint of the  *)
(* service. With declare_to_ros off it names none.                         *)
(***************************************************************************)
AdvertisedIsTrue ==
    \A n \in Node :
        /\ graph[n] \subseteq entities
        /\ ~declare_to_ros => graph[n] = {}
        /\ pc = "running" =>
               /\ declare_to_ros => graph[n] = EndpointsOf(n)
               /\ plugin = "cyclonedds" \/ n = "rx"
                      => EndpointsOf(n) = ToSet(Connectables(n))

(***************************************************************************)
(* "Participant owners precede adapters so DDS entities are destroyed      *)
(* first" (main() of FastDDS): on every way out an object's entities go    *)
(* with it, none outlives its participant, and main() leaves nothing. The  *)
(* one exception is a FastDDS bridge whose constructor threw: its entities *)
(* stay until the participant deletes what it contains.                    *)
(***************************************************************************)
NothingIsLeft ==
    \A e \in entities :
        LET n == e[1]
            o == e[2]
        IN  /\ <<n, "participant">> \in ToSet(owned)
            /\ \/ <<n, o>> \in ToSet(owned)
               \/ plugin = "fastdds" /\ o = "bridge" /\ exit = "failure"

=============================================================================
