------------------------ MODULE PluginStartup_proofs ------------------------
(***************************************************************************)
(* Proofs about main() of the DDS plugins, for every list of publishers:   *)
(* its type invariant, that the ROS graph only names what exists and, when *)
(* the workers start, all of it, and that no entity outlives the object or *)
(* the participant it belongs to.                                          *)
(***************************************************************************)
EXTENDS PluginStartup, TLAPS

-----------------------------------------------------------------------------
(* The inductive invariant                                                 *)

Name == {"participant", "bridge", "commands", "server"} \cup ToSet(Publishers)

(* The parts of an object, without the order in which they are created.    *)
PartSet(o) ==
    CASE o = "participant" -> {"participant"}
      [] o = "server" -> {"request_topic", "reply_topic", "subscriber", "publisher",
                          "reader", "writer"}
      [] OTHER -> {"topic", "group", "endpoint"}

OfSet(n, o) == {<<n, o, part>> : part \in PartSet(o)}
AllEntities == UNION {OfSet(x[1], x[2]) : x \in Node \X Name}

(* The adapters that main() has set up before it comes to n.               *)
Earlier(n) ==
    CASE n = "rx" -> {}
      [] n = "tx" -> {"rx"}
      [] n = "service" -> {"rx", "tx"}

Ready(n) == <<n, "participant">> \in ToSet(owned)
Bridged(n) == <<n, "bridge">> \in ToSet(owned)

KnownPlugin == plugin \in {"cyclonedds", "fastdds"}

(* TypeOK, in terms of the sets above.                                     *)
Control ==
    /\ declare_to_ros \in BOOLEAN /\ ok \in BOOLEAN
    /\ pc \in {"config", "discover", "participants", "endpoints", "bridge",
               "connect", "running", "unwinding", "done", "crashed"}
    /\ node \in Node
    /\ exit \in {"none", "success", "failure"}
    /\ exit # "none" <=> pc \in {"unwinding", "done"}

Types ==
    /\ KnownPlugin
    /\ Control
    /\ owned \in Seq(Node \X Name)
    /\ entities \subseteq AllEntities
    /\ gids \in [Node -> SUBSET AllEntities] /\ graph \in [Node -> SUBSET AllEntities]

(* How far the construction has come.                                      *)
Progress ==
    /\ pc \in {"config", "discover"} => node = "rx" /\ owned = << >>
    /\ pc = "participants" =>
           ToSet(owned) = {<<m, "participant">> : m \in Earlier(node)}
    /\ pc \in {"endpoints", "bridge", "connect", "running"} =>
           \A m \in Node : Ready(m)
    /\ pc \in {"endpoints", "bridge", "connect"} =>
           \A x \in ToSet(owned) : node \in Earlier(x[1]) => x[2] = "participant"
    /\ pc \in {"endpoints", "bridge"} => ~Bridged(node)
    /\ pc = "connect" => Bridged(node) /\ graph[node] = gids[node]

(* Nothing of an adapter is constructed after its bridge, so that the      *)
(* bridge is the first of them to be destroyed.                            *)
BridgeLast ==
    \A i, j \in DOMAIN owned :
        i < j /\ owned[i][2] = "bridge" => owned[j][1] # owned[i][1]

(* What a bridge knows exists, and only a bridge that is alive knows any.  *)
KnownExists ==
    \A n \in Node :
        /\ graph[n] \subseteq gids[n]
        /\ gids[n] \subseteq EndpointsOf(n)
        /\ gids[n] # {} => Bridged(n)
        /\ Bridged(n) => declare_to_ros

(* The adapter n is complete: advertised, and with every endpoint where a  *)
(* failure does not go unnoticed.                                          *)
Complete(n) ==
    /\ declare_to_ros => graph[n] = EndpointsOf(n)
    /\ plugin = "cyclonedds" \/ n = "rx" => EndpointsOf(n) = ToSet(Connectables(n))

(* What has been set up, and how much of the adapter in hand.              *)
SetUp ==
    /\ pc = "running" => \A n \in Node : Complete(n)
    /\ pc \in {"endpoints", "bridge", "connect"} => \A n \in Earlier(node) : Complete(n)
    /\ pc = "endpoints" =>
           \A o \in ToSet(Endpoints(node)) : Owns(o) => OfSet(node, o) \subseteq entities
    /\ pc \in {"bridge", "connect"} /\ ok /\ (plugin = "cyclonedds" \/ node = "rx") =>
           ToSet(Connectables(node)) \subseteq entities

IInv ==
    /\ Types
    /\ IsInjective(owned)
    /\ NothingIsLeft
    /\ Progress
    /\ BridgeLast
    /\ KnownExists
    /\ SetUp

-----------------------------------------------------------------------------
(* The tables of objects and parts                                         *)

(* No publisher has the name of one of the other objects.                  *)
LEMMA PublisherNames ==
    \A o \in ToSet(Publishers) : o \notin {"commands", "server", "bridge", "participant"}
<1> DEFINE S == STRING \ {"commands", "server", "bridge", "participant"}
<1>1. \A o \in S : o \notin {"commands", "server", "bridge", "participant"}
  OBVIOUS
<1>2. Publishers \in Seq(S)
  BY PublishersAssumption
<1> HIDE DEF S
<1>3. \A i \in DOMAIN Publishers : Publishers[i] \in S
  BY <1>2
<1> QED
  BY <1>1, <1>3 DEF ToSet

(* Two lists of entities, one after the other.                             *)
LEMMA ListsOfTwo ==
    ASSUME NEW a, NEW b, NEW c, NEW d
    PROVE  <<a, b>> \o <<c, d>> = <<a, b, c, d>>
<1> DEFINE p == <<a, b>> \o <<c, d>>
<1>1. PICK S : S = {a, b, c, d}
  OBVIOUS
<1>2. p \in Seq(S) /\ Len(p) = 4 /\ p[1] = a /\ p[2] = b /\ p[3] = c /\ p[4] = d
  BY <1>1
<1> HIDE DEF p
<1>3. p = <<a, b, c, d>>
  BY <1>2
<1> QED
  BY <1>3 DEF p

LEMMA ListsOfFourAndTwo ==
    ASSUME NEW a, NEW b, NEW c, NEW d, NEW e, NEW f
    PROVE  <<a, b, c, d>> \o <<e, f>> = <<a, b, c, d, e, f>>
<1> DEFINE p == <<a, b, c, d>> \o <<e, f>>
<1>1. PICK S : S = {a, b, c, d, e, f}
  OBVIOUS
<1>2. /\ p \in Seq(S) /\ Len(p) = 6
      /\ p[1] = a /\ p[2] = b /\ p[3] = c /\ p[4] = d /\ p[5] = e /\ p[6] = f
  BY <1>1
<1> HIDE DEF p
<1>3. p = <<a, b, c, d, e, f>>
  BY <1>2
<1> QED
  BY <1>3 DEF p

(* The six parts of a service server, in the order of each plugin.         *)
LEMMA ServerParts ==
    /\ plugin = "fastdds" =>
           Parts("server") = <<"request_topic", "reply_topic", "subscriber", "publisher",
                               "reader", "writer">>
    /\ plugin # "fastdds" =>
           Parts("server") = <<"subscriber", "publisher", "request_topic", "reply_topic",
                               "reader", "writer">>
<1> DEFINE topics == <<"request_topic", "reply_topic">>
           groups == <<"subscriber", "publisher">>
           ends == <<"reader", "writer">>
<1>1. Parts("server")
        = (IF plugin = "fastdds" THEN topics \o groups ELSE groups \o topics) \o ends
  BY Zenon DEF Parts
<1> DEFINE first == <<"request_topic", "reply_topic", "subscriber", "publisher">>
           other == <<"subscriber", "publisher", "request_topic", "reply_topic">>
<1>2. topics \o groups = first /\ groups \o topics = other
  BY ListsOfTwo, Zenon
<1>3. first \o ends = <<"request_topic", "reply_topic", "subscriber", "publisher",
                        "reader", "writer">>
  <2> \A a, b, c, d, e, f : <<a, b, c, d>> \o <<e, f>> = <<a, b, c, d, e, f>>
    BY ListsOfFourAndTwo
  <2> QED
    OBVIOUS
<1>4. other \o ends = <<"subscriber", "publisher", "request_topic", "reply_topic",
                        "reader", "writer">>
  <2> \A a, b, c, d, e, f : <<a, b, c, d>> \o <<e, f>> = <<a, b, c, d, e, f>>
    BY ListsOfFourAndTwo
  <2> QED
    OBVIOUS
<1> HIDE DEF topics, groups, ends, first, other
<1> QED
  BY <1>1, <1>2, <1>3, <1>4

(* Both plugins build an object of the same parts.                         *)
LEMMA PartsAre ==
    ASSUME KnownPlugin, NEW o
    PROVE  ToSet(Parts(o)) = PartSet(o)
<1>1. CASE o = "participant"
  BY <1>1 DEF Parts, PartSet, ToSet
<1>2. CASE o = "bridge"
  BY <1>2 DEF Parts, PartSet, ToSet, KnownPlugin
<1>3. CASE o = "server"
  BY <1>3, ServerParts DEF PartSet, ToSet
<1>4. CASE o \notin {"participant", "bridge", "server"}
  BY <1>4 DEF Parts, PartSet, ToSet
<1> QED
  BY <1>1, <1>2, <1>3, <1>4

LEMMA OfIs ==
    ASSUME KnownPlugin, NEW n, NEW o
    PROVE  Of(n, o) = OfSet(n, o)
BY PartsAre DEF Of, OfSet

LEMMA EntityIs == KnownPlugin => Entity = AllEntities
<1> SUFFICES ASSUME KnownPlugin
             PROVE  Entity = AllEntities
  OBVIOUS
<1>1. ASSUME NEW x \in Object
      PROVE  /\ <<x.node, x.name>> \in Node \X Name
             /\ Of(x.node, x.name) = OfSet(<<x.node, x.name>>[1], <<x.node, x.name>>[2])
  BY <1>1, OfIs DEF Object, Name
<1>2. ASSUME NEW x \in Node \X Name
      PROVE  /\ [node |-> x[1], name |-> x[2]] \in Object
             /\ OfSet(x[1], x[2]) = Of(x[1], x[2])
  BY <1>2, OfIs DEF Object, Name
<1>3. Entity \subseteq AllEntities
  BY <1>1 DEF Entity, AllEntities
<1>4. AllEntities \subseteq Entity
  <2> SUFFICES ASSUME NEW x \in Node \X Name, NEW e \in OfSet(x[1], x[2])
               PROVE  e \in Entity
    BY DEF AllEntities
  <2>1. PICK y \in Object : y = [node |-> x[1], name |-> x[2]]
    BY <1>2
  <2>2. e \in Of(y.node, y.name)
    BY <1>2, <2>1
  <2> QED
    BY <2>2 DEF Entity
<1> QED
  BY <1>3, <1>4

LEMMA EntityForm ==
    ASSUME NEW e \in AllEntities
    PROVE  \E n \in Node, o \in Name : \E part \in PartSet(o) : e = <<n, o, part>>
BY DEF AllEntities, OfSet
LEMMA Backwards ==
    /\ \A a, b, c : Reverse(<<a, b, c>>) = <<c, b, a>>
    /\ \A a, b, c, d, e, f : Reverse(<<a, b, c, d, e, f>>) = <<f, e, d, c, b, a>>
BY DEF Reverse

(* Each destructor deletes the users of a part before the part.            *)
LEMMA DeletesAre ==
    ASSUME KnownPlugin, NEW o, o # "participant"
    PROVE  IF o = "server"
           THEN Deletes(o) \in {<<"reader", "writer", "subscriber", "publisher",
                                  "request_topic", "reply_topic">>,
                                <<"writer", "reader", "reply_topic", "request_topic",
                                  "publisher", "subscriber">>}
           ELSE Deletes(o) \in {<<"endpoint", "group", "topic">>,
                                <<"endpoint", "topic", "group">>}
<1>1. CASE plugin = "fastdds" /\ o = "server"
  BY <1>1 DEF Deletes
<1>2. CASE plugin = "cyclonedds" /\ o = "server"
  <2>1. Deletes(o) = Reverse(Parts("server"))
    BY <1>2, Zenon DEF Deletes
  <2>2. Parts("server") = <<"subscriber", "publisher", "request_topic", "reply_topic",
                            "reader", "writer">>
    BY <1>2, ServerParts
  <2>3. Reverse(<<"subscriber", "publisher", "request_topic", "reply_topic",
                  "reader", "writer">>)
          = <<"writer", "reader", "reply_topic", "request_topic", "publisher", "subscriber">>
    BY Backwards
  <2> QED
    BY <1>2, <2>1, <2>2, <2>3
<1>3. CASE o = "bridge"
  <2>1. Deletes(o) = Reverse(Parts(o))
    BY <1>3, Zenon DEF Deletes
  <2>2. Parts(o) \in {<<"topic", "group", "endpoint">>, <<"group", "topic", "endpoint">>}
    BY <1>3 DEF Parts
  <2>3. Reverse(Parts(o)) \in {<<"endpoint", "group", "topic">>,
                               <<"endpoint", "topic", "group">>}
    BY <2>2, Backwards
  <2> QED
    BY <1>3, <2>1, <2>3
<1>4. CASE plugin = "cyclonedds" /\ o \notin {"server", "bridge"}
  BY <1>4 DEF Deletes
<1>5. CASE plugin = "fastdds" /\ o \notin {"server", "bridge"}
  <2>1. Deletes(o) = Reverse(Parts(o))
    BY <1>5 DEF Deletes
  <2>2. Parts(o) = <<"topic", "group", "endpoint">>
    BY <1>5 DEF Parts
  <2>3. Reverse(Parts(o)) = <<"endpoint", "group", "topic">>
    BY <2>2 DEF Reverse
  <2> QED
    BY <1>5, <2>1, <2>3
<1> QED
  BY <1>1, <1>2, <1>3, <1>4, <1>5 DEF KnownPlugin

(* A destructor of anything but a participant deletes all that exists of   *)
(* the object.                                                             *)
LEMMA NothingInUse ==
    ASSUME KnownPlugin, NEW o, o # "participant",
           NEW existing, existing \subseteq PartSet(o)
    PROVE  Deleted(o, existing) = PartSet(o)
<1> DEFINE d == Deletes(o)
           free == {k \in DOMAIN d :
                       \A user \in existing :
                           d[k] \in Uses(user) => \E j \in 1..(k - 1) : d[j] = user}
<1>1. Deleted(o, existing) = {d[k] : k \in free}
  BY DEF Deleted
<1>2. CASE o = "server"
  <2>1. PartSet(o) = {"request_topic", "reply_topic", "subscriber", "publisher",
                      "reader", "writer"}
    BY <1>2 DEF PartSet
  <2>2. \A user \in PartSet(o) : \A part \in Uses(user) :
            \/ user = "reader" /\ part \in {"subscriber", "request_topic"}
            \/ user = "writer" /\ part \in {"publisher", "reply_topic"}
    BY <2>1 DEF Uses
  <2>3. d \in {<<"reader", "writer", "subscriber", "publisher",
                 "request_topic", "reply_topic">>,
               <<"writer", "reader", "reply_topic", "request_topic",
                 "publisher", "subscriber">>}
    BY <1>2, DeletesAre
  <2> HIDE DEF d
  <2>4. /\ DOMAIN d = 1..6
        /\ {d[1], d[2], d[3], d[4], d[5], d[6]} = PartSet(o)
        /\ {d[1], d[2]} = {"reader", "writer"}
    BY <2>1, <2>3
  <2>5. \A k \in 3..6 : d[k] \notin {"reader", "writer"}
    BY <2>3
  <2>6. \A user \in {"reader", "writer"} : \E j \in 1..2 : d[j] = user
    BY <2>4
  <2>7. ASSUME NEW k \in 1..6
        PROVE  k \in free
    <3> SUFFICES ASSUME NEW user \in existing, d[k] \in Uses(user)
                 PROVE  \E j \in 1..(k - 1) : d[j] = user
      BY <2>4, <2>7
    <3>1. user \in {"reader", "writer"} /\ d[k] \notin {"reader", "writer"}
      BY <2>2
    <3>2. k > 2
      BY <2>4, <2>7, <3>1
    <3> QED
      BY <2>6, <3>1, <3>2
  <2>8. {d[k] : k \in 1..6} = PartSet(o)
    BY <2>4
  <2>9. free = 1..6
    BY <2>4, <2>7
  <2> QED
    BY <1>1, <2>8, <2>9
<1>3. CASE o # "server"
  <2>1. PartSet(o) = {"topic", "group", "endpoint"}
    BY <1>3 DEF PartSet
  <2>2. \A user \in PartSet(o) : \A part \in Uses(user) :
            user = "endpoint" /\ part # "endpoint"
    BY <2>1 DEF Uses
  <2>3. d \in {<<"endpoint", "group", "topic">>, <<"endpoint", "topic", "group">>}
    BY <1>3, DeletesAre
  <2> HIDE DEF d
  <2>4. DOMAIN d = 1..3 /\ {d[1], d[2], d[3]} = PartSet(o) /\ d[1] = "endpoint"
    BY <2>1, <2>3
  <2>5. ASSUME NEW k \in 1..3
        PROVE  k \in free
    BY <2>2, <2>4, <2>5
  <2>6. {d[k] : k \in 1..3} = PartSet(o)
    BY <2>4
  <2>7. free = 1..3
    BY <2>4, <2>5
  <2> QED
    BY <1>1, <2>6, <2>7
<1> QED
  BY <1>2, <1>3

(* So that a destructor leaves what is not the object's, and nothing else. *)
LEMMA DestroyedIs ==
    ASSUME KnownPlugin, entities \subseteq AllEntities, NEW n, NEW o
    PROVE  Destroyed(n, o) = {e \in entities :
               IF o = "participant" THEN e[1] # n ELSE ~(e[1] = n /\ e[2] = o)}
<1>1. CASE o = "participant"
  BY <1>1 DEF Destroyed
<1>2. CASE o # "participant"
  <2> DEFINE existing == {part \in ToSet(Parts(o)) : <<n, o, part>> \in entities}
  <2>1. existing \subseteq PartSet(o)
    BY PartsAre
  <2>2. Deleted(o, existing) = PartSet(o)
    BY <1>2, <2>1, NothingInUse
  <2>3. Destroyed(n, o) = entities \ OfSet(n, o)
    BY <1>2, <2>2 DEF Destroyed, OfSet
  <2>4. ASSUME NEW e \in entities
        PROVE  e \in OfSet(n, o) <=> e[1] = n /\ e[2] = o
    <3>1. PICK m \in Node, p \in Name : \E part \in PartSet(p) : e = <<m, p, part>>
      BY <2>4, EntityForm
    <3> QED
      BY <3>1 DEF OfSet
  <2> QED
    BY <1>2, <2>3, <2>4
<1> QED
  BY <1>1, <1>2
(* What a constructor that failed has left behind are parts of the object. *)
LEMMA PartialParts ==
    ASSUME KnownPlugin, NEW o, NEW made \in Partial(o)
    PROVE  made \subseteq PartSet(o)
<1>1. Parts(o) \in Seq(PartSet(o)) /\ Len(Parts(o)) \in Nat \ {0}
  <2>1. CASE o = "server"
    <3>1. PartSet(o) = {"request_topic", "reply_topic", "subscriber", "publisher",
                        "reader", "writer"}
      BY <2>1 DEF PartSet
    <3>2. Parts(o) \in {<<"request_topic", "reply_topic", "subscriber", "publisher",
                          "reader", "writer">>,
                        <<"subscriber", "publisher", "request_topic", "reply_topic",
                          "reader", "writer">>}
      BY <2>1, ServerParts
    <3>3. CASE Parts(o) = <<"request_topic", "reply_topic", "subscriber", "publisher",
                            "reader", "writer">>
      BY <3>1, <3>3
    <3>4. CASE Parts(o) = <<"subscriber", "publisher", "request_topic", "reply_topic",
                            "reader", "writer">>
      BY <3>1, <3>4
    <3> QED
      BY <3>2, <3>3, <3>4
  <2>2. CASE o = "participant"
    <3>1. PartSet(o) = {"participant"} /\ Parts(o) = <<"participant">>
      BY <2>2 DEF PartSet, Parts
    <3> QED
      BY <3>1
  <2>3. CASE o \notin {"server", "participant"}
    <3>1. PartSet(o) = {"topic", "group", "endpoint"}
      BY <2>3 DEF PartSet
    <3>2. Parts(o) \in {<<"topic", "group", "endpoint">>, <<"group", "topic", "endpoint">>}
      BY <2>3 DEF Parts
    <3>3. CASE Parts(o) = <<"topic", "group", "endpoint">>
      BY <3>1, <3>3
    <3>4. CASE Parts(o) = <<"group", "topic", "endpoint">>
      BY <3>1, <3>4
    <3> QED
      BY <3>2, <3>3, <3>4
  <2> QED
    BY <2>1, <2>2, <2>3
<1>2. PICK s \in Seq(PartSet(o)) : s = Parts(o) /\ Len(s) \in Nat \ {0}
  BY <1>1
<1>3. Front(s) \in Seq(PartSet(o))
  BY <1>2 DEF Front
<1>4. PICK t \in Seq(PartSet(o)) : t = Front(s)
  BY <1>3
<1>5. PICK l \in 0..Len(t) : made = ToSet(SubSeq(t, 1, l))
  BY <1>2, <1>4 DEF Partial, Prefixes
<1>6. SubSeq(t, 1, l) \in Seq(PartSet(o))
  BY <1>5
<1> QED
  BY <1>5, <1>6 DEF ToSet

(* What is advertised for a node are parts of its endpoint objects.        *)
LEMMA ConnectableForm ==
    ASSUME NEW n \in Node, NEW e \in ToSet(Connectables(n))
    PROVE  \E o \in ToSet(Endpoints(n)) : e \in OfSet(n, o)
<1>1. CASE n = "rx"
  <2> DEFINE c == [i \in DOMAIN Publishers |-> <<"rx", Publishers[i], "endpoint">>]
  <2>1. Connectables(n) = c /\ Endpoints(n) = Publishers
    BY <1>1 DEF Connectables, Endpoints
  <2>2. PICK i \in DOMAIN Publishers : e = <<n, Publishers[i], "endpoint">>
    BY <1>1, <2>1 DEF ToSet
  <2>3. Publishers[i] \in ToSet(Publishers)
    BY DEF ToSet
  <2>4. "endpoint" \in PartSet(Publishers[i])
    BY <2>3, PublisherNames DEF PartSet
  <2> QED
    BY <2>1, <2>2, <2>3, <2>4 DEF OfSet
<1>2. CASE n = "tx"
  <2>1. Connectables(n) = << <<"tx", "commands", "endpoint">> >>
        /\ Endpoints(n) = <<"commands">>
    BY <1>2 DEF Connectables, Endpoints
  <2>2. e = <<"tx", "commands", "endpoint">> /\ "commands" \in ToSet(Endpoints(n))
    BY <2>1 DEF ToSet
  <2> QED
    BY <1>2, <2>2 DEF OfSet, PartSet
<1>3. CASE n = "service"
  <2>1. Connectables(n) = << <<"service", "server", "reader">>,
                             <<"service", "server", "writer">> >>
        /\ Endpoints(n) = <<"server">>
    BY <1>3 DEF Connectables, Endpoints
  <2>2. /\ e \in {<<"service", "server", "reader">>, <<"service", "server", "writer">>}
        /\ "server" \in ToSet(Endpoints(n))
    BY <2>1 DEF ToSet
  <2> QED
    BY <1>3, <2>2 DEF OfSet, PartSet
<1> QED
  BY <1>1, <1>2, <1>3 DEF Node

LEMMA ConnectableNode ==
    ASSUME NEW n \in Node, NEW e \in ToSet(Connectables(n))
    PROVE  e[1] = n
BY ConnectableForm DEF OfSet

LEMMA EndpointNames ==
    ASSUME NEW n \in Node, NEW o \in ToSet(Endpoints(n))
    PROVE  /\ o \in Name
           /\ o \notin {"participant", "bridge"}
           /\ n = "service" => o = "server"
<1>1. CASE n = "rx"
  BY <1>1, PublisherNames DEF Endpoints, Name
<1>2. CASE n = "tx"
  BY <1>2 DEF Endpoints, Name, ToSet
<1>3. CASE n = "service"
  BY <1>3 DEF Endpoints, Name, ToSet
<1> QED
  BY <1>1, <1>2, <1>3 DEF Node

(* The first of a list that is wanted is wanted.                           *)
LEMMA FirstIsWanted ==
    ASSUME NEW list, NEW wanted
    PROVE  FirstOf(list, wanted) \subseteq wanted
BY DEF FirstOf

LEMMA ServiceEndpoint == ToSet(Endpoints("service")) = {"server"}
<1>1. Endpoints("service") = <<"server">>
  BY DEF Endpoints
<1> QED
  BY <1>1 DEF ToSet

-----------------------------------------------------------------------------
(* The stack of constructed objects                                        *)

LEMMA AppendSet ==
    ASSUME NEW S, NEW s \in Seq(S), NEW x \in S
    PROVE  ToSet(Append(s, x)) = ToSet(s) \cup {x}
<1> DEFINE t == Append(s, x)
<1>1. t \in Seq(S) /\ Len(t) = Len(s) + 1 /\ Len(s) \in Nat
  OBVIOUS
<1>2. \A i \in 1..Len(s) : t[i] = s[i]
  OBVIOUS
<1>3. t[Len(s) + 1] = x
  OBVIOUS
<1> HIDE DEF t
<1>4. ToSet(t) = {t[i] : i \in 1..(Len(s) + 1)} /\ ToSet(s) = {s[i] : i \in 1..Len(s)}
  BY <1>1 DEF ToSet
<1>5. 1..(Len(s) + 1) = 1..Len(s) \cup {Len(s) + 1}
  BY <1>1
<1> QED
  BY <1>2, <1>3, <1>4, <1>5 DEF t

(* An object constructed before the bridge of its adapter.                 *)
LEMMA Pushed ==
    ASSUME owned \in Seq(Node \X Name), IsInjective(owned), BridgeLast,
           NEW n \in Node, NEW o \in Name, <<n, o>> \notin ToSet(owned), ~Bridged(n),
           owned' = Append(owned, <<n, o>>)
    PROVE  /\ owned' \in Seq(Node \X Name)
           /\ IsInjective(owned)'
           /\ BridgeLast'
           /\ ToSet(owned)' = ToSet(owned) \cup {<<n, o>>}
<1> DEFINE len == Len(owned)
<1>1. /\ len \in Nat /\ DOMAIN owned = 1..len
      /\ owned' \in Seq(Node \X Name) /\ DOMAIN owned' = 1..(len + 1)
      /\ \A i \in 1..len : owned'[i] = owned[i] /\ owned[i] \in Node \X Name
      /\ owned'[len + 1] = <<n, o>>
  OBVIOUS
<1> HIDE DEF len
<1>2. \A i \in 1..len : owned[i] # <<n, o>>
  BY <1>1 DEF ToSet
<1>3. IsInjective(owned)'
  BY <1>1, <1>2 DEF IsInjective
<1>4. BridgeLast'
  <2> SUFFICES ASSUME NEW i \in 1..(len + 1), NEW j \in 1..(len + 1), i < j,
                      owned'[i][2] = "bridge"
               PROVE  owned'[j][1] # owned'[i][1]
    BY <1>1 DEF BridgeLast
  <2>1. i \in 1..len /\ owned'[i] = owned[i] /\ owned[i] \in Node \X Name
    BY <1>1
  <2>2. CASE j \in 1..len
    <3>1. owned'[j] = owned[j] /\ i \in DOMAIN owned /\ j \in DOMAIN owned
      BY <1>1, <2>1, <2>2
    <3>2. owned[j][1] # owned[i][1]
      BY <2>1, <3>1 DEF BridgeLast
    <3> QED
      BY <2>1, <3>1, <3>2, Zenon
  <2>3. CASE j = len + 1
    <3>1. owned[i] # <<n, "bridge">>
      BY <1>1, <2>1 DEF Bridged, ToSet
    <3>2. owned[i] = <<owned[i][1], owned[i][2]>>
      BY <2>1
    <3>3. owned'[j][1] = n
      BY <1>1, <2>3
    <3>4. owned[i][1] # n
      BY <2>1, <3>1, <3>2
    <3> QED
      BY <2>1, <3>3, <3>4, Zenon
  <2>4. j \in 1..len \/ j = len + 1
    BY <1>1
  <2> QED
    BY <2>2, <2>3, <2>4, Zenon
<1>5. ToSet(owned)' = ToSet(owned) \cup {<<n, o>>}
  <2>1. PICK x \in Node \X Name : x = <<n, o>>
    OBVIOUS
  <2>2. ToSet(owned') = ToSet(owned) \cup {x}
    BY <2>1, AppendSet
  <2> QED
    BY <2>1, <2>2
<1> QED
  BY <1>1, <1>3, <1>4, <1>5

(* The destructor of the object constructed last.                          *)
LEMMA Popped ==
    ASSUME owned \in Seq(Node \X Name), IsInjective(owned), BridgeLast,
           owned # << >>, owned' = Front(owned)
    PROVE  /\ Last(owned) \in Node \X Name
           /\ Last(owned) \in ToSet(owned)
           /\ owned' \in Seq(Node \X Name)
           /\ IsInjective(owned)'
           /\ BridgeLast'
           /\ ToSet(owned)' = ToSet(owned) \ {Last(owned)}
           /\ Last(owned)[2] # "bridge" => ~Bridged(Last(owned)[1])
<1> DEFINE len == Len(owned)
<1>1. /\ len \in Nat \ {0} /\ DOMAIN owned = 1..len
      /\ owned' \in Seq(Node \X Name) /\ DOMAIN owned' = 1..(len - 1)
      /\ \A i \in 1..(len - 1) : owned'[i] = owned[i]
      /\ \A i \in 1..len : owned[i] \in Node \X Name
      /\ Last(owned) = owned[len]
  BY DEF Front, Last
<1> HIDE DEF len
<1>2. len \in 1..len /\ \A i \in 1..(len - 1) : i \in 1..len /\ i < len
  BY <1>1
<1>3. Last(owned) \in Node \X Name /\ Last(owned) \in ToSet(owned)
  BY <1>1, <1>2 DEF ToSet
<1>4. IsInjective(owned)'
  BY <1>1, <1>2 DEF IsInjective
<1>5. BridgeLast'
  BY <1>1, <1>2 DEF BridgeLast
<1>6. ToSet(owned)' = ToSet(owned) \ {Last(owned)}
  <2>1. \A i \in 1..(len - 1) : owned[i] # owned[len]
    BY <1>1, <1>2 DEF IsInjective
  <2>2. ToSet(owned)' = {owned[i] : i \in 1..(len - 1)}
    BY <1>1 DEF ToSet
  <2>3. ToSet(owned) = {owned[i] : i \in 1..len}
    BY <1>1 DEF ToSet
  <2>4. \A i \in 1..len : i = len \/ i \in 1..(len - 1)
    BY <1>1
  <2> QED
    BY <1>1, <1>2, <2>1, <2>2, <2>3, <2>4
<1>7. ASSUME Last(owned)[2] # "bridge", Bridged(Last(owned)[1])
      PROVE  FALSE
  <2>1. PICK i \in 1..len : owned[i] = <<owned[len][1], "bridge">>
    BY <1>1, <1>7 DEF Bridged, ToSet
  <2>2. i # len
    BY <1>1, <1>7, <2>1
  <2>3. i \in DOMAIN owned /\ len \in DOMAIN owned /\ i < len
    BY <1>1, <1>2, <2>2
  <2>4. owned[i][2] = "bridge" /\ owned[i][1] = owned[len][1]
    BY <2>1
  <2> QED
    BY <2>3, <2>4 DEF BridgeLast
<1> QED
  BY <1>1, <1>3, <1>4, <1>5, <1>6, <1>7
-----------------------------------------------------------------------------
(* What the steps have in common                                           *)

(* On the way out nothing is promised about the adapters any more.         *)
LEMMA Ending ==
    ASSUME pc' \in {"unwinding", "done", "crashed"}
    PROVE  Progress' /\ SetUp'
BY DEF Progress, SetUp

(* A step of main() that creates and destroys nothing.                     *)
LEMMA Keeps ==
    ASSUME IInv, Control', exit = "failure" => exit' = "failure",
           UNCHANGED <<settings, owned, entities, bridges>>
    PROVE  /\ Types' /\ IsInjective(owned)' /\ NothingIsLeft' /\ BridgeLast' /\ KnownExists'
           /\ \A m \in Node : EndpointsOf(m)' = EndpointsOf(m) /\ Complete(m)' = Complete(m)
<1>1. /\ plugin' = plugin /\ declare_to_ros' = declare_to_ros /\ owned' = owned
      /\ entities' = entities /\ gids' = gids /\ graph' = graph
  BY DEF settings, bridges
<1>2. Types'
  BY <1>1 DEF IInv, Types, KnownPlugin
<1>3. IsInjective(owned)' /\ BridgeLast'
  BY <1>1 DEF IInv, IsInjective, BridgeLast
<1>4. NothingIsLeft'
  BY <1>1 DEF IInv, NothingIsLeft
<1>5. KnownExists'
  BY <1>1 DEF IInv, KnownExists, EndpointsOf, Bridged
<1>6. \A m \in Node : EndpointsOf(m)' = EndpointsOf(m) /\ Complete(m)' = Complete(m)
  BY <1>1 DEF EndpointsOf, Complete
<1> QED
  BY <1>2, <1>3, <1>4, <1>5, <1>6

(* The construction of an object of a participant that is there.           *)
LEMMA Grows ==
    ASSUME IInv, NEW n \in Node, NEW o \in Name, NEW made \in SUBSET PartSet(o),
           Ready(n) \/ o = "participant",
           <<n, o>> \notin ToSet(owned), ~Bridged(n),
           UNCHANGED plugin, exit = "failure" => exit' = "failure",
           owned' = Append(owned, <<n, o>>),
           entities' = entities \cup {<<n, o, part>> : part \in made}
    PROVE  /\ owned' \in Seq(Node \X Name)
           /\ ToSet(owned)' = ToSet(owned) \cup {<<n, o>>}
           /\ entities' \subseteq AllEntities
           /\ IsInjective(owned)' /\ NothingIsLeft' /\ BridgeLast'
           /\ \A m \in Node : EndpointsOf(m) \subseteq EndpointsOf(m)'
           /\ \A m \in Node \ {n} : EndpointsOf(m)' = EndpointsOf(m)
<1>1. /\ owned' \in Seq(Node \X Name)
      /\ IsInjective(owned)'
      /\ BridgeLast'
      /\ ToSet(owned)' = ToSet(owned) \cup {<<n, o>>}
  BY Pushed DEF IInv, Types
<1> DEFINE new == {<<n, o, part>> : part \in made}
<1>2. new \subseteq AllEntities
  <2>1. <<n, o>> \in Node \X Name
    OBVIOUS
  <2>2. PICK x \in Node \X Name : x = <<n, o>>
    BY <2>1
  <2>3. new \subseteq OfSet(x[1], x[2])
    BY <2>2 DEF OfSet
  <2> QED
    BY <2>3 DEF AllEntities
<1>3. entities' \subseteq AllEntities
  BY <1>2 DEF IInv, Types
<1>4. \A e \in new : e[1] = n /\ e[2] = o
  OBVIOUS
<1> HIDE DEF new
<1>5. entities' = entities \cup new
  BY DEF new
<1>6. NothingIsLeft'
  <2> SUFFICES ASSUME NEW e \in entities'
               PROVE  /\ <<e[1], "participant">> \in ToSet(owned)'
                      /\ \/ <<e[1], e[2]>> \in ToSet(owned)'
                         \/ plugin' = "fastdds" /\ e[2] = "bridge" /\ exit' = "failure"
    BY DEF NothingIsLeft
  <2>1. CASE e \in entities
    BY <1>1, <2>1 DEF IInv, NothingIsLeft
  <2>2. CASE e \in new
    BY <1>1, <1>4, <2>2 DEF Ready
  <2> QED
    BY <1>5, <2>1, <2>2
<1>7. \A m \in Node : EndpointsOf(m) \subseteq EndpointsOf(m)'
  BY <1>5 DEF EndpointsOf
<1>8. ASSUME NEW m \in Node \ {n}
      PROVE  EndpointsOf(m)' = EndpointsOf(m)
  <2>1. ToSet(Connectables(m)) \cap new = {}
    BY <1>4, ConnectableNode
  <2> QED
    BY <1>5, <2>1 DEF EndpointsOf
<1> QED
  BY <1>1, <1>3, <1>6, <1>7, <1>8

(* The construction of any object but a bridge.                            *)
LEMMA GrowsUntold ==
    ASSUME IInv, NEW n \in Node, NEW o \in Name, NEW made \in SUBSET PartSet(o),
           Ready(n) \/ o = "participant", o # "bridge",
           <<n, o>> \notin ToSet(owned), ~Bridged(n),
           Control', exit = "failure" => exit' = "failure",
           UNCHANGED <<settings, bridges>>,
           owned' = Append(owned, <<n, o>>),
           entities' = entities \cup {<<n, o, part>> : part \in made}
    PROVE  /\ Types' /\ IsInjective(owned)' /\ NothingIsLeft' /\ BridgeLast' /\ KnownExists'
           /\ ToSet(owned)' = ToSet(owned) \cup {<<n, o>>}
           /\ \A m \in Node \ {n} : Complete(m)' = Complete(m)
<1>1. /\ plugin' = plugin /\ declare_to_ros' = declare_to_ros
      /\ gids' = gids /\ graph' = graph
  BY DEF settings, bridges
<1>2. /\ owned' \in Seq(Node \X Name)
      /\ ToSet(owned)' = ToSet(owned) \cup {<<n, o>>}
      /\ entities' \subseteq AllEntities
      /\ IsInjective(owned)' /\ NothingIsLeft' /\ BridgeLast'
      /\ \A m \in Node : EndpointsOf(m) \subseteq EndpointsOf(m)'
      /\ \A m \in Node \ {n} : EndpointsOf(m)' = EndpointsOf(m)
  BY <1>1, Grows
<1>3. Types'
  BY <1>1, <1>2 DEF IInv, Types, KnownPlugin
<1>4. \A m \in Node : Bridged(m)' <=> Bridged(m)
  BY <1>2 DEF Bridged
<1>5. KnownExists'
  BY <1>1, <1>2, <1>4 DEF IInv, KnownExists
<1>6. \A m \in Node \ {n} : Complete(m)' = Complete(m)
  BY <1>1, <1>2 DEF Complete
<1> QED
  BY <1>2, <1>3, <1>5, <1>6
(* The order of the adapters.                                              *)
LEMMA Order ==
    /\ \A n \in Node : Earlier(n) \subseteq Node \ {n}
    /\ \A n \in Node \ {"service"} :
           /\ NextNode[n] \in Node \ {n}
           /\ Earlier(NextNode[n]) = Earlier(n) \cup {n}
           /\ \A m \in Node : NextNode[n] \in Earlier(m) => n \in Earlier(m)
    /\ Node = Earlier("service") \cup {"service"}
    /\ Earlier("rx") = {}
<1>1. Earlier("rx") = {} /\ Earlier("tx") = {"rx"} /\ Earlier("service") = {"rx", "tx"}
  BY DEF Earlier
<1>2. NextNode["rx"] = "tx" /\ NextNode["tx"] = "service"
  BY DEF NextNode
<1> QED
  BY <1>1, <1>2 DEF Node

(* The end of an adapter's init() and bridge: the next one is untouched.   *)
LEMMA AdapterDoneKeeps ==
    ASSUME IInv, pc \in {"bridge", "connect"}, AdapterDone,
           UNCHANGED <<settings, ok, owned, entities, bridges>>,
           declare_to_ros => graph[node] = EndpointsOf(node)
    PROVE  IInv'
<1>1. /\ node \in Node /\ exit = "none" /\ ok \in BOOLEAN /\ Control
      /\ plugin' = plugin /\ declare_to_ros' = declare_to_ros /\ ok' = ok
      /\ owned' = owned /\ gids' = gids /\ graph' = graph /\ entities' = entities
  BY DEF settings, bridges, IInv, Types, Control
<1>2. CASE ~ok
  <2>1. pc' = "unwinding" /\ exit' = "failure" /\ node' = node
    BY <1>2 DEF AdapterDone, Throw, Leave
  <2>2. Control'
    BY <1>1, <2>1 DEF Control
  <2> QED
    BY <1>1, <2>1, <2>2, Keeps, Ending DEF IInv
<1>3. ASSUME ok
      PROVE  Complete(node)
  BY <1>1, <1>3 DEF Complete, IInv, SetUp, EndpointsOf
<1>4. CASE ok /\ node = "service"
  <2>1. pc' = "running" /\ node' = node /\ exit' = exit
    BY <1>4 DEF AdapterDone
  <2>2. Control'
    BY <1>1, <2>1 DEF Control
  <2>3. /\ Types' /\ IsInjective(owned)' /\ NothingIsLeft' /\ BridgeLast' /\ KnownExists'
        /\ \A m \in Node : Complete(m)' = Complete(m)
    BY <1>1, <2>1, <2>2, Keeps
  <2>4. \A m \in Node : Complete(m)
    BY <1>3, <1>4, Order DEF IInv, SetUp
  <2>5. SetUp'
    BY <2>1, <2>3, <2>4 DEF SetUp
  <2>6. Progress'
    BY <1>1, <2>1 DEF IInv, Progress, Ready
  <2> QED
    BY <2>3, <2>5, <2>6 DEF IInv
<1>5. CASE ok /\ node # "service"
  <2>1. pc' = "endpoints" /\ node' = NextNode[node] /\ exit' = exit
    BY <1>5 DEF AdapterDone
  <2>2. /\ node' \in Node /\ Earlier(node') = Earlier(node) \cup {node}
        /\ \A m \in Node : node' \in Earlier(m) => node \in Earlier(m)
        /\ Earlier(node') \subseteq Node
    BY <1>1, <1>5, <2>1, Order
  <2>3. Control'
    BY <1>1, <2>1, <2>2 DEF Control
  <2>4. /\ Types' /\ IsInjective(owned)' /\ NothingIsLeft' /\ BridgeLast' /\ KnownExists'
        /\ \A m \in Node : Complete(m)' = Complete(m)
    BY <1>1, <2>1, <2>3, Keeps
  <2>5. \A x \in ToSet(owned) : x \in Node \X Name
    BY DEF IInv, Types, ToSet
  <2>6. \A x \in ToSet(owned) : node \in Earlier(x[1]) => x[2] = "participant"
    BY DEF IInv, Progress
  <2>7. \A p : <<node', p>> \in ToSet(owned) => p = "participant"
    <3> SUFFICES ASSUME NEW p, <<node', p>> \in ToSet(owned)
                 PROVE  p = "participant"
      OBVIOUS
    <3>1. PICK x \in ToSet(owned) : x = <<node', p>>
      OBVIOUS
    <3> QED
      BY <2>2, <2>6, <3>1
  <2>8. \A n \in Earlier(node') : Complete(n)'
    BY <1>1, <1>3, <1>5, <2>2, <2>4 DEF IInv, SetUp
  <2>9. \A o \in ToSet(Endpoints(node')) : ~Owns(o)'
    BY <1>1, <2>2, <2>7, EndpointNames DEF Owns
  <2>10. SetUp'
    BY <2>1, <2>8, <2>9 DEF SetUp
  <2>11. \A m \in Node : Ready(m)'
    BY <1>1 DEF IInv, Progress, Ready
  <2>12. ~Bridged(node)'
    BY <1>1, <2>7 DEF Bridged
  <2>13. \A x \in ToSet(owned) : node' \in Earlier(x[1]) => x[2] = "participant"
    BY <2>2, <2>5, <2>6
  <2>14. Progress'
    BY <1>1, <2>1, <2>11, <2>12, <2>13 DEF Progress
  <2> QED
    BY <2>4, <2>10, <2>14 DEF IInv
<1> QED
  BY <1>1, <1>2, <1>4, <1>5
-----------------------------------------------------------------------------
(* The steps of main()                                                     *)

LEMMA InitIInv == Init => IInv
<1> SUFFICES ASSUME Init
             PROVE  IInv
  OBVIOUS
<1>1. Types
  BY DEF Init, Types, KnownPlugin, Control, Node
<1>2. IsInjective(owned) /\ NothingIsLeft /\ BridgeLast
  BY DEF Init, IsInjective, NothingIsLeft, BridgeLast
<1>3. Progress /\ SetUp
  BY DEF Init, Progress, SetUp
<1>4. KnownExists
  <2>1. \A n \in Node : ~Bridged(n)
    BY DEF Init, Bridged, ToSet
  <2> QED
    BY <2>1 DEF Init, KnownExists
<1> QED
  BY <1>1, <1>2, <1>3, <1>4 DEF IInv

(* The steps that only leave: a failure, the end, a crash.                 *)
LEMMA LeavingKeeps ==
    ASSUME IInv, UNCHANGED <<settings, node, ok, owned, entities, bridges>>,
           \/ pc \notin {"unwinding", "done"} /\ Leave("success")
           \/ pc \notin {"unwinding", "done"} /\ Leave("failure")
           \/ pc = "running" /\ Crash
           \/ Return
    PROVE  IInv'
<1>1. Control' /\ (exit = "failure" => exit' = "failure")
  BY DEF IInv, Types, Control, Leave, Crash, Return, settings
<1>2. pc' \in {"unwinding", "done", "crashed"}
  BY DEF Leave, Crash, Return
<1>3. UNCHANGED <<settings, owned, entities, bridges>>
  OBVIOUS
<1> QED
  BY <1>1, <1>2, <1>3, Keeps, Ending DEF IInv

LEMMA StartKeeps ==
    ASSUME IInv, Configure \/ Discover
    PROVE  IInv'
<1>1. UNCHANGED <<settings, node, ok, owned, entities, bridges>>
  BY DEF Configure, Discover
<1>2. CASE Leave("success") \/ Leave("failure")
  BY <1>1, <1>2, LeavingKeeps DEF Configure, Discover
<1>3. CASE pc' \in {"discover", "participants"} /\ UNCHANGED exit
  <2>1. pc \in {"config", "discover"}
    BY DEF Configure, Discover
  <2>2. Control' /\ (exit = "failure" => exit' = "failure")
    BY <1>1, <1>3, <2>1 DEF IInv, Types, Control, settings
  <2>3. /\ node' = "rx" /\ owned' = << >>
    BY <1>1, <2>1 DEF IInv, Progress
  <2>4. ToSet(owned)' = {} /\ Earlier("rx") = {}
    BY <2>3, Order DEF ToSet
  <2>5. Progress' /\ SetUp'
    BY <1>3, <2>3, <2>4 DEF Progress, SetUp
  <2> QED
    BY <1>1, <2>2, <2>5, Keeps DEF IInv
<1> QED
  BY <1>2, <1>3 DEF Configure, Discover, Throw

LEMMA CreateParticipantKeeps ==
    ASSUME IInv, CreateParticipant
    PROVE  IInv'
<1>1. /\ pc = "participants" /\ node \in Node /\ exit' = exit /\ exit = "none" /\ ok' = ok
      /\ owned' = Append(owned, <<node, "participant">>)
      /\ UNCHANGED <<settings, bridges>>
  BY DEF IInv, Types, Control, CreateParticipant
<1>2. ToSet(owned) = {<<m, "participant">> : m \in Earlier(node)}
  BY <1>1 DEF IInv, Progress
<1>3. <<node, "participant">> \notin ToSet(owned) /\ \A m \in Node : ~Bridged(m)
  BY <1>1, <1>2, Order DEF Bridged
<1>4. entities' = entities \cup {<<node, "participant", part>> : part \in PartSet("participant")}
  BY OfIs DEF CreateParticipant, OfSet, IInv, Types
<1>5. /\ pc' \in {"participants", "endpoints"} /\ node' \in Node
  BY <1>1, Order DEF CreateParticipant, Node
<1>6. Control'
  BY <1>1, <1>5 DEF IInv, Types, Control, settings
<1>7. /\ Types' /\ IsInjective(owned)' /\ NothingIsLeft' /\ BridgeLast' /\ KnownExists'
      /\ ToSet(owned)' = ToSet(owned) \cup {<<node, "participant">>}
  <2>1. PICK n \in Node, o \in Name : n = node /\ o = "participant"
    BY <1>1 DEF Name
  <2>2. PICK made \in SUBSET PartSet(o) : made = PartSet(o)
    OBVIOUS
  <2> QED
    BY <1>1, <1>3, <1>4, <1>6, <2>1, <2>2, GrowsUntold
<1>8. ToSet(owned)' = {<<m, "participant">> : m \in Earlier(node) \cup {node}}
  BY <1>2, <1>7
<1>9. CASE node # "service"
  <2>1. pc' = "participants" /\ node' = NextNode[node]
    BY <1>9 DEF CreateParticipant
  <2>2. Progress' /\ SetUp'
    BY <1>1, <1>8, <1>9, <2>1, Order DEF Progress, SetUp
  <2> QED
    BY <1>7, <2>2 DEF IInv
<1>10. CASE node = "service"
  <2>1. pc' = "endpoints" /\ node' = "rx"
    BY <1>10 DEF CreateParticipant
  <2>2. ToSet(owned)' = {<<m, "participant">> : m \in Node}
    BY <1>8, <1>10, Order
  <2>3. /\ \A m \in Node : Ready(m)'
        /\ \A x \in ToSet(owned)' : x[2] = "participant"
        /\ ~Bridged(node)'
    BY <2>2 DEF Ready, Bridged
  <2>4. Progress'
    BY <2>1, <2>3 DEF Progress
  <2>5. \A o \in ToSet(Endpoints("rx")) : ~Owns(o)'
    BY <1>5, <2>1, <2>2, EndpointNames DEF Owns
  <2>6. Earlier(node') = {}
    BY <2>1, Order
  <2>7. SetUp'
    BY <2>1, <2>5, <2>6 DEF SetUp
  <2> QED
    BY <1>7, <2>4, <2>7 DEF IInv
<1> QED
  BY <1>9, <1>10
(* An endpoint object of the adapter in hand is constructed.               *)
LEMMA CreateKeeps ==
    ASSUME IInv, pc = "endpoints", NEW o \in Pending, NEW made \in SUBSET PartSet(o),
           Create(o, made), UNCHANGED <<settings, node, ok, bridges>>, Control'
    PROVE  /\ Types' /\ IsInjective(owned)' /\ NothingIsLeft' /\ BridgeLast' /\ KnownExists'
           /\ ToSet(owned)' = ToSet(owned) \cup {<<node, o>>}
           /\ entities' = entities \cup {<<node, o, part>> : part \in made}
           /\ \A m \in Earlier(node) : Complete(m)' = Complete(m)
           /\ pc' \in {"endpoints", "bridge"} => Progress'
<1>1. /\ node \in Node /\ exit = "none" /\ Ready(node) /\ ~Bridged(node)
  BY DEF IInv, Types, Control, Progress
<1>2. /\ o \in ToSet(Endpoints(node)) /\ <<node, o>> \notin ToSet(owned)
      /\ o \in Name /\ o \notin {"participant", "bridge"}
  BY <1>1, EndpointNames DEF Pending, Owns
<1>3. /\ owned' = Append(owned, <<node, o>>)
      /\ entities' = entities \cup {<<node, o, part>> : part \in made}
  BY DEF Create
<1>4. PICK n \in Node : n = node
  BY <1>1
<1>5. PICK p \in Name : p = o
  BY <1>2
<1>6. /\ Types' /\ IsInjective(owned)' /\ NothingIsLeft' /\ BridgeLast' /\ KnownExists'
      /\ ToSet(owned)' = ToSet(owned) \cup {<<n, p>>}
      /\ \A m \in Node \ {n} : Complete(m)' = Complete(m)
  BY <1>1, <1>2, <1>3, <1>4, <1>5, GrowsUntold
<1>7. \A m \in Earlier(node) : m \in Node \ {n}
  BY <1>1, <1>4, Order
<1>8. ASSUME pc' \in {"endpoints", "bridge"}
      PROVE  Progress'
  <2>1. \A m \in Node : Ready(m)'
    BY <1>6 DEF IInv, Progress, Ready
  <2>2. ~Bridged(node)'
    BY <1>1, <1>2, <1>4, <1>5, <1>6 DEF Bridged
  <2>3. \A x \in ToSet(owned)' : node' \in Earlier(x[1]) => x[2] = "participant"
    BY <1>1, <1>4, <1>5, <1>6, Order DEF IInv, Progress
  <2> QED
    BY <1>8, <2>1, <2>2, <2>3 DEF Progress
<1> QED
  BY <1>3, <1>4, <1>5, <1>6, <1>7, <1>8

LEMMA CreateEndpointKeeps ==
    ASSUME IInv, CreateEndpoint
    PROVE  IInv'
<1>1. /\ pc = "endpoints" /\ pc' = pc /\ node' = node /\ ok' = ok /\ exit' = exit
      /\ UNCHANGED <<settings, node, ok, bridges>>
  BY DEF CreateEndpoint
<1>2. PICK o \in Pending : Create(o, ToSet(Parts(o)))
  BY FirstIsWanted DEF CreateEndpoint, NextEndpoint
<1>3. PICK made \in SUBSET PartSet(o) : made = PartSet(o) /\ Create(o, made)
  BY <1>2, PartsAre DEF IInv, Types
<1>4. Control'
  BY <1>1 DEF IInv, Types, Control, settings
<1>5. /\ Types' /\ IsInjective(owned)' /\ NothingIsLeft' /\ BridgeLast' /\ KnownExists'
      /\ ToSet(owned)' = ToSet(owned) \cup {<<node, o>>}
      /\ entities' = entities \cup {<<node, o, part>> : part \in made}
      /\ \A m \in Earlier(node) : Complete(m)' = Complete(m)
      /\ Progress'
  BY <1>1, <1>3, <1>4, CreateKeeps
<1>6. \A p \in ToSet(Endpoints(node)) : Owns(p)' => OfSet(node, p) \subseteq entities'
  BY <1>1, <1>3, <1>5 DEF IInv, SetUp, Owns, OfSet
<1>7. \A m \in Earlier(node) : Complete(m)'
  BY <1>1, <1>5 DEF IInv, SetUp
<1>8. SetUp'
  BY <1>1, <1>6, <1>7 DEF SetUp
<1> QED
  BY <1>5, <1>8 DEF IInv

LEMMA EndpointsDoneKeeps ==
    ASSUME IInv, EndpointsDone \/ RegisterSubscriberFails
    PROVE  IInv'
<1>1. /\ pc = "endpoints" /\ pc' = "bridge" /\ node' = node /\ exit' = exit
      /\ UNCHANGED <<settings, owned, entities, bridges>>
      /\ plugin' = plugin /\ entities' = entities /\ owned' = owned
      /\ node \in Node /\ exit = "none"
  BY DEF EndpointsDone, RegisterSubscriberFails, settings, IInv, Types, Control
<1>2. Control'
  BY <1>1 DEF IInv, Types, Control, settings, EndpointsDone, RegisterSubscriberFails
<1>3. /\ Types' /\ IsInjective(owned)' /\ NothingIsLeft' /\ BridgeLast' /\ KnownExists'
      /\ \A m \in Node : Complete(m)' = Complete(m)
  BY <1>1, <1>2, Keeps
<1>4. Progress'
  BY <1>1 DEF IInv, Progress, Ready, Bridged
<1>5. \A m \in Earlier(node) : Complete(m)'
  BY <1>1, <1>3, Order DEF IInv, SetUp
<1>6. ASSUME ok', plugin = "cyclonedds" \/ node = "rx"
      PROVE  ToSet(Connectables(node)) \subseteq entities
  <2>1. EndpointsDone
    BY <1>6 DEF RegisterSubscriberFails
  <2>2. \A o \in ToSet(Endpoints(node)) : Owns(o)
    BY <2>1 DEF EndpointsDone, Pending
  <2>3. \A o \in ToSet(Endpoints(node)) : OfSet(node, o) \subseteq entities
    BY <1>1, <2>2 DEF IInv, SetUp
  <2>4. PICK n \in Node : n = node
    BY <1>1
  <2> QED
    BY <2>3, <2>4, ConnectableForm
<1>7. SetUp'
  BY <1>1, <1>5, <1>6 DEF SetUp
<1> QED
  BY <1>3, <1>4, <1>7 DEF IInv

LEMMA CreatePublisherFailsKeeps ==
    ASSUME IInv, CreatePublisherFails
    PROVE  IInv'
<1>1. /\ pc = "endpoints" /\ pc' = "unwinding" /\ exit' = "failure"
      /\ UNCHANGED <<settings, node, ok, bridges>>
  BY DEF CreatePublisherFails, Throw, Leave
<1>2. PICK o \in Pending : \E made \in Partial(o) : Create(o, made)
  BY FirstIsWanted DEF CreatePublisherFails, NextEndpoint
<1>3. PICK made \in SUBSET PartSet(o) : Create(o, made)
  BY <1>2, PartialParts DEF IInv, Types
<1>4. Control'
  BY <1>1 DEF IInv, Types, Control, settings
<1> QED
  BY <1>1, <1>3, <1>4, CreateKeeps, Ending DEF IInv

LEMMA CreateServerUncheckedKeeps ==
    ASSUME IInv, CreateServerUnchecked
    PROVE  IInv'
<1>1. /\ pc = "endpoints" /\ node = "service" /\ plugin = "fastdds" /\ exit = "none"
      /\ UNCHANGED <<settings, node, ok, bridges>>
      /\ node' = node /\ plugin' = plugin
  BY DEF CreateServerUnchecked, settings, IInv, Types, Control
<1>2. PICK missing \in SUBSET ToSet(Parts("server")) :
          IF missing \subseteq {"reader", "writer"}
          THEN /\ Create("server", ToSet(Parts("server")) \ missing)
               /\ pc' = "bridge"
               /\ UNCHANGED exit
          ELSE /\ Crash
               /\ UNCHANGED <<owned, entities>>
  BY DEF CreateServerUnchecked
<1>3. CASE missing \subseteq {"reader", "writer"}
  <2>1. "server" \in Pending
    <3>1. Pending # {} /\ Pending \subseteq {"server"}
      BY <1>1, ServiceEndpoint DEF CreateServerUnchecked, Pending
    <3> QED
      BY <3>1
  <2>2. PICK o \in Pending : o = "server"
    BY <2>1
  <2>3. ToSet(Parts(o)) = PartSet(o)
    BY PartsAre DEF IInv, Types
  <2>4. PICK made \in SUBSET PartSet(o) : Create(o, made)
    BY <1>2, <1>3, <2>2, <2>3
  <2>5. pc' = "bridge" /\ exit' = exit
    BY <1>2, <1>3
  <2>6. Control'
    BY <1>1, <2>5 DEF IInv, Types, Control, settings
  <2>7. /\ Types' /\ IsInjective(owned)' /\ NothingIsLeft' /\ BridgeLast' /\ KnownExists'
        /\ \A m \in Earlier(node) : Complete(m)' = Complete(m)
        /\ Progress'
    BY <1>1, <2>4, <2>5, <2>6, CreateKeeps
  <2>8. SetUp'
    BY <1>1, <2>5, <2>7 DEF IInv, SetUp
  <2> QED
    BY <2>7, <2>8 DEF IInv
<1>4. CASE ~(missing \subseteq {"reader", "writer"})
  <2>1. pc' = "crashed" /\ exit' = exit /\ UNCHANGED <<owned, entities>>
    BY <1>2, <1>4 DEF Crash
  <2>2. Control' /\ (exit = "failure" => exit' = "failure")
    BY <1>1, <2>1 DEF IInv, Types, Control, settings
  <2>3. UNCHANGED <<settings, owned, entities, bridges>>
    BY <1>1, <2>1
  <2> QED
    BY <2>1, <2>2, <2>3, Keeps, Ending DEF IInv
<1> QED
  BY <1>3, <1>4
LEMMA CreateBridgeKeeps ==
    ASSUME IInv, CreateBridge
    PROVE  IInv'
<1>1. /\ pc = "bridge" /\ pc' = "connect" /\ node \in Node /\ node' = node
      /\ exit = "none" /\ exit' = exit /\ ok' = ok /\ declare_to_ros
      /\ plugin' = plugin /\ declare_to_ros' = declare_to_ros
      /\ gids' = [gids EXCEPT ![node] = {}] /\ graph' = [graph EXCEPT ![node] = {}]
      /\ gids \in [Node -> SUBSET AllEntities] /\ graph \in [Node -> SUBSET AllEntities]
  BY DEF CreateBridge, Publish, settings, IInv, Types, Control
<1>2. PICK n \in Node, o \in Name : n = node /\ o = "bridge"
  BY <1>1 DEF Name
<1>3. PICK made \in SUBSET PartSet(o) : made = PartSet(o)
  OBVIOUS
<1>4. /\ owned' = Append(owned, <<n, o>>)
      /\ entities' = entities \cup {<<n, o, part>> : part \in made}
  BY <1>2, <1>3, OfIs DEF CreateBridge, OwnBridge, OfSet, IInv, Types
<1>5. Ready(n) /\ ~Bridged(n) /\ <<n, o>> \notin ToSet(owned)
  BY <1>1, <1>2 DEF IInv, Progress, Bridged
<1>6. /\ owned' \in Seq(Node \X Name)
      /\ ToSet(owned)' = ToSet(owned) \cup {<<n, o>>}
      /\ entities' \subseteq AllEntities
      /\ IsInjective(owned)' /\ NothingIsLeft' /\ BridgeLast'
      /\ \A m \in Node \ {n} : EndpointsOf(m)' = EndpointsOf(m)
  BY <1>1, <1>4, <1>5, Grows
<1>7. Control'
  BY <1>1 DEF IInv, Types, Control
<1>8. Types'
  BY <1>1, <1>6, <1>7 DEF IInv, Types, KnownPlugin
<1>9. /\ gids'[n] = {} /\ graph'[n] = {}
      /\ \A m \in Node \ {n} : gids'[m] = gids[m] /\ graph'[m] = graph[m]
  BY <1>1, <1>2
<1>10. Bridged(n)' /\ \A m \in Node \ {n} : Bridged(m)' <=> Bridged(m)
  BY <1>2, <1>6 DEF Bridged
<1>11. KnownExists'
  <2> SUFFICES ASSUME NEW m \in Node
               PROVE  /\ graph'[m] \subseteq gids'[m]
                      /\ gids'[m] \subseteq EndpointsOf(m)'
                      /\ gids'[m] # {} => Bridged(m)'
                      /\ Bridged(m)' => declare_to_ros'
    BY DEF KnownExists
  <2>1. CASE m = n
    BY <1>1, <1>9, <2>1
  <2>2. CASE m # n
    BY <1>1, <1>6, <1>9, <1>10, <2>2 DEF IInv, KnownExists
  <2> QED
    BY <2>1, <2>2
<1>12. Progress'
  <2>1. \A m \in Node : Ready(m)'
    BY <1>1, <1>6 DEF IInv, Progress, Ready
  <2>2. \A x \in ToSet(owned)' : node \in Earlier(x[1]) => x[2] = "participant"
    BY <1>1, <1>2, <1>6, Order DEF IInv, Progress
  <2> QED
    BY <1>1, <1>2, <1>9, <1>10, <2>1, <2>2 DEF Progress
<1>13. SetUp'
  <2>1. \A m \in Earlier(node) : m \in Node \ {n}
    BY <1>1, <1>2, Order
  <2>2. \A m \in Earlier(node) : Complete(m)'
    BY <1>1, <1>6, <1>9, <2>1 DEF IInv, SetUp, Complete
  <2> QED
    BY <1>1, <1>4, <2>2 DEF IInv, SetUp
<1> QED
  BY <1>6, <1>8, <1>11, <1>12, <1>13 DEF IInv

(* What a FastDDS bridge leaves behind is in its participant.              *)
LEMMA CreateBridgeThrowsKeeps ==
    ASSUME IInv, CreateBridgeThrows
    PROVE  IInv'
<1>1. /\ pc = "bridge" /\ pc' = "unwinding" /\ node \in Node /\ node' = node
      /\ exit = "none" /\ exit' = "failure" /\ ok' = ok
      /\ plugin' = plugin /\ declare_to_ros' = declare_to_ros
      /\ gids' = gids /\ graph' = graph /\ owned' = owned
      /\ Ready(node)
  BY DEF CreateBridgeThrows, Throw, Leave, settings, bridges, IInv, Types, Control, Progress
<1> DEFINE new == entities' \ entities
<1>2. /\ entities' = entities \cup new
      /\ \A e \in new : plugin = "fastdds" /\ e \in OfSet(node, "bridge")
  <2>1. CASE plugin = "fastdds"
    <3>1. PICK made \in Partial("bridge") \cup {ToSet(Parts("bridge"))} :
              entities' = entities \cup {<<node, "bridge", part>> : part \in made}
      BY <2>1 DEF CreateBridgeThrows
    <3>2. made \subseteq PartSet("bridge")
      BY <3>1, PartialParts, PartsAre DEF IInv, Types
    <3> QED
      BY <2>1, <3>1, <3>2 DEF OfSet
  <2>2. CASE plugin # "fastdds"
    BY <2>2 DEF CreateBridgeThrows
  <2> QED
    BY <2>1, <2>2
<1> HIDE DEF new
<1>3. new \subseteq AllEntities
  <2>1. PICK x \in Node \X Name : x = <<node, "bridge">>
    BY <1>1 DEF Name
  <2>2. new \subseteq OfSet(x[1], x[2])
    BY <1>2, <2>1
  <2> QED
    BY <2>2 DEF AllEntities
<1>4. Control'
  BY <1>1 DEF IInv, Types, Control
<1>5. Types'
  BY <1>1, <1>2, <1>3, <1>4 DEF IInv, Types, KnownPlugin
<1>6. IsInjective(owned)' /\ BridgeLast'
  BY <1>1 DEF IInv, IsInjective, BridgeLast
<1>7. NothingIsLeft'
  <2> SUFFICES ASSUME NEW e \in entities'
               PROVE  /\ <<e[1], "participant">> \in ToSet(owned)
                      /\ \/ <<e[1], e[2]>> \in ToSet(owned)
                         \/ plugin = "fastdds" /\ e[2] = "bridge"
    BY <1>1 DEF NothingIsLeft
  <2>1. CASE e \in entities
    BY <2>1 DEF IInv, NothingIsLeft
  <2>2. CASE e \in new
    BY <1>1, <1>2, <2>2 DEF Ready, OfSet
  <2> QED
    BY <1>2, <2>1, <2>2
<1>8. KnownExists'
  BY <1>1, <1>2 DEF IInv, KnownExists, EndpointsOf, Bridged
<1> QED
  BY <1>1, <1>5, <1>6, <1>7, <1>8, Ending DEF IInv

(* A bridge learns of an endpoint, whether or not it can tell.             *)
LEMMA ConnectKeeps ==
    ASSUME IInv, Connect \/ ConnectThrows
    PROVE  IInv'
<1>1. /\ pc = "connect" /\ node \in Node /\ node' = node /\ ok' = ok
      /\ plugin' = plugin /\ declare_to_ros' = declare_to_ros
      /\ owned' = owned /\ entities' = entities /\ exit = "none"
      /\ gids \in [Node -> SUBSET AllEntities] /\ graph \in [Node -> SUBSET AllEntities]
      /\ Bridged(node) /\ graph[node] = gids[node]
  BY DEF Connect, ConnectThrows, settings, IInv, Types, Control, Progress
<1>2. PICK e \in Unknown :
          \/ Connect /\ AddEndpoint(e)
          \/ ConnectThrows /\ (gids' = gids \/ gids' = [gids EXCEPT ![node] = @ \cup {e}])
  BY FirstIsWanted DEF Connect, ConnectThrows, NextUnknown
<1>3. e \in EndpointsOf(node) /\ e \in AllEntities
  BY DEF Unknown, EndpointsOf, IInv, Types
<1>4. /\ gids' \in [Node -> SUBSET AllEntities]
      /\ \A m \in Node \ {node} : gids'[m] = gids[m]
      /\ gids[node] \subseteq gids'[node] /\ gids'[node] \subseteq gids[node] \cup {e}
  BY <1>1, <1>2, <1>3 DEF AddEndpoint, Publish
<1>5. \/ graph' = graph /\ ConnectThrows
      \/ graph' = [graph EXCEPT ![node] = gids'[node]] /\ Connect
  BY <1>1, <1>2 DEF AddEndpoint, Publish, ConnectThrows
<1>6. /\ graph' \in [Node -> SUBSET AllEntities]
      /\ \A m \in Node \ {node} : graph'[m] = graph[m]
      /\ graph'[node] \subseteq gids'[node]
  BY <1>1, <1>4, <1>5
<1>7. Control'
  BY <1>1 DEF IInv, Types, Control, Connect, ConnectThrows, Throw, Leave
<1>8. Types' /\ IsInjective(owned)' /\ BridgeLast'
  BY <1>1, <1>4, <1>6, <1>7 DEF IInv, Types, KnownPlugin, IsInjective, BridgeLast
<1>9. NothingIsLeft'
  BY <1>1 DEF IInv, NothingIsLeft
<1>10. KnownExists'
  <2> SUFFICES ASSUME NEW m \in Node
               PROVE  /\ graph'[m] \subseteq gids'[m]
                      /\ gids'[m] \subseteq EndpointsOf(m)
                      /\ gids'[m] # {} => Bridged(m)
                      /\ Bridged(m) => declare_to_ros
    BY <1>1 DEF KnownExists, EndpointsOf, Bridged
  <2>1. CASE m = node
    BY <1>1, <1>3, <1>4, <1>6, <2>1 DEF IInv, KnownExists
  <2>2. CASE m # node
    BY <1>4, <1>6, <2>2 DEF IInv, KnownExists
  <2> QED
    BY <2>1, <2>2
<1>11. CASE ConnectThrows
  BY <1>8, <1>9, <1>10, <1>11, Ending DEF IInv, ConnectThrows, Throw, Leave
<1>12. CASE Connect
  <2>1. pc' = "connect"
    BY <1>1, <1>12 DEF Connect
  <2>2. graph'[node] = gids'[node]
    BY <1>1, <1>2, <1>5, <2>1 DEF ConnectThrows, Throw, Leave
  <2>3. Progress'
    BY <1>1, <2>1, <2>2 DEF IInv, Progress, Ready, Bridged
  <2>4. \A m \in Earlier(node) : m \in Node \ {node}
    BY <1>1, Order
  <2>5. \A m \in Earlier(node) : Complete(m)'
    BY <1>1, <1>6, <2>4 DEF IInv, SetUp, Complete, EndpointsOf
  <2>6. SetUp'
    BY <1>1, <2>1, <2>5 DEF IInv, SetUp
  <2> QED
    BY <1>8, <1>9, <1>10, <2>3, <2>6 DEF IInv
<1> QED
  BY <1>11, <1>12

LEMMA BridgeDoneKeeps ==
    ASSUME IInv, NoBridge \/ Connected
    PROVE  IInv'
<1>1. /\ pc \in {"bridge", "connect"} /\ AdapterDone
      /\ UNCHANGED <<settings, ok, owned, entities, bridges>>
  BY DEF NoBridge, Connected
<1>2. declare_to_ros => graph[node] = EndpointsOf(node)
  <2>1. CASE NoBridge
    BY <2>1 DEF NoBridge
  <2>2. CASE Connected
    <3>1. EndpointsOf(node) \subseteq gids[node]
      BY <2>2 DEF Connected, Unknown
    <3>2. graph[node] = gids[node] /\ gids[node] \subseteq EndpointsOf(node)
      BY <2>2 DEF Connected, IInv, Progress, KnownExists, Types, Control
    <3> QED
      BY <3>1, <3>2
  <2> QED
    BY <2>1, <2>2
<1> QED
  BY <1>1, <1>2, AdapterDoneKeeps
(* Destructors: the bridge of an adapter goes first, the participant last. *)
LEMMA UnwindKeeps ==
    ASSUME IInv, Unwind
    PROVE  IInv'
<1>1. /\ pc = "unwinding" /\ pc' = pc /\ node' = node /\ ok' = ok /\ exit' = exit
      /\ plugin' = plugin /\ declare_to_ros' = declare_to_ros
      /\ owned # << >> /\ owned' = Front(owned)
  BY DEF Unwind, settings
<1>2. /\ Last(owned) \in Node \X Name
      /\ owned' \in Seq(Node \X Name) /\ IsInjective(owned)' /\ BridgeLast'
      /\ ToSet(owned)' = ToSet(owned) \ {Last(owned)}
      /\ Last(owned)[2] # "bridge" => ~Bridged(Last(owned)[1])
  BY <1>1, Popped DEF IInv, Types
<1>3. PICK n \in Node, o \in Name : Last(owned) = <<n, o>>
  BY <1>2
<1>4. /\ entities' = Destroyed(n, o)
      /\ IF o = "bridge"
         THEN gids' = [gids EXCEPT ![n] = {}] /\ graph' = [graph EXCEPT ![n] = {}]
         ELSE gids' = gids /\ graph' = graph
  BY <1>3 DEF Unwind, bridges
<1>5. entities' = {e \in entities :
          IF o = "participant" THEN e[1] # n ELSE ~(e[1] = n /\ e[2] = o)}
  BY <1>4, DestroyedIs DEF IInv, Types
<1>6. Control'
  BY <1>1 DEF IInv, Types, Control
<1>7. Types'
  BY <1>1, <1>2, <1>4, <1>5, <1>6 DEF IInv, Types, KnownPlugin
<1>8. NothingIsLeft'
  <2> SUFFICES ASSUME NEW e \in entities'
               PROVE  /\ <<e[1], "participant">> \in ToSet(owned)'
                      /\ \/ <<e[1], e[2]>> \in ToSet(owned)'
                         \/ plugin = "fastdds" /\ e[2] = "bridge" /\ exit = "failure"
    BY <1>1 DEF NothingIsLeft
  <2>1. /\ <<e[1], "participant">> \in ToSet(owned)
        /\ \/ <<e[1], e[2]>> \in ToSet(owned)
           \/ plugin = "fastdds" /\ e[2] = "bridge" /\ exit = "failure"
    BY <1>5 DEF IInv, NothingIsLeft
  <2>2. <<e[1], "participant">> # <<n, o>> /\ <<e[1], e[2]>> # <<n, o>>
    BY <1>5
  <2> QED
    BY <1>2, <1>3, <2>1, <2>2
<1>9. /\ \A m \in Node : (o # "bridge" \/ m # n) => (Bridged(m)' <=> Bridged(m))
      /\ o = "bridge" => ~Bridged(n)'
      /\ o # "bridge" => ~Bridged(n)
  BY <1>2, <1>3 DEF Bridged
<1>10. \A m \in Node \ {n} : EndpointsOf(m)' = EndpointsOf(m)
  <2> SUFFICES ASSUME NEW m \in Node \ {n}, NEW e \in ToSet(Connectables(m))
               PROVE  e \in entities' <=> e \in entities
    BY DEF EndpointsOf
  <2>1. e[1] # n
    BY ConnectableNode
  <2> QED
    BY <1>5, <2>1
<1>11. KnownExists'
  <2> SUFFICES ASSUME NEW m \in Node
               PROVE  /\ graph'[m] \subseteq gids'[m]
                      /\ gids'[m] \subseteq EndpointsOf(m)'
                      /\ gids'[m] # {} => Bridged(m)'
                      /\ Bridged(m)' => declare_to_ros
    BY <1>1 DEF KnownExists
  <2>1. gids \in [Node -> SUBSET AllEntities] /\ graph \in [Node -> SUBSET AllEntities]
    BY DEF IInv, Types
  <2>2. /\ graph[m] \subseteq gids[m]
        /\ gids[m] \subseteq EndpointsOf(m)
        /\ gids[m] # {} => Bridged(m)
        /\ Bridged(m) => declare_to_ros
    BY DEF IInv, KnownExists
  <2>3. CASE m = n /\ o = "bridge"
    BY <1>4, <1>9, <2>1, <2>3
  <2>4. CASE m = n /\ o # "bridge"
    BY <1>4, <1>9, <2>2, <2>4
  <2>5. CASE m # n
    <3>1. gids'[m] = gids[m] /\ graph'[m] = graph[m]
      BY <1>4, <2>1, <2>5
    <3> QED
      BY <1>9, <1>10, <2>2, <2>5, <3>1
  <2> QED
    BY <2>3, <2>4, <2>5
<1> QED
  BY <1>1, <1>2, <1>7, <1>8, <1>11, Ending DEF IInv

LEMMA NextIInv == IInv /\ [Next]_vars => IInv'
<1> SUFFICES ASSUME IInv, [Next]_vars
             PROVE  IInv'
  OBVIOUS
<1>1. CASE Configure \/ Discover
  BY <1>1, StartKeeps
<1>2. CASE CreateParticipant
  BY <1>2, CreateParticipantKeeps
<1>3. CASE CreateParticipantFails
  BY <1>3, LeavingKeeps DEF CreateParticipantFails, Throw
<1>4. CASE CreateEndpoint
  BY <1>4, CreateEndpointKeeps
<1>5. CASE EndpointsDone \/ RegisterSubscriberFails
  BY <1>5, EndpointsDoneKeeps
<1>6. CASE CreatePublisherFails
  BY <1>6, CreatePublisherFailsKeeps
<1>7. CASE InitPublishersRefuses
  BY <1>7, LeavingKeeps DEF InitPublishersRefuses, Throw
<1>8. CASE CreateServerThrows
  BY <1>8, LeavingKeeps DEF CreateServerThrows, Throw
<1>9. CASE CreateServerUnchecked
  BY <1>9, CreateServerUncheckedKeeps
<1>10. CASE NoBridge \/ Connected
  BY <1>10, BridgeDoneKeeps
<1>11. CASE CreateBridge
  BY <1>11, CreateBridgeKeeps
<1>12. CASE CreateBridgeThrows
  BY <1>12, CreateBridgeThrowsKeeps
<1>13. CASE Connect \/ ConnectThrows
  BY <1>13, ConnectKeeps
<1>14. CASE AnswerCrashes
  BY <1>14, LeavingKeeps DEF AnswerCrashes
<1>15. CASE ExecReturns
  BY <1>15, LeavingKeeps DEF ExecReturns
<1>16. CASE Unwind
  BY <1>16, UnwindKeeps
<1>17. CASE Return
  BY <1>17, LeavingKeeps DEF Return
<1>18. CASE UNCHANGED vars
  <2>1. /\ UNCHANGED <<settings, owned, entities, bridges>>
        /\ pc' = pc /\ node' = node /\ ok' = ok /\ exit' = exit
        /\ plugin' = plugin /\ declare_to_ros' = declare_to_ros
        /\ owned' = owned /\ entities' = entities /\ gids' = gids /\ graph' = graph
    BY <1>18 DEF vars, settings, bridges
  <2>2. Control'
    BY <2>1 DEF IInv, Types, Control
  <2>3. Progress'
    BY <2>1 DEF IInv, Progress, Ready, Bridged
  <2>4. SetUp'
    BY <2>1 DEF IInv, SetUp, Complete, EndpointsOf, Owns
  <2> QED
    BY <2>1, <2>2, <2>3, <2>4, Keeps DEF IInv
<1> QED
  BY <1>1, <1>2, <1>3, <1>4, <1>5, <1>6, <1>7, <1>8, <1>9, <1>10, <1>11, <1>12,
     <1>13, <1>14, <1>15, <1>16, <1>17, <1>18 DEF Next

LEMMA Invariance == Spec => []IInv
BY InitIInv, NextIInv, PTL DEF Spec

-----------------------------------------------------------------------------
(* The theorems                                                            *)

(* Whatever fails while main() of a DDS plugin sets up its adapters, each  *)
(* object is constructed at most once, only parts of the plugin's objects  *)
(* exist, and main() has an exit code exactly when it leaves its scopes.   *)
THEOREM StartupTypeCorrect == Spec => []TypeOK
<1>1. IInv => TypeOK
  <2> SUFFICES ASSUME IInv
               PROVE  TypeOK
    OBVIOUS
  <2>1. Entity = AllEntities
    BY EntityIs DEF IInv, Types
  <2>2. ToSet(owned) \subseteq {<<x.node, x.name>> : x \in Object}
    <3> SUFFICES ASSUME NEW y \in ToSet(owned)
                 PROVE  y \in {<<x.node, x.name>> : x \in Object}
      OBVIOUS
    <3>1. PICK n \in Node, o \in Name : y = <<n, o>>
      BY DEF IInv, Types, ToSet
    <3>2. PICK x \in Object : x = [node |-> n, name |-> o]
      BY DEF Object, Name
    <3> QED
      BY <3>1, <3>2
  <2> QED
    BY <2>1, <2>2 DEF IInv, Types, Control, KnownPlugin, TypeOK
<1> QED
  BY <1>1, Invariance, PTL

(* ros_discovery_info never names an endpoint that does not exist, not     *)
(* even while main() unwinds and although nothing is ever removed from a   *)
(* bridge's list, because the bridge is the member of its adapter that is  *)
(* destroyed first. When PluginExec starts, it names every endpoint there  *)
(* is, and none is missing that init() would have noticed.                 *)
THEOREM GraphIsTrue == Spec => []AdvertisedIsTrue
<1>1. IInv => AdvertisedIsTrue
  <2> SUFFICES ASSUME IInv, NEW n \in Node
               PROVE  /\ graph[n] \subseteq entities
                      /\ ~declare_to_ros => graph[n] = {}
                      /\ pc = "running" =>
                             /\ declare_to_ros => graph[n] = EndpointsOf(n)
                             /\ plugin = "cyclonedds" \/ n = "rx"
                                    => EndpointsOf(n) = ToSet(Connectables(n))
    BY DEF AdvertisedIsTrue
  <2>1. graph[n] \subseteq EndpointsOf(n) /\ (~declare_to_ros => graph[n] = {})
    BY DEF IInv, KnownExists
  <2>2. pc = "running" => Complete(n)
    BY DEF IInv, SetUp
  <2> QED
    BY <2>1, <2>2 DEF EndpointsOf, Complete
<1> QED
  BY <1>1, Invariance, PTL

(* On every way out of main() the DDS entities of an object go with it and *)
(* none outlives its participant, although the destructors ignore the      *)
(* error of deleting an entity that is in use: none is. Only what a        *)
(* FastDDS bridge left whose constructor threw waits for the participant.  *)
THEOREM EntitiesGoWithTheirObjects == Spec => []NothingIsLeft
<1>1. IInv => NothingIsLeft
  BY DEF IInv
<1> QED
  BY <1>1, Invariance, PTL

=============================================================================
