------------------------- MODULE ShmInspector_proofs -------------------------
(***************************************************************************)
(* Proofs about the shared-memory inspector, for any number of memories    *)
(* and queues and whatever the master does between two steps of a poll:    *)
(* the screen shows what it says it shows, and --keep-last-queue keeps     *)
(* the messages that were shown, unless a poll is torn.                    *)
(***************************************************************************)
EXTENDS ShmInspector, TLAPS

(* Where run() is. Only a reconnect polls another memory than the one on   *)
(* the screen, and what was read is used in the next step.                 *)
Loop ==
    /\ pc = "reopen" => reconnecting
    /\ pc \in {"input", "quit"} => ~reconnecting
    /\ ~reconnecting => index = active
    /\ pc # "size" => got = {}

(* A memory that was declared is mapped, and one is read only then.        *)
Declaring ==
    /\ \A s \in Source : initialized[s] => view[s] # "none"
    /\ pc = "size" => initialized[index]

(* A snapshot is of the memory that is mapped, unless a reconnect has      *)
(* opened another and has yet to poll it.                                  *)
Reopened(s) == s = index /\ reconnecting /\ pc \in {"read", "size"}
OfTheMapped ==
    \A s \in Source : Reopened(s) \/ snapshots[s].from \in {"unpolled", "none", view[s]}

(* What was read is shown, except during the poll that declares it.        *)
BeingDeclared(s) == s = index /\ (pc = "size" \/ (pc = "read" /\ reconnecting))
ReadIsShown ==
    \A s \in Source : BeingDeclared(s) \/ (initialized[s] <=> snapshots[s].from \in {"live", "old"})
ContentIsRead ==
    \A s \in Source : snapshots[s].buffered \/ snapshots[s].messages # {} =>
                      snapshots[s].from \in {"live", "old"}

(* What was read is still what the queues hold, unless they have moved.    *)
ReadStands ==
    pc = "size" /\ ~moved =>
        /\ view[index] = "live"
        /\ got = {q \in Queues[index] : content[index][q] > 0}

(* The messages and the sizes of a snapshot agree unless it is torn.       *)
Whole(snapshot) == snapshot.torn \/ (snapshot.messages # {} <=> snapshot.buffered)
SnapshotsWhole == \A s \in Source : Whole(snapshots[s])

(* The memory on the screen was polled, in the mode selected.              *)
Shown == pc \in {"input", "quit"} \/ reconnecting
ActivePolled ==
    Shown => /\ snapshots[active].from # "unpolled"
             /\ ~options.keep_last_queue => snapshots[active].history = options.history

IInv ==
    /\ TypeOK
    /\ Loop
    /\ Declaring
    /\ OfTheMapped
    /\ ReadIsShown
    /\ ContentIsRead
    /\ ReadStands
    /\ SnapshotsWhole
    /\ ActivePolled

-----------------------------------------------------------------------------
(* Types.                                                                  *)

(* After a poll the next memory is reopened, or the active one is shown.   *)
LEMMA PolledFacts ==
  ASSUME TypeOK, Polled
  PROVE  /\ index' \in Source /\ reconnecting' \in BOOLEAN
         /\ \/ pc' = "reopen" /\ reconnecting' /\ reconnecting
            \/ pc' = "input" /\ ~reconnecting' /\ index' = active
<1>1. CASE reconnecting /\ index < NumSources
  BY <1>1, SourcesAssumption DEF Polled, TypeOK, Source
<1>2. CASE ~(reconnecting /\ index < NumSources)
  BY <1>2 DEF Polled, TypeOK
<1> QED BY <1>1, <1>2

(* The keys that change the memory stay within the memories.               *)
LEMMA SourcesCycle ==
  ASSUME TypeOK
  PROVE  NextSource \in Source /\ PreviousSource \in Source
<1>1. \A a \in Nat, n \in Nat \ {0} : (a % n) + 1 \in 1..n
  OBVIOUS
<1>2. active \in Nat \ {0} /\ NumSources \in Nat \ {0}
  BY SourcesAssumption DEF TypeOK, Source
<1>3. active + NumSources - 2 \in Nat
  BY <1>2
<1> QED BY <1>1, <1>2, <1>3 DEF NextSource, PreviousSource, Source

(* One snapshot is replaced by another.                                    *)
LEMMA SnapshotReplaced ==
  ASSUME TypeOK, NEW s \in Source, NEW new \in Snapshot(s),
         snapshots' = [snapshots EXCEPT ![s] = new]
  PROVE  /\ snapshots'[s] = new
         /\ \A t \in Source \ {s} : snapshots'[t] = snapshots[t]
         /\ DOMAIN snapshots' = Source /\ \A t \in Source : snapshots'[t] \in Snapshot(t)
  BY DEF TypeOK

LEMMA SnapshotTypes ==
  ASSUME TypeOK, NEW s \in Source
  PROVE  /\ Failed(s) \in Snapshot(s)
         /\ NoSnapshot(s) \in Snapshot(s)
         /\ got \subseteq Queues[s] => \A new \in Made(s) : new \in Snapshot(s)
         /\ view[s] \in {"none", "live", "old"}
<1>1. options.history \in BOOLEAN /\ view[s] \in {"none", "live", "old"}
  BY DEF TypeOK
<1>2. Failed(s) \in Snapshot(s) /\ NoSnapshot(s) \in Snapshot(s)
  BY <1>1 DEF Failed, NoSnapshot, Snapshot
<1>3. ASSUME got \subseteq Queues[s], NEW new \in Made(s)
      PROVE  new \in Snapshot(s)
  <2>1. PICK level \in Mapped(s) :
            new = [from |-> view[s], messages |-> got,
                   buffered |-> \E q \in Queues[s] : level[q] > 0,
                   history |-> options.history, torn |-> moved]
    BY <1>3 DEF Made
  <2>2. PICK b \in BOOLEAN : b = (\E q \in Queues[s] : level[q] > 0)
    OBVIOUS
  <2>3. new = [from |-> view[s], messages |-> got, buffered |-> b, history |-> options.history,
               torn |-> moved]
    BY <2>1, <2>2
  <2>4. moved \in BOOLEAN
    BY DEF TypeOK
  <2> QED BY <1>1, <1>3, <2>3, <2>4 DEF Snapshot
<1> QED BY <1>1, <1>2, <1>3

LEMMA InspectorTypeInit == Init => TypeOK
<1> SUFFICES ASSUME Init PROVE TypeOK
  OBVIOUS
<1>1. \A s \in Source : content[s] \in Levels(s)
  BY CapacityAssumption DEF Init, Empty, Levels
<1>2. \A s \in Source : snapshots[s] \in Snapshot(s)
  BY DEF Init, NoSnapshot, Snapshot
<1>3. 1 \in Source
  BY SourcesAssumption DEF Source
<1> QED BY <1>1, <1>2, <1>3 DEF Init, Opened, TypeOK

(* The master and those who drain.                                         *)
LEMMA OutsideTypes ==
  ASSUME TypeOK, Outside
  PROVE  TypeOK'
<1>1. PICK s \in Source : \/ MasterCreates(s) \/ MasterIsReady(s) \/ MasterEnds(s)
                          \/ \E q \in Queues[s] : MasterPushes(s, q) \/ OtherDrains(s, q)
  BY DEF Outside
<1>2. CASE MasterCreates(s) \/ MasterIsReady(s)
  BY <1>2 DEF MasterCreates, MasterIsReady, TypeOK, inspector, mode
<1>3. CASE MasterEnds(s)
  <2>1. DOMAIN content' = Source /\ \A t \in Source : content'[t] \in Levels(t)
    <3>1. Empty(s) \in Levels(s)
      BY CapacityAssumption DEF Empty, Levels
    <3> QED BY <1>3, <3>1 DEF MasterEnds, TypeOK
  <2>2. DOMAIN snapshots' = Source /\ \A t \in Source : snapshots'[t] \in Snapshot(t)
    <3>1. snapshots' = [snapshots EXCEPT ![s].from = Aged(@)]
      BY <1>3 DEF MasterEnds
    <3>2. snapshots[s] \in Snapshot(s) /\ DOMAIN snapshots = Source
      BY DEF TypeOK
    <3>3. snapshots'[s] \in Snapshot(s)
      BY <3>1, <3>2 DEF Snapshot, Aged
    <3> QED BY <3>1, <3>2, <3>3 DEF TypeOK
  <2>3. view' \in [Source -> {"none", "live", "old"}]
    BY <1>3 DEF MasterEnds, TypeOK, Aged
  <2> QED BY <1>3, <2>1, <2>2, <2>3 DEF MasterEnds, Moves, TypeOK, mode
<1>4. ASSUME NEW q \in Queues[s], MasterPushes(s, q) \/ OtherDrains(s, q)
      PROVE  TypeOK'
  <2>1. content[s] \in [Queues[s] -> 0..Capacity] /\ DOMAIN content = Source
    BY DEF TypeOK, Levels
  <2>2. PICK n \in 0..Capacity : content' = [content EXCEPT ![s][q] = n]
    <3>1. content[s][q] \in 0..Capacity
      BY <2>1
    <3>2. CASE MasterPushes(s, q)
      <4>1. content' = [content EXCEPT ![s][q] = content[s][q] + 1]
        BY <3>2 DEF MasterPushes
      <4>2. content[s][q] + 1 \in 0..Capacity
        BY <3>1, <3>2, CapacityAssumption DEF MasterPushes
      <4> QED BY <4>1, <4>2
    <3>3. CASE OtherDrains(s, q)
      <4>1. 0 \in 0..Capacity
        BY CapacityAssumption
      <4> QED BY <3>3, <4>1 DEF OtherDrains
    <3> QED BY <1>4, <3>2, <3>3
  <2>3. DOMAIN content' = Source /\ \A t \in Source : content'[t] \in Levels(t)
    BY <2>1, <2>2 DEF TypeOK, Levels
  <2>4. /\ UNCHANGED <<memory, inspector, snapshots, mode, pc, reconnecting, index, got>>
        /\ moved' \in BOOLEAN
    BY <1>4 DEF MasterPushes, OtherDrains, Moves, TypeOK
  <2> QED BY <2>3, <2>4 DEF TypeOK, inspector, mode
<1> QED BY <1>1, <1>2, <1>3, <1>4

LEMMA InspectorTypeStep ==
  ASSUME TypeOK, Loop, [Next]_vars
  PROVE  TypeOK'
<1>0. index \in Source /\ active \in Source /\ got \subseteq Queues[index]
  BY DEF TypeOK
<1>1. CASE Outside
  BY <1>1, OutsideTypes
<1>2. CASE Read
  <2>1. initialized' \in [Source -> BOOLEAN]
    BY <1>2 DEF Read, TypeOK
  <2>2. got' \subseteq Queues[index]
    BY <1>2 DEF Read, Peeked
  <2> QED BY <1>2, <2>1, <2>2 DEF Read, TypeOK, shm, mode
<1>3. CASE ReadFails
  <2>1. DOMAIN snapshots' = Source /\ \A t \in Source : snapshots'[t] \in Snapshot(t)
    BY <1>0, <1>3, SnapshotTypes, SnapshotReplaced DEF ReadFails
  <2>2. got' = {}
    BY <1>3 DEF ReadFails, Loop
  <2>3. index' \in Source /\ reconnecting' \in BOOLEAN /\ pc' \in {"reopen", "input"}
    BY <1>3, PolledFacts DEF ReadFails
  <2> QED BY <1>3, <2>1, <2>2, <2>3 DEF ReadFails, TypeOK, shm, inspector, mode
<1>4. CASE Size
  <2>1. DOMAIN snapshots' = Source /\ \A t \in Source : snapshots'[t] \in Snapshot(t)
    <3>1. PICK new \in Made(index) : snapshots' = snapshots \/ snapshots' = [snapshots EXCEPT ![index] = new]
      BY <1>4 DEF Size
    <3>2. new \in Snapshot(index)
      BY <1>0, SnapshotTypes
    <3>3. CASE snapshots' = snapshots
      BY <3>3 DEF TypeOK
    <3>4. CASE snapshots' = [snapshots EXCEPT ![index] = new]
      BY <1>0, <3>2, <3>4, SnapshotReplaced
    <3> QED BY <3>1, <3>3, <3>4
  <2>2. got' = {}
    BY <1>4 DEF Size
  <2>3. index' \in Source /\ reconnecting' \in BOOLEAN /\ pc' \in {"reopen", "input"}
    BY <1>4, PolledFacts DEF Size
  <2> QED BY <1>4, <2>1, <2>2, <2>3 DEF Size, TypeOK, shm, inspector, mode
<1>5. CASE Reopen
  <2>1. /\ view' \in [Source -> {"none", "live", "old"}]
        /\ initialized' \in [Source -> BOOLEAN]
    <3>1. Opened(index) \in {"none", "live", "old"} /\ (memory[index] = "ready") \in BOOLEAN
      BY DEF Opened
    <3> QED BY <1>0, <1>5, <3>1 DEF Reopen, TypeOK
  <2>2. got' = {} /\ UNCHANGED <<memory, content, active, options, paused, moved>>
    BY <1>5 DEF Reopen, Loop, shm, mode
  <2>3. CASE memory[index] = "ready"
    BY <1>5, <2>1, <2>2, <2>3 DEF Reopen, TypeOK
  <2>4. CASE memory[index] # "ready"
    <3>1. snapshots' = [snapshots EXCEPT ![index] = Failed(index)] /\ Polled
      BY <1>5, <2>4 DEF Reopen
    <3>2. DOMAIN snapshots' = Source /\ \A t \in Source : snapshots'[t] \in Snapshot(t)
      BY <1>0, <3>1, SnapshotTypes, SnapshotReplaced
    <3>3. index' \in Source /\ reconnecting' \in BOOLEAN /\ pc' \in {"reopen", "input"}
      BY <3>1, PolledFacts
    <3> QED BY <2>1, <2>2, <3>2, <3>3 DEF TypeOK
  <2> QED BY <2>3, <2>4
<1>6. CASE Timer
  BY <1>6 DEF Timer, Loop, Poll, TypeOK, shm, inspector, mode
<1>7. CASE SwitchSource
  <2>1. PICK s \in Source : active' = s /\ Poll(s)
    BY <1>7, SourcesCycle DEF SwitchSource
  <2>2. got' = {}
    BY <1>7 DEF SwitchSource, Loop
  <2> QED BY <1>7, <2>1, <2>2 DEF SwitchSource, Poll, TypeOK, shm, inspector
<1>8. CASE ToggleHistory
  <2>1. options' \in [history: BOOLEAN, keep_last_queue: BOOLEAN]
    BY <1>8 DEF ToggleHistory, TypeOK
  <2>2. got' = {}
    BY <1>8 DEF ToggleHistory, Loop
  <2> QED BY <1>8, <2>1, <2>2 DEF ToggleHistory, Forced, Poll, TypeOK, shm, inspector
<1>9. CASE TogglePause
  BY <1>9 DEF TogglePause, TypeOK, shm, inspector
<1>10. CASE Reconnect
  <2>1. 1 \in Source /\ got' = {}
    BY <1>10, SourcesAssumption DEF Reconnect, Loop, Source
  <2> QED BY <1>10, <2>1 DEF Reconnect, TypeOK, shm, inspector, mode
<1>11. CASE Quit
  BY <1>11 DEF Quit, TypeOK, shm, inspector, mode
<1>12. CASE UNCHANGED vars
  BY <1>12 DEF vars, TypeOK, shm, inspector, mode
<1> QED
  BY <1>1, <1>2, <1>3, <1>4, <1>5, <1>6, <1>7, <1>8, <1>9, <1>10, <1>11, <1>12 DEF Next, App, Key

-----------------------------------------------------------------------------
(* What the screen shows.                                                  *)

(* All but the type invariant.                                             *)
Honest == /\ Loop /\ Declaring /\ OfTheMapped /\ ReadIsShown /\ ContentIsRead
          /\ ReadStands /\ SnapshotsWhole /\ ActivePolled

(* A master that goes away ages the mapping and the snapshot alike.        *)
LEMMA OutsideHonest ==
  ASSUME TypeOK, TypeOK', Honest, Outside
  PROVE  Honest'
<1>1. /\ UNCHANGED <<initialized, pc, reconnecting, index, got, active, options>>
      /\ \A t \in Source :
             /\ \/ snapshots'[t].from = snapshots[t].from /\ view'[t] = view[t]
                \/ snapshots'[t].from = Aged(snapshots[t].from) /\ view'[t] = Aged(view[t])
             /\ snapshots'[t].buffered = snapshots[t].buffered
             /\ snapshots'[t].messages = snapshots[t].messages
             /\ snapshots'[t].torn = snapshots[t].torn
             /\ snapshots'[t].history = snapshots[t].history
  <2>1. PICK s \in Source : \/ MasterCreates(s) \/ MasterIsReady(s) \/ MasterEnds(s)
                            \/ \E q \in Queues[s] : MasterPushes(s, q) \/ OtherDrains(s, q)
    BY DEF Outside
  <2>2. CASE ~MasterEnds(s)
    BY <2>1, <2>2 DEF MasterCreates, MasterIsReady, MasterPushes, OtherDrains, inspector, mode
  <2>3. CASE MasterEnds(s)
    <3>1. /\ snapshots' = [snapshots EXCEPT ![s].from = Aged(@)]
          /\ view' = [view EXCEPT ![s] = Aged(@)]
          /\ UNCHANGED <<initialized, pc, reconnecting, index, got, active, options>>
      BY <2>3 DEF MasterEnds, mode
    <3>2. snapshots[s] \in Snapshot(s) /\ DOMAIN snapshots = Source /\ DOMAIN view = Source
      BY DEF TypeOK
    <3>3. /\ snapshots'[s].from = Aged(snapshots[s].from) /\ view'[s] = Aged(view[s])
          /\ snapshots'[s].buffered = snapshots[s].buffered
          /\ snapshots'[s].messages = snapshots[s].messages
          /\ snapshots'[s].torn = snapshots[s].torn
          /\ snapshots'[s].history = snapshots[s].history
      BY <3>1, <3>2 DEF Snapshot
    <3>4. \A t \in Source \ {s} : snapshots'[t] = snapshots[t] /\ view'[t] = view[t]
      BY <3>1, <3>2
    <3> QED BY <3>1, <3>3, <3>4
  <2> QED BY <2>2, <2>3
<1>2. Loop'
  BY <1>1 DEF Honest, Loop
<1>3. Declaring'
  BY <1>1 DEF Honest, Declaring, Aged
<1>4. OfTheMapped'
  BY <1>1 DEF Honest, OfTheMapped, Reopened, Aged
<1>5. ReadIsShown'
  BY <1>1 DEF Honest, ReadIsShown, BeingDeclared, Aged
<1>6. ContentIsRead'
  BY <1>1 DEF Honest, ContentIsRead, Aged
<1>7. ActivePolled'
  <2>1. active \in Source
    BY DEF TypeOK
  <2> QED BY <1>1, <2>1 DEF Honest, ActivePolled, Shown, Aged
<1>8. SnapshotsWhole'
  BY <1>1 DEF Honest, SnapshotsWhole, Whole
<1>9. ReadStands'
  <2> SUFFICES ASSUME pc = "size", ~moved'
               PROVE  /\ view'[index] = "live"
                      /\ got = {q \in Queues[index] : content'[index][q] > 0}
    BY <1>1 DEF ReadStands
  <2>1. PICK s \in Source : \/ MasterCreates(s) \/ MasterIsReady(s) \/ MasterEnds(s)
                            \/ \E q \in Queues[s] : MasterPushes(s, q) \/ OtherDrains(s, q)
    BY DEF Outside
  <2>2. ~moved /\ (s # index \/ UNCHANGED <<view, content>>)
    <3>1. CASE MasterCreates(s) \/ MasterIsReady(s)
      BY <3>1 DEF MasterCreates, MasterIsReady, inspector
    <3>2. CASE moved' = (moved \/ (pc = "size" /\ s = index))
      BY <3>2
    <3> QED BY <2>1, <3>1, <3>2 DEF MasterEnds, MasterPushes, OtherDrains, Moves
  <2>3. index \in Source /\ DOMAIN content = Source /\ DOMAIN view = Source
    BY DEF TypeOK
  <2>4. view'[index] = view[index] /\ content'[index] = content[index]
    BY <2>1, <2>2, <2>3 DEF MasterCreates, MasterIsReady, MasterEnds, MasterPushes, OtherDrains,
                            inspector
  <2> QED BY <2>2, <2>4 DEF Honest, ReadStands
<1> QED BY <1>2, <1>3, <1>4, <1>5, <1>6, <1>7, <1>8, <1>9 DEF Honest

LEMMA ReadHonest ==
  ASSUME TypeOK, TypeOK', Honest, Read
  PROVE  Honest'
<1>1. /\ pc = "read" /\ pc' = "size" /\ TRUE \in Initializes(index)
      /\ UNCHANGED <<view, snapshots, active, options, reconnecting, index>>
      /\ initialized' = [initialized EXCEPT ![index] = TRUE]
  BY DEF Read, mode
<1>2. index \in Source /\ initialized'[index] /\ \A s \in Source \ {index} : initialized'[s] = initialized[s]
  BY <1>1 DEF TypeOK
<1>3. view[index] # "none"
  BY <1>1, <1>2 DEF Honest, Declaring, Initializes, IsOk
<1>4. Loop'
  BY <1>1 DEF Honest, Loop
<1>5. Declaring'
  BY <1>1, <1>2, <1>3 DEF Honest, Declaring
<1>6. OfTheMapped'
  BY <1>1 DEF Honest, OfTheMapped, Reopened
<1>7. ReadIsShown'
  BY <1>1, <1>2 DEF Honest, ReadIsShown, BeingDeclared
<1>8. ContentIsRead' /\ SnapshotsWhole' /\ ActivePolled'
  BY <1>1 DEF Honest, ContentIsRead, SnapshotsWhole, Whole, ActivePolled, Shown
<1>9. ReadStands'
  <2> SUFFICES ASSUME ~moved'
               PROVE  /\ view[index] = "live"
                      /\ got' = {q \in Queues[index] : content[index][q] > 0}
    BY <1>1 DEF ReadStands, Read, shm
  <2>1. view[index] = "live"
    BY <1>2, <1>3 DEF Read, TypeOK
  <2>2. got' \in {{q \in Queues[index] : level[q] > 0} : level \in {content[index]}}
    BY <2>1 DEF Read, Peeked, Mapped
  <2> QED BY <2>1, <2>2
<1> QED BY <1>4, <1>5, <1>6, <1>7, <1>8, <1>9 DEF Honest

(* A poll ends with a snapshot that fits what is mapped now.               *)
LEMMA PollEnds ==
  ASSUME TypeOK, Honest, Polled, UNCHANGED <<active, options>>, got' = {},
         \A s \in Source \ {index} : /\ snapshots'[s] = snapshots[s] /\ view'[s] = view[s]
                                     /\ initialized'[s] = initialized[s],
         snapshots'[index].from \in {"none", view'[index]},
         snapshots'[index].from # "unpolled",
         initialized'[index] <=> snapshots'[index].from \in {"live", "old"},
         initialized'[index] => view'[index] # "none",
         snapshots'[index].buffered \/ snapshots'[index].messages # {} =>
             snapshots'[index].from \in {"live", "old"},
         Whole(snapshots'[index]),
         options.keep_last_queue \/ snapshots'[index].history = options.history
  PROVE  Honest'
<1>1. /\ index' \in Source /\ reconnecting' \in BOOLEAN
      /\ \/ pc' = "reopen" /\ reconnecting' /\ reconnecting
         \/ pc' = "input" /\ ~reconnecting' /\ index' = active
  BY PolledFacts
<1>2. Loop'
  BY <1>1 DEF Loop
<1>3. Declaring'
  BY <1>1 DEF Honest, Declaring
<1>4. OfTheMapped'
  BY <1>1 DEF Honest, OfTheMapped, Reopened
<1>5. ReadIsShown'
  BY <1>1 DEF Honest, ReadIsShown, BeingDeclared
<1>6. ContentIsRead' /\ SnapshotsWhole' /\ ReadStands'
  BY <1>1 DEF Honest, ContentIsRead, SnapshotsWhole, Whole, ReadStands
<1>7. ActivePolled'
  <2>1. CASE index = active
    BY <2>1 DEF ActivePolled
  <2>2. CASE index # active
    <3>1. reconnecting /\ active \in Source
      BY <2>2 DEF Honest, Loop, TypeOK
    <3> QED BY <2>2, <3>1 DEF Honest, ActivePolled, Shown
  <2> QED BY <2>1, <2>2
<1> QED BY <1>2, <1>3, <1>4, <1>5, <1>6, <1>7 DEF Honest

LEMMA ReadFailsHonest ==
  ASSUME TypeOK, Honest, ReadFails
  PROVE  Honest'
<1>1. /\ pc = "read" /\ FALSE \in Initializes(index) /\ Polled
      /\ snapshots' = [snapshots EXCEPT ![index] = Failed(index)]
      /\ UNCHANGED <<view, initialized, active, options, got>>
  BY DEF ReadFails, inspector, mode
<1>2. index \in Source /\ ~initialized[index]
  BY <1>1 DEF Initializes, TypeOK
<1>3. snapshots'[index] = Failed(index) /\ \A s \in Source \ {index} : snapshots'[s] = snapshots[s]
  BY <1>1, <1>2, SnapshotTypes, SnapshotReplaced
<1>4. /\ Failed(index).from = "none" /\ Failed(index).buffered = FALSE
      /\ Failed(index).messages = {} /\ Failed(index).history = options.history
      /\ Whole(Failed(index))
  BY DEF Failed, Whole
<1>5. got' = {}
  BY <1>1 DEF Honest, Loop
<1> QED BY <1>1, <1>2, <1>3, <1>4, <1>5, PollEnds

(* What a poll makes of what it read agrees with itself unless the queues  *)
(* have moved between read() and make_snapshot().                          *)
LEMMA MadeWhole ==
  ASSUME TypeOK, ReadStands, pc = "size", NEW new \in Made(index)
  PROVE  Whole(new)
<1>1. PICK level \in Mapped(index) :
          new = [from |-> view[index], messages |-> got,
                 buffered |-> \E q \in Queues[index] : level[q] > 0,
                 history |-> options.history, torn |-> moved]
  BY DEF Made
<1>2. new.torn = moved /\ new.messages = got /\ new.buffered = (\E q \in Queues[index] : level[q] > 0)
  BY <1>1
<1>3. CASE moved
  BY <1>2, <1>3 DEF Whole
<1>4. CASE ~moved
  <2>1. got = {q \in Queues[index] : content[index][q] > 0} /\ level = content[index]
    BY <1>1, <1>4 DEF ReadStands, Mapped
  <2>2. got # {} <=> \E q \in Queues[index] : level[q] > 0
    BY <2>1
  <2> QED BY <1>2, <2>2 DEF Whole
<1> QED BY <1>3, <1>4

LEMMA SizeHonest ==
  ASSUME TypeOK, Honest, Size
  PROVE  Honest'
<1>1. /\ pc = "size" /\ Polled /\ got' = {}
      /\ UNCHANGED <<view, initialized, active, options>>
  BY DEF Size, inspector, mode
<1>2. index \in Source /\ initialized[index] /\ view[index] \in {"live", "old"}
  BY <1>1 DEF TypeOK, Honest, Declaring
<1>3. PICK new \in Made(index) : snapshots' = IF Replaces(index, new)
                                              THEN [snapshots EXCEPT ![index] = new]
                                              ELSE snapshots
  BY DEF Size
<1>4. new \in Snapshot(index) /\ new.from = view[index] /\ new.history = options.history
  BY <1>2, <1>3, SnapshotTypes DEF Made, TypeOK
<1>7. Whole(new)
  BY <1>1, <1>3, MadeWhole DEF Honest
<1>5. CASE Replaces(index, new)
  <2>1. snapshots'[index] = new /\ \A s \in Source \ {index} : snapshots'[s] = snapshots[s]
    BY <1>2, <1>3, <1>4, <1>5, SnapshotReplaced
  <2> QED BY <1>1, <1>2, <1>4, <1>7, <2>1, PollEnds
<1>6. CASE ~Replaces(index, new)
  <2>1. snapshots' = snapshots /\ ~reconnecting /\ options.keep_last_queue /\ snapshots[index].buffered
    BY <1>3, <1>6 DEF Replaces
  <2>2. snapshots[index].from \in {"live", "old"}
    BY <1>2, <2>1 DEF Honest, ContentIsRead
  <2>3. snapshots[index].from = view[index]
    BY <1>2, <2>1, <2>2 DEF Honest, OfTheMapped, Reopened
  <2>4. Whole(snapshots'[index])
    BY <1>2, <2>1 DEF Honest, SnapshotsWhole
  <2> QED BY <1>1, <1>2, <2>1, <2>2, <2>3, <2>4, PollEnds
<1> QED BY <1>5, <1>6

LEMMA ReopenHonest ==
  ASSUME TypeOK, TypeOK', Honest, Reopen
  PROVE  Honest'
<1>1. /\ pc = "reopen" /\ reconnecting
      /\ view' = [view EXCEPT ![index] = Opened(index)]
      /\ initialized' = [initialized EXCEPT ![index] = (memory[index] = "ready")]
      /\ UNCHANGED <<active, options, got>> /\ got = {}
  BY DEF Reopen, Honest, Loop, mode
<1>2. index \in Source
  BY DEF TypeOK
<1>3. /\ view'[index] = Opened(index) /\ (initialized'[index] <=> memory[index] = "ready")
      /\ \A s \in Source \ {index} : view'[s] = view[s] /\ initialized'[s] = initialized[s]
  BY <1>1, <1>2 DEF TypeOK
<1>4. CASE memory[index] = "ready"
  <2>1. pc' = "read" /\ UNCHANGED <<snapshots, reconnecting, index>>
    BY <1>4 DEF Reopen
  <2>2. view'[index] = "live"
    BY <1>3, <1>4 DEF Opened
  <2>3. Loop'
    BY <1>1, <2>1 DEF Honest, Loop
  <2>4. Declaring'
    BY <1>3, <2>1, <2>2 DEF Honest, Declaring
  <2>5. OfTheMapped'
    BY <1>1, <1>3, <2>1 DEF Honest, OfTheMapped, Reopened
  <2>6. ReadIsShown'
    BY <1>1, <1>3, <2>1 DEF Honest, ReadIsShown, BeingDeclared
  <2>7. ContentIsRead' /\ SnapshotsWhole' /\ ReadStands' /\ ActivePolled'
    BY <1>1, <2>1 DEF Honest, ContentIsRead, SnapshotsWhole, Whole, ReadStands, ActivePolled, Shown
  <2> QED BY <2>3, <2>4, <2>5, <2>6, <2>7 DEF Honest
<1>5. CASE memory[index] # "ready"
  <2>1. snapshots' = [snapshots EXCEPT ![index] = Failed(index)] /\ Polled
    BY <1>5 DEF Reopen
  <2>2. snapshots'[index] = Failed(index) /\ \A s \in Source \ {index} : snapshots'[s] = snapshots[s]
    BY <1>2, <2>1, SnapshotTypes, SnapshotReplaced
  <2>3. /\ Failed(index).from = "none" /\ Failed(index).buffered = FALSE
        /\ Failed(index).messages = {} /\ Failed(index).history = options.history
        /\ Whole(Failed(index))
    BY DEF Failed, Whole
  <2> QED BY <1>1, <1>3, <1>5, <2>1, <2>2, <2>3, PollEnds
<1> QED BY <1>4, <1>5

(* The timer and the keys start a poll or leave everything as it is.       *)
LEMMA KeyHonest ==
  ASSUME TypeOK, Honest, Timer \/ Key \/ UNCHANGED vars
  PROVE  Honest'
<1>0. UNCHANGED <<view, initialized, snapshots>>
  BY DEF Timer, Key, SwitchSource, ToggleHistory, TogglePause, Reconnect, Quit, vars, inspector
<1>1. CASE Timer \/ SwitchSource \/ ToggleHistory
  <2>1. /\ pc = "input" /\ pc' = "read" /\ index' = active' /\ ~reconnecting /\ ~reconnecting'
        /\ got' = {}
    BY <1>1 DEF Timer, SwitchSource, ToggleHistory, Forced, Poll, mode, Honest, Loop
  <2>2. Loop'
    BY <2>1 DEF Loop
  <2>3. /\ Declaring' /\ OfTheMapped' /\ ReadIsShown' /\ ContentIsRead'
        /\ ReadStands' /\ SnapshotsWhole'
    BY <1>0, <2>1 DEF Honest, Declaring, OfTheMapped, Reopened, ReadIsShown, BeingDeclared, ContentIsRead,
                      ReadStands, SnapshotsWhole, Whole
  <2>4. ActivePolled'
    BY <2>1 DEF ActivePolled, Shown
  <2> QED BY <2>2, <2>3, <2>4 DEF Honest
<1>2. CASE TogglePause \/ UNCHANGED vars
  <2>1. UNCHANGED <<pc, reconnecting, index, got, active, options, moved, content>>
    BY <1>2 DEF TogglePause, vars, mode, shm
  <2> QED BY <1>0, <2>1 DEF Honest, Loop, Declaring, OfTheMapped, Reopened, ReadIsShown, BeingDeclared,
                            ContentIsRead, ReadStands, SnapshotsWhole, Whole, ActivePolled, Shown
<1>3. CASE Reconnect \/ Quit
  <2>1. /\ pc = "input" /\ UNCHANGED <<got, active, options>>
        /\ \/ pc' = "reopen" /\ reconnecting'
           \/ pc' = "quit" /\ UNCHANGED <<reconnecting, index>>
    BY <1>3 DEF Reconnect, Quit, mode
  <2>2. Loop'
    BY <2>1 DEF Honest, Loop
  <2>3. /\ Declaring' /\ OfTheMapped' /\ ReadIsShown' /\ ContentIsRead'
        /\ ReadStands' /\ SnapshotsWhole'
    BY <1>0, <2>1 DEF Honest, Declaring, OfTheMapped, Reopened, ReadIsShown, BeingDeclared, ContentIsRead,
                      ReadStands, SnapshotsWhole, Whole
  <2>4. ActivePolled'
    BY <1>0, <2>1 DEF Honest, ActivePolled, Shown
  <2> QED BY <2>2, <2>3, <2>4 DEF Honest
<1> QED BY <1>1, <1>2, <1>3 DEF Key

LEMMA InspectorInvariant == Spec => []IInv
<1>1. Init => IInv
  <2> SUFFICES ASSUME Init PROVE IInv
    OBVIOUS
  <2>1. TypeOK
    BY InspectorTypeInit
  <2>2. \A s \in Source : /\ snapshots[s].from = "unpolled" /\ snapshots[s].buffered = FALSE
                          /\ snapshots[s].messages = {}
                          /\ ~initialized[s]
    BY DEF Init, NoSnapshot
  <2>3. pc = "read" /\ ~reconnecting /\ index = active /\ got = {}
    BY DEF Init
  <2> QED BY <2>1, <2>2, <2>3 DEF IInv, Loop, Declaring, OfTheMapped, ReadIsShown, BeingDeclared,
                                  ContentIsRead, ReadStands, SnapshotsWhole, Whole, ActivePolled,
                                  Shown
<1>2. IInv /\ [Next]_vars => IInv'
  <2> SUFFICES ASSUME IInv, [Next]_vars PROVE IInv'
    OBVIOUS
  <2>1. TypeOK /\ Honest
    BY DEF IInv, Honest
  <2>2. TypeOK'
    BY <2>1, InspectorTypeStep DEF Honest
  <2>3. Honest'
    BY <2>1, <2>2, OutsideHonest, ReadHonest, ReadFailsHonest, SizeHonest, ReopenHonest, KeyHonest
    DEF Next, App
  <2> QED BY <2>2, <2>3 DEF IInv, Honest
<1> QED BY <1>1, <1>2, PTL DEF Spec

-----------------------------------------------------------------------------
(* The results.                                                            *)

(* The loop of run() and the keys keep the types, the memory on the screen *)
(* and the one polled among those of the command line.                     *)
THEOREM InspectorTypeCorrect == Spec => []TypeOK
<1>1. IInv => TypeOK
  BY DEF IInv
<1> QED BY <1>1, InspectorInvariant, PTL

(* What is drawn comes from the memory that is mapped now, an error is     *)
(* drawn exactly when nothing could be read, and the mode is the one       *)
(* selected, whatever the masters do between peeking and make_snapshot()   *)
(* and for any number of memories that reconnect_all() goes through. If    *)
(* nobody moved the queues between the two, messages and sizes agree.      *)
THEOREM ScreenHonest == Spec => []ScreenIsHonest
<1>1. IInv => ScreenIsHonest
  <2> SUFFICES ASSUME IInv, pc = "input"
               PROVE  /\ snapshots[active].from \in {"none", view[active]}
                      /\ snapshots[active].from = "none" <=> ~initialized[active]
                      /\ ~options.keep_last_queue => snapshots[active].history = options.history
                      /\ ~snapshots[active].torn =>
                             (snapshots[active].messages # {} <=> snapshots[active].buffered)
    BY DEF ScreenIsHonest
  <2>1. active \in Source /\ snapshots[active].from # "unpolled" /\ ~reconnecting
    BY DEF IInv, TypeOK, ActivePolled, Shown, Loop
  <2>2. snapshots[active].from \in {"none", view[active]}
    BY <2>1 DEF IInv, OfTheMapped, Reopened
  <2>3. initialized[active] <=> snapshots[active].from \in {"live", "old"}
    BY <2>1 DEF IInv, ReadIsShown, BeingDeclared
  <2>4. view[active] \in {"none", "live", "old"}
    BY <2>1 DEF IInv, TypeOK
  <2>5. ~options.keep_last_queue => snapshots[active].history = options.history
    BY DEF IInv, ActivePolled, Shown
  <2>6. ~snapshots[active].torn => (snapshots[active].messages # {} <=> snapshots[active].buffered)
    BY <2>1 DEF IInv, SnapshotsWhole, Whole
  <2> QED BY <2>2, <2>3, <2>4, <2>5, <2>6
<1> QED BY <1>1, InspectorInvariant, PTL

(* With --keep-last-queue no step but a reconnect replaces a snapshot with *)
(* messages by one without, unless one of the two is torn: poll_source()   *)
(* decides by the sizes, the messages agree with them otherwise, and       *)
(* initialize() cannot fail any more for a memory that was read once.      *)
THEOREM LastContentIsKept == Spec => KeepsLast
<1> DEFINE Keeps == \A s \in Source :
               /\ options.keep_last_queue
               /\ ~reconnecting
               /\ snapshots[s].messages # {}
               /\ snapshots'[s].messages = {}
               => snapshots[s].torn \/ snapshots'[s].torn
<1>1. IInv /\ [Next]_vars => [Keeps]_vars
  <2> SUFFICES ASSUME IInv, [Next]_vars, NEW s \in Source,
                      options.keep_last_queue, ~reconnecting,
                      snapshots[s].messages # {}, snapshots'[s].messages = {}
               PROVE  snapshots[s].torn \/ snapshots'[s].torn
    OBVIOUS
  <2>0. index \in Source /\ TypeOK
    BY DEF IInv, TypeOK
  <2>1. CASE UNCHANGED snapshots
    BY <2>1
  <2>2. CASE Outside
    <3>1. PICK t \in Source : UNCHANGED snapshots \/ snapshots' = [snapshots EXCEPT ![t].from = Aged(@)]
      BY <2>2 DEF Outside, MasterCreates, MasterIsReady, MasterEnds, MasterPushes, OtherDrains
    <3>2. snapshots[s] \in Snapshot(s) /\ DOMAIN snapshots = Source
      BY <2>0 DEF TypeOK
    <3> QED BY <3>1, <3>2 DEF Snapshot
  <2>3. CASE ReadFails
    <3>1. /\ pc = "read" /\ FALSE \in Initializes(index)
          /\ snapshots' = [snapshots EXCEPT ![index] = Failed(index)]
      BY <2>3 DEF ReadFails
    <3>2. ~initialized[index]
      BY <3>1 DEF Initializes
    <3>3. initialized[s]
      BY <3>1 DEF IInv, ContentIsRead, ReadIsShown, BeingDeclared
    <3>4. s # index
      BY <3>2, <3>3
    <3> QED BY <2>0, <3>1, <3>4 DEF TypeOK
  <2>4. CASE Size
    <3>1. PICK new \in Made(index) : snapshots' = IF Replaces(index, new)
                                                  THEN [snapshots EXCEPT ![index] = new]
                                                  ELSE snapshots
      BY <2>4 DEF Size
    <3>2. CASE s = index /\ Replaces(index, new)
      <4>1. snapshots'[s] = new
        BY <2>0, <3>1, <3>2 DEF TypeOK
      <4>2. CASE new.buffered
        <5>1. Whole(new)
          BY <2>0, <2>4, MadeWhole DEF Size, IInv
        <5> QED BY <4>1, <4>2, <5>1 DEF Whole
      <4>3. CASE ~snapshots[s].buffered
        BY <4>3 DEF IInv, SnapshotsWhole, Whole
      <4> QED BY <3>2, <4>2, <4>3 DEF Replaces
    <3>3. CASE ~(s = index /\ Replaces(index, new))
      BY <2>0, <3>1, <3>3 DEF TypeOK
    <3> QED BY <3>2, <3>3
  <2>5. CASE Reopen
    BY <2>5 DEF Reopen, IInv, Loop
  <2>6. CASE Read \/ Timer \/ Key \/ UNCHANGED vars
    BY <2>1, <2>6 DEF Read, Timer, Key, SwitchSource, ToggleHistory, TogglePause, Reconnect, Quit, vars
  <2> QED BY <2>2, <2>3, <2>4, <2>5, <2>6 DEF Next, App
<1> QED BY <1>1, InspectorInvariant, PTL DEF Spec, KeepsLast
=============================================================================
