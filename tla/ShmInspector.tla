---------------------------- MODULE ShmInspector ----------------------------
(***************************************************************************)
(* The shared-memory inspector (tools/shm_tools): a terminal program that  *)
(* peeks at the queues of several shared memories while the EtherCAT       *)
(* master, which owns them, pushes, restarts and goes away, and other      *)
(* processes drain them. InspectorApp::run() polls the memory on the       *)
(* screen, keeps one snapshot per memory, draws it and waits for a key or  *)
(* for the next poll; a BridgeInspector holds the mapping of one memory.   *)
(*                                                                         *)
(* A poll is two steps, because the messages are read before the sizes of  *)
(* the queues are, and everybody else moves in between. Of the messages    *)
(* and counters a snapshot keeps which queues had a message and whether    *)
(* anything was buffered, which is all that is asked of the total; rates,  *)
(* ages and the layout of the screen are left out, and with them the keys  *)
(* that only move about on it.                                             *)
(*                                                                         *)
(* A memory the master removed lives on in the mappings that still hold    *)
(* it. It is "old" then, whatever comes under the same name afterwards,    *)
(* and what it still holds is open: others who hold it may drain it.       *)
(*                                                                         *)
(* Operators named Mutant... are wrong variants of the operator after      *)
(* them. No specification uses them: they show which property notices.     *)
(***************************************************************************)
EXTENDS Naturals

CONSTANTS
    NumSources,  \* shared memories on the command line
    Queues,      \* per memory, the declared queues that are in use
    Capacity     \* slots of a queue

Source == 1..NumSources

(* declare() of the three bridges: the queues of each kind of memory.      *)
Declared ==
    [rx |-> {"imu", "motor", "gripper", "force_torque", "power_board", "pump", "valve"},
     tx |-> {"motor", "pump", "valve", "gripper"},
     service |-> {"request", "reply"}]

ASSUME SourcesAssumption == NumSources \in Nat \ {0}
ASSUME QueuesAssumption ==
    /\ DOMAIN Queues = Source
    /\ \A s \in Source : \E kind \in DOMAIN Declared : Queues[s] \subseteq Declared[kind]
ASSUME CapacityAssumption == Capacity \in Nat \ {0}

VARIABLES
    memory,       \* what is behind each name: "absent", "created" or "ready"
    content,      \* messages in each queue of the memory behind the name
    view,         \* the memory a BridgeInspector maps: "none", "live", "old"
    initialized,  \* BridgeInspector::initialized_
    snapshots,    \* InspectorApp::run(): the last snapshot of each memory
    active,       \* InspectorApp::run(): the memory on the screen
    options,      \* InspectorOptions: history and keep_last_queue
    paused,       \* InspectorTui::paused_
    pc,           \* where run() is
    reconnecting, \* run() is in reconnect_all()
    index,        \* the memory being polled
    got,          \* the queues read() found a message in
    moved         \* history: the queues of the memory being polled have moved
                  \* since its messages were read, or may have, if it is old

shm == <<memory, content>>
inspector == <<view, initialized>>
mode == <<active, options, paused>>
vars == <<shm, inspector, snapshots, mode, pc, reconnecting, index, got, moved>>

Levels(s) == [Queues[s] -> 0..Capacity]
Empty(s) == [q \in Queues[s] |-> 0]

(***************************************************************************)
(* A snapshot: the memory it was taken of ("none" when the poll failed,    *)
(* "unpolled" before the first), the queues with a message to show,        *)
(* whether total_buffered is above zero and the mode it was taken in. As   *)
(* history, whether it is torn: the memory may have moved after the        *)
(* messages were read and before the sizes were.                           *)
(***************************************************************************)
Snapshot(s) ==
    [from: {"unpolled", "none", "live", "old"}, messages: SUBSET Queues[s],
     buffered: BOOLEAN, history: BOOLEAN, torn: BOOLEAN]

NoSnapshot(s) == [from |-> "unpolled", messages |-> {},
                  buffered |-> FALSE, history |-> FALSE, torn |-> FALSE]
Failed(s) == [from |-> "none", messages |-> {},
              buffered |-> FALSE, history |-> options.history, torn |-> FALSE]

(* SharedMemory::open() finds what is behind the name now.                 *)
Opened(s) == IF memory[s] = "absent" THEN "none" ELSE "live"

(* main() and the inspectors' constructors: nothing is polled yet.         *)
Init ==
    /\ memory \in [Source -> {"absent", "created", "ready"}]
    /\ content = [s \in Source |-> Empty(s)]
    /\ view = [s \in Source |-> Opened(s)]
    /\ initialized = [s \in Source |-> FALSE]
    /\ snapshots = [s \in Source |-> NoSnapshot(s)]
    /\ active = 1
    /\ options \in [history: BOOLEAN, keep_last_queue: BOOLEAN]
    /\ paused = FALSE
    /\ pc = "read"
    /\ reconnecting = FALSE
    /\ index = 1
    /\ got = {}
    /\ moved = FALSE

-----------------------------------------------------------------------------
(* The master and the processes that drain the queues.                     *)

MasterCreates(s) ==
    /\ memory[s] = "absent"
    /\ memory' = [memory EXCEPT ![s] = "created"]
    /\ UNCHANGED <<content, inspector, snapshots, mode, pc, reconnecting, index, got, moved>>

MasterIsReady(s) ==
    /\ memory[s] = "created"
    /\ memory' = [memory EXCEPT ![s] = "ready"]
    /\ UNCHANGED <<content, inspector, snapshots, mode, pc, reconnecting, index, got, moved>>

Aged(from) == IF from = "live" THEN "old" ELSE from

(* Something changes between the two readings of a poll of this memory.    *)
Moves(s) == moved' = (moved \/ (pc = "size" /\ s = index))

(* The name goes; who maps the memory keeps it, with what is in it.        *)
MasterEnds(s) ==
    /\ memory[s] # "absent"
    /\ memory' = [memory EXCEPT ![s] = "absent"]
    /\ content' = [content EXCEPT ![s] = Empty(s)]
    /\ view' = [view EXCEPT ![s] = Aged(@)]
    /\ snapshots' = [snapshots EXCEPT ![s].from = Aged(@)]
    /\ Moves(s)
    /\ UNCHANGED <<initialized, mode, pc, reconnecting, index, got>>

MasterPushes(s, q) ==
    /\ memory[s] = "ready"
    /\ content[s][q] < Capacity
    /\ content' = [content EXCEPT ![s][q] = @ + 1]
    /\ Moves(s)
    /\ UNCHANGED <<memory, inspector, snapshots, mode, pc, reconnecting, index, got>>

OtherDrains(s, q) ==
    /\ content[s][q] > 0
    /\ content' = [content EXCEPT ![s][q] = 0]
    /\ Moves(s)
    /\ UNCHANGED <<memory, inspector, snapshots, mode, pc, reconnecting, index, got>>

(* What they do after the inspector has ended is nobody's concern.         *)
Outside ==
    /\ pc # "quit"
    /\ \E s \in Source :
           \/ MasterCreates(s) \/ MasterIsReady(s) \/ MasterEnds(s)
           \/ \E q \in Queues[s] : MasterPushes(s, q) \/ OtherDrains(s, q)

-----------------------------------------------------------------------------
(* BridgeInspector                                                         *)

(* What the descriptors' references can lead to.                           *)
Mapped(s) == IF view[s] = "live" THEN {content[s]} ELSE Levels(s)

(* SharedMemory::is_ok(): what a removed memory answers is left open.      *)
IsOk(s) ==
    CASE view[s] = "none" -> {FALSE}
      [] view[s] = "live" -> {memory[s] = "ready"}
      [] view[s] = "old" -> BOOLEAN

(* initialize() is done once it succeeded; until then it declares the      *)
(* queues of the memory that is mapped, if that is ok. It opens none.      *)
Initializes(s) == IF initialized[s] THEN {TRUE} ELSE IsOk(s)

(* The queues peek_all() or peek_latest() finds a message in.              *)
Peeked(s) == {{q \in Queues[s] : level[q] > 0} : level \in Mapped(s)}

(* make_snapshot(): the sizes are read now, the messages were read before. *)
Made(s) == {[from |-> view[s], messages |-> got,
             buffered |-> \E q \in Queues[s] : level[q] > 0,
             history |-> options.history, torn |-> moved] : level \in Mapped(s)}

-----------------------------------------------------------------------------
(* InspectorApp                                                            *)

(* After a memory was polled reconnect_all() goes on to the next, and run() *)
(* draws the active one and waits for a key.                               *)
MutantPolledOne ==
    /\ pc' = "input"
    /\ index' = active
    /\ reconnecting' = FALSE
Polled ==
    IF reconnecting /\ index < NumSources
    THEN /\ pc' = "reopen"
         /\ index' = index + 1
         /\ UNCHANGED reconnecting
    ELSE /\ pc' = "input"
         /\ index' = active
         /\ reconnecting' = FALSE

(* poll(): initialize(), read() and update_stats().                        *)
Read ==
    /\ pc = "read"
    /\ TRUE \in Initializes(index)
    /\ initialized' = [initialized EXCEPT ![index] = TRUE]
    /\ got' \in Peeked(index)
    /\ moved' = (view[index] = "old")
    /\ pc' = "size"
    /\ UNCHANGED <<shm, view, snapshots, mode, reconnecting, index>>

(* poll_source(): initialize() throws.                                     *)
ReadFails ==
    /\ pc = "read"
    /\ FALSE \in Initializes(index)
    /\ snapshots' = [snapshots EXCEPT ![index] = Failed(index)]
    /\ Polled
    /\ UNCHANGED <<shm, inspector, mode, got, moved>>

(* poll_source() keeps the last snapshot with something in it when asked   *)
(* to; reconnect_source() never does.                                      *)
MutantKeepsAcrossReconnect(s, snapshot) ==
    \/ ~options.keep_last_queue
    \/ snapshot.buffered
    \/ ~snapshots[s].buffered
MutantReplacesAlways(s, snapshot) == TRUE
Replaces(s, snapshot) ==
    \/ reconnecting
    \/ ~options.keep_last_queue
    \/ snapshot.buffered
    \/ ~snapshots[s].buffered

Size ==
    /\ pc = "size"
    /\ \E snapshot \in Made(index) :
           snapshots' = IF Replaces(index, snapshot)
                        THEN [snapshots EXCEPT ![index] = snapshot]
                        ELSE snapshots
    /\ got' = {}
    /\ moved' = FALSE
    /\ Polled
    /\ UNCHANGED <<shm, inspector, mode>>

(* BridgeInspector::reconnect(): forget everything, open, initialize().    *)
Reopen ==
    LET ok == memory[index] = "ready"
    IN  /\ pc = "reopen"
        /\ view' = [view EXCEPT ![index] = Opened(index)]
        /\ initialized' = [initialized EXCEPT ![index] = ok]
        /\ IF ok
           THEN /\ pc' = "read"
                /\ UNCHANGED <<snapshots, reconnecting, index>>
           ELSE /\ snapshots' = [snapshots EXCEPT ![index] = Failed(index)]
                /\ Polled
        /\ UNCHANGED <<shm, mode, got, moved>>

(* run(), top of the loop: the poll that is due, or that a key forces.     *)
Poll(s) ==
    /\ pc' = "read"
    /\ index' = s

(* The next poll is due: the wait for a key ends.                          *)
Timer ==
    /\ pc = "input"
    /\ ~paused
    /\ Poll(active)
    /\ UNCHANGED <<shm, inspector, snapshots, mode, reconnecting, got, moved>>

(* Tab, Shift-Tab and the digits.                                          *)
MutantNextSource == active + 1
NextSource == (active % NumSources) + 1

PreviousSource == ((active + NumSources - 2) % NumSources) + 1

SwitchSource ==
    /\ pc = "input"
    /\ \E s \in {NextSource, PreviousSource} \cup Source :
           active' = s /\ Poll(s)
    /\ UNCHANGED <<shm, inspector, snapshots, options, paused, reconnecting, got, moved>>

(* h: force_poll, so that a pause does not keep the old mode on the screen.*)
Forced == Poll(active)

ToggleHistory ==
    /\ pc = "input"
    /\ options' = [options EXCEPT !.history = ~@]
    /\ Forced
    /\ UNCHANGED <<shm, inspector, snapshots, active, paused, reconnecting, got, moved>>

(* p; a poll that is due by now is the timer's.                            *)
TogglePause ==
    /\ pc = "input"
    /\ paused' = ~paused
    /\ UNCHANGED <<shm, inspector, snapshots, active, options, pc,
                   reconnecting, index, got, moved>>

(* c                                                                       *)
Reconnect ==
    /\ pc = "input"
    /\ pc' = "reopen"
    /\ reconnecting' = TRUE
    /\ index' = 1
    /\ UNCHANGED <<shm, inspector, snapshots, mode, got, moved>>

(* q                                                                       *)
Quit ==
    /\ pc = "input"
    /\ pc' = "quit"
    /\ UNCHANGED <<shm, inspector, snapshots, mode, reconnecting, index, got, moved>>

Key == SwitchSource \/ ToggleHistory \/ TogglePause \/ Reconnect \/ Quit

App == Read \/ ReadFails \/ Size \/ Reopen \/ Timer

Next == Outside \/ App \/ Key

(* The program's own steps are taken; nobody has to press a key, and the   *)
(* master does as it likes.                                                *)
Spec == Init /\ [][Next]_vars /\ WF_vars(App)

-----------------------------------------------------------------------------
TypeOK ==
    /\ memory \in [Source -> {"absent", "created", "ready"}]
    /\ DOMAIN content = Source /\ \A s \in Source : content[s] \in Levels(s)
    /\ view \in [Source -> {"none", "live", "old"}]
    /\ initialized \in [Source -> BOOLEAN]
    /\ DOMAIN snapshots = Source /\ \A s \in Source : snapshots[s] \in Snapshot(s)
    /\ active \in Source /\ index \in Source
    /\ options \in [history: BOOLEAN, keep_last_queue: BOOLEAN]
    /\ paused \in BOOLEAN /\ reconnecting \in BOOLEAN
    /\ pc \in {"read", "size", "reopen", "input", "quit"}
    /\ got \subseteq Queues[index]
    /\ moved \in BOOLEAN

(***************************************************************************)
(* What is on the screen is what it says it is. The content drawn was read *)
(* from the memory that is mapped now: a reconnect leaves nothing of the   *)
(* memory before it, not even when the last content is to be kept. An      *)
(* error is shown only if no memory could be read. Without                 *)
(* --keep-last-queue the screen is of the selected mode, latest or         *)
(* history, also when paused. And there is a message on it just when its   *)
(* sizes say so, unless the queues moved between the two readings of that  *)
(* poll.                                                                   *)
(***************************************************************************)
ScreenIsHonest ==
    pc = "input" =>
        LET shown == snapshots[active]
        IN  /\ shown.from \in {"none", view[active]}
            /\ shown.from = "none" <=> ~initialized[active]
            /\ ~options.keep_last_queue => shown.history = options.history
            /\ ~shown.torn => (shown.messages # {} <=> shown.buffered)

(***************************************************************************)
(* --keep-last-queue: as long as the user does not reconnect, a memory     *)
(* that was shown with messages is never shown without any again, although *)
(* its queues are drained and its master goes. What is decided by the      *)
(* sizes holds for the messages only if both are of one moment: a torn     *)
(* poll may replace the messages kept by none, and messages kept of a torn *)
(* poll, with sizes of zero, may be replaced by any other.                 *)
(***************************************************************************)
KeepsLast ==
    [][\A s \in Source :
           /\ options.keep_last_queue
           /\ ~reconnecting
           /\ snapshots[s].messages # {}
           /\ snapshots'[s].messages = {}
           => snapshots[s].torn \/ snapshots'[s].torn]_vars

(***************************************************************************)
(* c: when all masters are there for good, one reconnect is enough to show *)
(* every memory as it is, whatever was mapped before.                      *)
(***************************************************************************)
AllReady == \A s \in Source : memory[s] = "ready"
AllLive == \A s \in Source : snapshots[s].from = "live"

ReconnectRecovers ==
    (pc = "reopen" /\ index = 1 /\ []AllReady) ~> []AllLive

=============================================================================
