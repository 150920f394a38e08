------------------------------ MODULE ReplService ------------------------------
(***************************************************************************)
(* AdapterServiceServer: REPL commands carried to the EtherCAT master over *)
(* ZeroMQ, one transaction at a time under request_mutex_, each on a REQ   *)
(* socket of its own that is closed with linger 0 when the call returns.   *)
(*                                                                         *)
(* The master and the network are external. A message that was handed to   *)
(* ZeroMQ may be delivered, wait in the master's queue for any time (also  *)
(* after its socket was closed), be lost, or be answered too late; the     *)
(* master serves its connections in any order, may restart at any moment,  *)
(* and may answer with something that is no reply to the command.          *)
(*                                                                         *)
(* Operators named Mutant... are wrong variants of the operator after      *)
(* them. No specification uses them: they show which property notices.     *)
(***************************************************************************)
EXTENDS Naturals

CONSTANTS
    Request,    \* the calls of process_request() that are made
    Type,       \* the command types
    type,       \* the type of the command of each call
    NoRequest   \* nobody holds the mutex

ASSUME RequestAssumption ==
    /\ type \in [Request -> Type]
    /\ NoRequest \notin Request

VARIABLES
    started_,  \* AdapterServiceServer::started_
    mutex,     \* the call that holds request_mutex_
    phase,     \* per call: where its thread is
    verdict,   \* per call: the ServiceResult
    message,   \* per call: where the command message is
    replies,   \* the replies on their way to a socket
    executed   \* history: how often the master executed the command

vars == <<started_, mutex, phase, verdict, message, replies, executed>>

Phase == {"idle", "locking", "sending", "receiving", "returned"}
Place == {"nowhere", "socket", "master", "done", "refused", "gone"}
Verdict == {"pending", "ack", "nack", "not_sent", "unknown"}
Reply == [socket: Request, answer: {"ACK", "NACK", "malformed"}, cmd_type: Type]

Init ==
    /\ started_ \in BOOLEAN
    /\ mutex = NoRequest
    /\ phase = [r \in Request |-> "idle"]
    /\ verdict = [r \in Request |-> "pending"]
    /\ message = [r \in Request |-> "nowhere"]
    /\ replies = {}
    /\ executed = [r \in Request |-> 0]

-----------------------------------------------------------------------------
(* The caller's thread.                                                    *)

(* process_request_result() is called.                                     *)
Call(r) ==
    /\ phase[r] = "idle"
    /\ phase' = [phase EXCEPT ![r] = "locking"]
    /\ UNCHANGED <<started_, mutex, verdict, message, replies, executed>>

(* The call returns: the mutex is released and the socket is closed, which *)
(* drops a message that has not left it (linger 0).                        *)
Return(r, v) ==
    /\ phase' = [phase EXCEPT ![r] = "returned"]
    /\ verdict' = [verdict EXCEPT ![r] = v]
    /\ mutex' = NoRequest
    /\ message' = [message EXCEPT ![r] = IF @ = "socket" THEN "gone" ELSE @]

MutantNoMutex(r) == UNCHANGED mutex
Acquire(r) == mutex' = r

Lock(r) ==
    /\ phase[r] = "locking"
    /\ mutex = NoRequest
    /\ \/ /\ started_
          /\ Acquire(r)
          /\ phase' = [phase EXCEPT ![r] = "sending"]
          /\ UNCHANGED <<verdict, message>>
       \/ ~started_ /\ Return(r, "not_sent")
    /\ UNCHANGED <<started_, replies, executed>>

Send(r) ==
    /\ phase[r] = "sending"
    /\ phase' = [phase EXCEPT ![r] = "receiving"]
    /\ message' = [message EXCEPT ![r] = "socket"]
    /\ UNCHANGED <<started_, mutex, verdict, replies, executed>>

(* The request is incomplete, connect() throws, or send() times out.       *)
SendFails(r) ==
    /\ phase[r] = "sending"
    /\ Return(r, "not_sent")
    /\ UNCHANGED <<started_, replies, executed>>

(* The socket a call sends on and receives from.                           *)
MutantOneSocket(r) == CHOOSE first \in Request : TRUE
Socket(r) == r

(* execute_zmq: what a received message makes of the call.                 *)
MutantRawAnswer(r, reply) == reply.answer
ResultOf(r, reply) ==
    IF reply.answer = "malformed" \/ reply.cmd_type # type[r] THEN "unknown"
    ELSE IF reply.answer = "ACK" THEN "ack" ELSE "nack"

Receive(r) ==
    /\ phase[r] = "receiving"
    /\ \E reply \in replies :
           /\ reply.socket = Socket(r)
           /\ replies' = replies \ {reply}
           /\ Return(r, ResultOf(r, reply))
    /\ UNCHANGED <<started_, executed>>

(* No reply in time, or recv() throws after the command was sent.          *)
MutantWaitForever(r) == FALSE /\ Return(r, "unknown")
MutantRetry(r) ==
    /\ message' = [message EXCEPT ![r] = "socket"]
    /\ UNCHANGED <<phase, verdict, mutex>>
NoReply(r) == Return(r, "unknown")

ReceiveFails(r) ==
    /\ phase[r] = "receiving"
    /\ NoReply(r)
    /\ UNCHANGED <<started_, replies, executed>>

Transaction(r) ==
    Lock(r) \/ Send(r) \/ SendFails(r) \/ Receive(r) \/ ReceiveFails(r)

(* start() and close() wait for the transaction that is under way.         *)
StartOrClose ==
    /\ mutex = NoRequest
    /\ started_' = ~started_
    /\ UNCHANGED <<mutex, phase, verdict, message, replies, executed>>

-----------------------------------------------------------------------------
(* ZeroMQ and the master.                                                  *)

Deliver(r) ==
    /\ message[r] = "socket"
    /\ message' = [message EXCEPT ![r] = "master"]
    /\ UNCHANGED <<started_, mutex, phase, verdict, replies, executed>>

MasterExecutes(r) ==
    /\ message[r] = "master"
    /\ message' = [message EXCEPT ![r] = "done"]
    /\ executed' = [executed EXCEPT ![r] = @ + 1]
    /\ UNCHANGED <<started_, mutex, phase, verdict, replies>>

MasterRefuses(r) ==
    /\ message[r] = "master"
    /\ message' = [message EXCEPT ![r] = "refused"]
    /\ UNCHANGED <<started_, mutex, phase, verdict, replies, executed>>

MasterReplies(r) ==
    /\ message[r] \in {"done", "refused"}
    /\ message' = [message EXCEPT ![r] = "gone"]
    /\ \E answer \in {IF message[r] = "done" THEN "ACK" ELSE "NACK", "malformed"} :
           replies' = replies \cup {[socket |-> Socket(r), answer |-> answer,
                                     cmd_type |-> type[r]]}
    /\ UNCHANGED <<started_, mutex, phase, verdict, executed>>

(* Whatever the master holds is lost, also replies it owed.                *)
MasterRestarts ==
    /\ message' = [r \in Request |->
          IF message[r] \in {"master", "done", "refused"} THEN "gone" ELSE message[r]]
    /\ UNCHANGED <<started_, mutex, phase, verdict, replies, executed>>

Outside(r) ==
    Deliver(r) \/ MasterExecutes(r) \/ MasterRefuses(r) \/ MasterReplies(r)

Next ==
    \/ \E r \in Request : Call(r) \/ Transaction(r) \/ Outside(r)
    \/ StartOrClose
    \/ MasterRestarts

(* The caller's thread keeps running: sndtimeo and rcvtimeo bound every    *)
(* wait in it. Nothing is assumed of the master, and the mutex need not be *)
(* fair: a thread that waits for it is delayed by at most the other calls. *)
Fairness == \A r \in Request : WF_vars(Transaction(r))

Spec == Init /\ [][Next]_vars /\ Fairness

-----------------------------------------------------------------------------
TypeOK ==
    /\ started_ \in BOOLEAN
    /\ mutex \in Request \cup {NoRequest}
    /\ phase \in [Request -> Phase]
    /\ verdict \in [Request -> Verdict]
    /\ message \in [Request -> Place]
    /\ replies \subseteq Reply
    /\ executed \in [Request -> Nat]

(***************************************************************************)
(* "No command is retried automatically": the master executes a command at *)
(* most once, whatever is lost, late or answered wrongly.                  *)
(***************************************************************************)
AtMostOnce == \A r \in Request : executed[r] <= 1

(***************************************************************************)
(* ServiceResult tells the truth about the command, now and later: it      *)
(* implements CommandOutcome. A late reply cannot satisfy a later request, *)
(* and a timeout is never reported as proof that nothing happened.         *)
(***************************************************************************)
Outcome == INSTANCE CommandOutcome
           WITH effective <- {r \in Request : executed[r] > 0}

ResultsAreTruthful == Outcome!Spec

(***************************************************************************)
(* request_mutex_: transactions do not overlap, so the master meets the    *)
(* commands of two calls only in the order of the calls, unless the first  *)
(* one was reported unknown.                                               *)
(***************************************************************************)
Settled(r) == verdict[r] \in {"ack", "nack", "not_sent"}

OneTransaction ==
    \A r, s \in Request :
        r # s /\ phase[s] \in {"sending", "receiving"} =>
            /\ phase[r] \notin {"sending", "receiving"}
            /\ phase[r] = "returned" /\ Settled(r) =>
                   message[r] \notin {"socket", "master"}

(***************************************************************************)
(* process_request() always comes back, whatever the master does and in    *)
(* whatever order the threads get the mutex.                               *)
(***************************************************************************)
EveryCallReturns ==
    \A r \in Request : phase[r] = "locking" ~> phase[r] = "returned"

=============================================================================
