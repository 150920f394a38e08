------------------------- MODULE DdsReplService_proofs -------------------------
(***************************************************************************)
(* The REPL service, for any set of calls, command types and clients: the  *)
(* transactions with the master (ReplService) never overlap, execute a     *)
(* command at most once and implement CommandOutcome; the DDS layer on top *)
(* of them (DdsReplService) reports success only of executed commands.     *)
(***************************************************************************)
EXTENDS DdsReplService, TLAPS

-----------------------------------------------------------------------------
(* The inductive invariant of ReplService.                                 *)

(* Only the thread between lock and return holds the mutex.                *)
Held == \A r \in Request : mutex = r <=> phase[r] \in {"sending", "receiving"}

(* A call has its verdict exactly when it has returned.                    *)
Told == \A r \in Request : verdict[r] = "pending" <=> phase[r] # "returned"

(* A message exists from send() on, and leaves the socket or dies with it. *)
Placed ==
    \A r \in Request :
        /\ phase[r] \in {"idle", "locking", "sending"} => message[r] = "nowhere"
        /\ phase[r] = "receiving" => message[r] # "nowhere"
        /\ phase[r] = "returned" => message[r] # "socket"

(* How often a command was executed, by the place of its message.          *)
Counted ==
    \A r \in Request :
        /\ executed[r] \in {0, 1}
        /\ message[r] \in {"nowhere", "socket", "master", "refused"} => executed[r] = 0
        /\ message[r] = "done" => executed[r] = 1

(* A reply is of a command whose message is used up, and says what became  *)
(* of it.                                                                  *)
Replied ==
    \A reply \in replies :
        /\ message[reply.socket] = "gone"
        /\ reply.answer = "ACK" => executed[reply.socket] = 1
        /\ reply.answer = "NACK" => executed[reply.socket] = 0

(* So does a verdict; nothing of the command is left to change it.         *)
Truthful ==
    \A r \in Request :
        /\ verdict[r] = "ack" => message[r] = "gone" /\ executed[r] = 1
        /\ verdict[r] = "nack" => message[r] = "gone" /\ executed[r] = 0
        /\ verdict[r] = "not_sent" => message[r] = "nowhere"

IInv == TypeOK /\ Held /\ Told /\ Placed /\ Counted /\ Replied /\ Truthful

LEMMA InitIInv == Init => IInv
  BY RequestAssumption
  DEF Init, IInv, TypeOK, Held, Told, Placed, Counted, Replied, Truthful, Phase,
      Place, Verdict, Reply

(* Each action keeps the variables in their domains.                       *)
LEMMA StepTypeOK ==
    ASSUME TypeOK, [Next]_vars
    PROVE  TypeOK'
  <1> USE RequestAssumption DEF TypeOK, Phase, Place, Verdict
  <1>1. ASSUME NEW r \in Request, Call(r)
        PROVE  TypeOK'
    BY <1>1 DEF Call
  <1>2. ASSUME NEW r \in Request, Lock(r)
        PROVE  TypeOK'
    BY <1>2 DEF Lock, Acquire, Return
  <1>3. ASSUME NEW r \in Request, Send(r)
        PROVE  TypeOK'
    BY <1>3 DEF Send
  <1>4. ASSUME NEW r \in Request, SendFails(r)
        PROVE  TypeOK'
    BY <1>4 DEF SendFails, Return
  <1>5. ASSUME NEW r \in Request, Receive(r)
        PROVE  TypeOK'
    BY <1>5 DEF Receive, Return, ResultOf
  <1>6. ASSUME NEW r \in Request, ReceiveFails(r)
        PROVE  TypeOK'
    BY <1>6 DEF ReceiveFails, NoReply, Return
  <1>7. ASSUME NEW r \in Request, Deliver(r) \/ MasterRefuses(r)
        PROVE  TypeOK'
    BY <1>7 DEF Deliver, MasterRefuses
  <1>8. ASSUME NEW r \in Request, MasterExecutes(r)
        PROVE  TypeOK'
    BY <1>8 DEF MasterExecutes
  <1>9. ASSUME NEW r \in Request, MasterReplies(r)
        PROVE  TypeOK'
    BY <1>9 DEF MasterReplies, Socket, Reply
  <1>10. CASE StartOrClose
    BY <1>10 DEF StartOrClose
  <1>11. CASE MasterRestarts
    BY <1>11 DEF MasterRestarts
  <1>12. CASE UNCHANGED vars
    BY <1>12 DEF vars
  <1>. QED
    BY <1>1, <1>2, <1>3, <1>4, <1>5, <1>6, <1>7, <1>8, <1>9, <1>10, <1>11, <1>12
    DEF Next, Transaction, Outside

(* The caller's thread: the mutex, the verdict and the socket go together. *)
LEMMA CallerIInv ==
    ASSUME IInv, NEW r \in Request, Call(r) \/ Transaction(r), TypeOK'
    PROVE  IInv'
  <1> USE RequestAssumption
      DEF IInv, TypeOK, Held, Told, Placed, Counted, Replied, Truthful
  <1>1. CASE Call(r)
    BY <1>1 DEF Call
  <1>2. CASE Lock(r)
    BY <1>2 DEF Lock, Acquire, Return
  <1>3. CASE Send(r)
    BY <1>3 DEF Send
  <1>4. CASE SendFails(r)
    BY <1>4 DEF SendFails, Return
  <1>5. CASE Receive(r)
    BY <1>5 DEF Receive, Return, ResultOf, Socket, Reply
  <1>6. CASE ReceiveFails(r)
    BY <1>6 DEF ReceiveFails, NoReply, Return
  <1>. QED
    BY <1>1, <1>2, <1>3, <1>4, <1>5, <1>6 DEF Transaction

(* ZeroMQ and the master: where the message is decides what may follow.    *)
LEMMA OutsideIInv ==
    ASSUME IInv, NEW r \in Request, Outside(r), TypeOK'
    PROVE  IInv'
  <1> USE DEF IInv, TypeOK, Held, Told, Placed, Counted, Replied, Truthful
  <1>1. CASE Deliver(r)
    BY <1>1 DEF Deliver
  <1>2. CASE MasterExecutes(r)
    BY <1>2 DEF MasterExecutes
  <1>3. CASE MasterRefuses(r)
    BY <1>3 DEF MasterRefuses
  <1>4. CASE MasterReplies(r)
    BY <1>4 DEF MasterReplies, Socket, Reply
  <1>. QED
    BY <1>1, <1>2, <1>3, <1>4 DEF Outside

LEMMA StepIInv ==
    ASSUME IInv, [Next]_vars
    PROVE  IInv'
  <1>1. TypeOK'
    BY StepTypeOK DEF IInv
  <1> USE DEF IInv, TypeOK, Held, Told, Placed, Counted, Replied, Truthful
  <1>2. CASE StartOrClose
    BY <1>1, <1>2 DEF StartOrClose
  <1>3. CASE MasterRestarts
    BY <1>1, <1>3 DEF MasterRestarts, Reply
  <1>4. CASE UNCHANGED vars
    BY <1>1, <1>4 DEF vars
  <1>. QED
    BY <1>1, <1>2, <1>3, <1>4, CallerIInv, OutsideIInv DEF Next

LEMMA InvariantHolds == Spec => []IInv
  BY InitIInv, StepIInv, PTL DEF Spec

(***************************************************************************)
(* AdapterServiceServer: every call, message, reply and verdict stays in   *)
(* its domain.                                                             *)
(***************************************************************************)
THEOREM ReplTypeCorrect == Spec => []TypeOK
  BY InvariantHolds, PTL DEF IInv

(***************************************************************************)
(* "No command is retried automatically": whatever ZeroMQ delays or loses  *)
(* and whenever the master restarts, it executes a command at most once.   *)
(***************************************************************************)
THEOREM CommandsAtMostOnce == Spec => []AtMostOnce
  <1>1. ASSUME IInv, NEW r \in Request
        PROVE  executed[r] <= 1
    <2>1. executed[r] = 0 \/ executed[r] = 1
      BY <1>1 DEF IInv, Counted
    <2>. QED
      BY <2>1
  <1>2. IInv => AtMostOnce
    BY <1>1 DEF AtMostOnce
  <1>. QED
    BY <1>2, InvariantHolds, PTL

(***************************************************************************)
(* request_mutex_: no two threads are in a transaction, and a call with a  *)
(* definite verdict has left no message behind that the master could still *)
(* meet during a later one.                                                *)
(***************************************************************************)
THEOREM TransactionsDoNotOverlap == Spec => []OneTransaction
  <1>1. IInv => OneTransaction
    BY RequestAssumption
    DEF IInv, TypeOK, Held, Told, Truthful, OneTransaction, Settled
  <1>. QED
    BY <1>1, InvariantHolds, PTL

-----------------------------------------------------------------------------
(* ReplService implements CommandOutcome.                                  *)

Effective == {r \in Request : executed[r] > 0}

LEMMA InitOutcome == Init => Outcome!Init
  BY DEF Init, Outcome!Init

(* A return is the Answer with its verdict.                                *)
LEMMA ReturnAnswers ==
    ASSUME IInv, NEW r \in Request, phase[r] # "returned",
           NEW v \in Verdict \ {"pending"},
           Return(r, v), UNCHANGED executed,
           v = "ack" => executed[r] = 1,
           v \in {"nack", "not_sent"} => executed[r] = 0
    PROVE  Outcome!Next
  <1>1. Outcome!Answer(r, v)
    BY DEF IInv, Told, Return, Outcome!Answer
  <1>. QED
    BY <1>1 DEF Outcome!Next, Outcome!Verdict, Verdict

(* Everything but an execution and a return is a stuttering step.          *)
LEMMA StepOutcome ==
    ASSUME IInv, [Next]_vars
    PROVE  [Outcome!Next]_(Outcome!vars)
  <1>1. ASSUME UNCHANGED <<executed, verdict>>
        PROVE  UNCHANGED Outcome!vars
    BY <1>1 DEF Outcome!vars
  <1>2. ASSUME NEW r \in Request, Lock(r)
        PROVE  UNCHANGED <<executed, verdict>> \/ Outcome!Next
    BY <1>2, ReturnAnswers DEF Lock, IInv, Placed, Counted, Verdict
  <1>3. ASSUME NEW r \in Request, SendFails(r)
        PROVE  Outcome!Next
    BY <1>3, ReturnAnswers DEF SendFails, IInv, Placed, Counted, Verdict
  <1>4. ASSUME NEW r \in Request, Receive(r)
        PROVE  Outcome!Next
    <2>1. PICK reply \in replies : reply.socket = r /\ Return(r, ResultOf(r, reply))
      BY <1>4 DEF Receive, Socket
    <2>2. /\ ResultOf(r, reply) \in Verdict \ {"pending"}
          /\ ResultOf(r, reply) = "ack" => reply.answer = "ACK"
          /\ ResultOf(r, reply) = "nack" => reply.answer = "NACK"
          /\ ResultOf(r, reply) # "not_sent"
      BY DEF ResultOf, Verdict, IInv, TypeOK, Reply
    <2>. QED
      BY <1>4, <2>1, <2>2, ReturnAnswers DEF Receive, IInv, Replied
  <1>5. ASSUME NEW r \in Request, ReceiveFails(r)
        PROVE  Outcome!Next
    BY <1>5, ReturnAnswers DEF ReceiveFails, NoReply, Verdict
  <1>6. ASSUME NEW r \in Request, MasterExecutes(r)
        PROVE  Outcome!Next
    <2>1. executed[r] = 0 /\ verdict[r] \in {"pending", "unknown"}
      BY <1>6 DEF MasterExecutes, IInv, TypeOK, Verdict, Counted, Truthful
    <2>2. Effective' = Effective \cup {r} /\ r \notin Effective
      BY <1>6, <2>1 DEF MasterExecutes, Effective, IInv, TypeOK
    <2>3. Outcome!TakesEffect(r)
      BY <1>6, <2>1, <2>2 DEF MasterExecutes, Effective, Outcome!TakesEffect
    <2>. QED
      BY <2>3 DEF Outcome!Next
  <1>. QED
    BY <1>1, <1>2, <1>3, <1>4, <1>5, <1>6
    DEF Next, Transaction, Outside, Call, Send, Deliver, MasterRefuses, MasterReplies,
        StartOrClose, MasterRestarts, vars

(***************************************************************************)
(* process_request_result() never lies: ReplService implements             *)
(* CommandOutcome, so a command takes effect at most once, an ACK is of a  *)
(* command that had its effect, and after a NACK or not_sent it has none   *)
(* and gets none later.                                                    *)
(***************************************************************************)
THEOREM ResultsTruthful == Spec => ResultsAreTruthful
  BY InitOutcome, StepOutcome, InvariantHolds, PTL
  DEF Spec, ResultsAreTruthful, Outcome!Spec

-----------------------------------------------------------------------------
(* The inductive invariant of DdsReplService.                              *)

(* What a client is in, and what its calls returned.                       *)
CallsOwned ==
    /\ \A c \in Client : calling[c] # NoRequest =>
           client[calling[c]] = c /\ calling[c] \notin returned
    /\ \A r \in Request \ returned : response[r] = {}

(* The path of a call of a client that is alone and in time: the request   *)
(* in the server's reader, then in the worker, then the response in the    *)
(* client's reader, and nothing else anywhere.                             *)
OnlyRequest(r) == requests = <<>> \/ (r # NoRequest /\ requests = <<r>> /\ serving = NoRequest)
OnlyServing(r) == serving = NoRequest \/ (serving = r /\ requests = <<>>)
OnlyResponse(c, r) ==
    \/ inbox[c] = <<>>
    \/ /\ Len(inbox[c]) = 1 /\ inbox[c][1].request_id = r
       /\ requests = <<>> /\ serving = NoRequest

OneUnderWay ==
    \A c \in Client : AloneAndInTime(c) =>
        /\ OnlyRequest(calling[c])
        /\ OnlyServing(calling[c])
        /\ OnlyResponse(c, calling[c])
        /\ calling[c] = NoRequest => requests = <<>> /\ serving = NoRequest /\ inbox[c] = <<>>

(* KeepLast is a bounded history of samples of the same kind.              *)
LEMMA KeepLastType ==
    ASSUME NEW S, NEW history \in Seq(S), Len(history) <= HistoryDepth, NEW sample \in S
    PROVE  /\ KeepLast(history, sample) \in Seq(S)
           /\ Len(KeepLast(history, sample)) <= HistoryDepth
  <1>1. CASE Len(history) < HistoryDepth
    BY <1>1, DdsAssumption DEF KeepLast
  <1>2. CASE Len(history) = HistoryDepth
    <2>1. history # <<>>
      BY <1>2, DdsAssumption
    <2>2. Tail(history) \in Seq(S) /\ Len(Tail(history)) = Len(history) - 1
      BY <2>1
    <2>. QED
      BY <1>2, <2>2, DdsAssumption DEF KeepLast
  <1>. QED
    BY <1>1, <1>2, DdsAssumption

(* What it holds is what it held, and the new sample.                      *)
LEMMA KeepLastHolds ==
    ASSUME NEW S, NEW history \in Seq(S), NEW sample \in S,
           NEW i \in DOMAIN KeepLast(history, sample)
    PROVE  \/ KeepLast(history, sample)[i] = sample
           \/ \E j \in DOMAIN history : KeepLast(history, sample)[i] = history[j]
  <1>1. CASE Len(history) < HistoryDepth
    BY <1>1 DEF KeepLast
  <1>2. CASE ~(Len(history) < HistoryDepth)
    <2>1. history # <<>>
      BY <1>2, DdsAssumption
    <2>2. /\ Tail(history) \in Seq(S) /\ Len(Tail(history)) = Len(history) - 1
          /\ \A j \in 1..Len(Tail(history)) : Tail(history)[j] = history[j + 1]
      BY <2>1
    <2>. QED
      BY <1>2, <2>2 DEF KeepLast
  <1>. QED
    BY <1>1, <1>2

LEMMA DdsInitTypeOK == DdsInit => DdsTypeOK
  BY InitIInv, DdsAssumption DEF DdsInit, DdsTypeOK, IInv

(* Every DDS step is a step of ReplService or leaves it alone.             *)
LEMMA DdsStepRefines ==
    ASSUME DdsTypeOK, [DdsNext]_all_vars
    PROVE  [Next]_vars
  <1>1. ASSUME ServerTakes
        PROVE  Next
    BY <1>1 DEF ServerTakes, Next, DdsTypeOK
  <1>. QED
    BY <1>1
    DEF DdsNext, ClientCalls, Matches, ClientPolls, ClientTakes, ClientFindsNothing,
        ClientTimesOut, Worker, ServerReplies, Carried, Next, all_vars

(* The client's side keeps the types.                                      *)
LEMMA ReturnsTypeOK ==
    ASSUME DdsTypeOK, NEW c \in Client, NEW optional,
           optional = {} \/ \E sample \in Response : optional = {sample},
           ClientReturns(c, optional)
    PROVE  /\ response' \in [Request -> {{}} \cup {{sample} : sample \in Response}]
           /\ returned' \subseteq Request
           /\ calling' \in [Client -> Request \cup {NoRequest}]
           /\ checking' \subseteq Client
  <1>1. calling[c] \in Request
    BY DEF DdsTypeOK, ClientReturns
  <1>2. optional \in {{}} \cup {{sample} : sample \in Response}
    OBVIOUS
  <1>. QED
    BY <1>1, <1>2 DEF DdsTypeOK, ClientReturns

LEMMA DdsStepTypeOK ==
    ASSUME DdsTypeOK, [DdsNext]_all_vars
    PROVE  DdsTypeOK'
  <1>1. TypeOK'
    BY DdsStepRefines, StepTypeOK DEF DdsTypeOK
  <1>2. ASSUME UNCHANGED dds_vars
        PROVE  DdsTypeOK'
    BY <1>1, <1>2 DEF dds_vars, DdsTypeOK
  <1>3. ASSUME NEW c \in Client, Matches(c)
        PROVE  DdsTypeOK'
    BY <1>1, <1>3 DEF Matches, DdsTypeOK
  <1>4. ASSUME NEW r \in Request, ClientCalls(r)
        PROVE  DdsTypeOK'
    <2>1. requests' \in Seq(Request) /\ Len(requests') <= HistoryDepth
      BY <1>4, KeepLastType DEF ClientCalls, DdsTypeOK
    <2>2. client[r] \in Client
      BY DdsAssumption
    <2>. QED
      BY <1>1, <1>4, <2>1, <2>2 DEF ClientCalls, DdsTypeOK
  <1>5. ASSUME NEW c \in Client, ClientTakes(c)
        PROVE  DdsTypeOK'
    <2>1. /\ Head(inbox[c]) \in Response
          /\ Tail(inbox[c]) \in Seq(Response)
          /\ Len(Tail(inbox[c])) <= HistoryDepth
      BY <1>5, DdsAssumption DEF ClientTakes, DdsTypeOK
    <2>2. /\ inbox' \in [Client -> Seq(Response)]
          /\ \A d \in Client : Len(inbox'[d]) <= HistoryDepth
      BY <1>5, <2>1 DEF ClientTakes, Taken, DdsTypeOK
    <2>3. ClientReturns(c, {Head(inbox[c])}) /\ UNCHANGED <<matched, requests, serving>>
      BY <1>5 DEF ClientTakes
    <2>. QED
      BY <1>1, <2>1, <2>2, <2>3, ReturnsTypeOK DEF DdsTypeOK
  <1>6. ASSUME NEW c \in Client, ClientFindsNothing(c)
        PROVE  DdsTypeOK'
    BY <1>1, <1>6 DEF ClientFindsNothing, DdsTypeOK
  <1>7. ASSUME NEW c \in Client, ClientTimesOut(c)
        PROVE  DdsTypeOK'
    <2>1. ClientReturns(c, {}) /\ UNCHANGED <<matched, requests, serving, inbox>>
      BY <1>7 DEF ClientTimesOut
    <2>. QED
      BY <1>1, <2>1, ReturnsTypeOK DEF DdsTypeOK
  <1>8. CASE ServerTakes
    <2>1. /\ Head(requests) \in Request
          /\ Tail(requests) \in Seq(Request)
          /\ Len(Tail(requests)) <= HistoryDepth
      BY <1>8, DdsAssumption DEF ServerTakes, DdsTypeOK
    <2>. QED
      BY <1>1, <1>8, <2>1 DEF ServerTakes, DdsTypeOK
  <1>9. CASE ServerReplies
    <2> DEFINE sample == [request_id |-> serving, success |-> Success(serving)]
    <2>1. sample \in Response
      BY <1>9 DEF ServerReplies, DdsTypeOK, Response, Success
    <2> HIDE DEF sample
    <2>2. \A c \in Client : /\ KeepLast(inbox[c], sample) \in Seq(Response)
                            /\ Len(KeepLast(inbox[c], sample)) <= HistoryDepth
      BY <2>1, KeepLastType DEF DdsTypeOK
    <2>3. inbox' = [c \in Client |-> IF c \in matched THEN KeepLast(inbox[c], sample)
                                                      ELSE inbox[c]]
      BY <1>9 DEF ServerReplies, sample
    <2>4. /\ inbox' \in [Client -> Seq(Response)]
          /\ \A c \in Client : Len(inbox'[c]) <= HistoryDepth
      BY <2>2, <2>3 DEF DdsTypeOK
    <2>. QED
      BY <1>1, <1>9, <2>4 DEF ServerReplies, DdsTypeOK
  <1>. QED
    BY <1>2, <1>3, <1>4, <1>5, <1>6, <1>7, <1>8, <1>9
    DEF DdsNext, ClientPolls, Worker, Carried, all_vars, dds_vars

(***************************************************************************)
(* The DDS service layer: readers hold at most HistoryDepth samples, and a *)
(* response is nothing or one sample.                                      *)
(***************************************************************************)
THEOREM DdsTypeCorrect == DdsSpec => []DdsTypeOK
  BY DdsInitTypeOK, DdsStepTypeOK, PTL DEF DdsSpec

LEMMA DdsIInv == DdsSpec => []IInv
  <1>1. DdsInit => IInv
    BY InitIInv DEF DdsInit
  <1>2. DdsTypeOK /\ IInv /\ [DdsNext]_all_vars => IInv'
    BY DdsStepRefines, StepIInv
  <1>. QED
    BY <1>1, <1>2, DdsTypeCorrect, PTL DEF DdsSpec

(* A command that was executed once stays so: it cannot be executed again. *)
LEMMA ExecutedStays ==
    ASSUME IInv, IInv', [Next]_vars, NEW r \in Request, executed[r] = 1
    PROVE  executed'[r] = 1
  BY DEF Next, Call, Transaction, Lock, Return, Send, SendFails, Receive, ReceiveFails,
         NoReply, Outside, Deliver, MasterExecutes, MasterRefuses, MasterReplies,
         StartOrClose, MasterRestarts, vars, IInv, TypeOK, Counted

(* SuccessIsExecuted, of one reader and of one response at a time.         *)
LEMMA SuccessSplit ==
    SuccessIsExecuted <=>
        /\ \A c \in Client : \A i \in DOMAIN inbox[c] :
               inbox[c][i].success => executed[inbox[c][i].request_id] = 1
        /\ \A r \in Request : \A sample \in response[r] :
               sample.success => executed[sample.request_id] = 1
  <1>1. \A sample : sample \in Sent <=>
            \/ \E c \in Client : \E i \in DOMAIN inbox[c] : sample = inbox[c][i]
            \/ \E r \in Request : sample \in response[r]
    <2>1. \A sample : sample \in UNION {{inbox[c][i] : i \in DOMAIN inbox[c]} : c \in Client}
              <=> \E c \in Client : \E i \in DOMAIN inbox[c] : sample = inbox[c][i]
      OBVIOUS
    <2>2. \A sample : sample \in UNION {response[r] : r \in Request}
              <=> \E r \in Request : sample \in response[r]
      OBVIOUS
    <2>. QED
      BY <2>1, <2>2 DEF Sent
  <1>. QED
    BY <1>1, Zenon DEF SuccessIsExecuted

LEMMA ResponseType ==
    ASSUME DdsTypeOK, NEW r \in Request, NEW sample \in response[r]
    PROVE  sample \in Response
  <1>1. response[r] \in {{}} \cup {{one} : one \in Response}
    BY DEF DdsTypeOK
  <1>. QED
    BY <1>1, Zenon

LEMMA SuccessStep ==
    ASSUME DdsTypeOK, DdsTypeOK', IInv, IInv', SuccessIsExecuted, [DdsNext]_all_vars
    PROVE  SuccessIsExecuted'
  <1> DEFINE True(sample) == sample.success => executed[sample.request_id] = 1
             Inboxes == \A c \in Client : \A i \in DOMAIN inbox[c] : True(inbox[c][i])
             Responses == \A r \in Request : \A sample \in response[r] : True(sample)
  <1>1. Inboxes /\ Responses
    BY SuccessSplit
  <1>2. ASSUME NEW sample \in Response, True(sample)
        PROVE  True(sample)'
    BY <1>2, ExecutedStays, DdsStepRefines DEF Response
  <1>3. ASSUME UNCHANGED inbox
        PROVE  Inboxes'
    BY <1>1, <1>2, <1>3 DEF DdsTypeOK
  <1>4. ASSUME UNCHANGED response
        PROVE  Responses'
    BY <1>1, <1>2, <1>4, ResponseType
  <1>5. ASSUME NEW c \in Client, ClientTakes(c)
        PROVE  Inboxes' /\ Responses'
    <2>1. /\ inbox[c] \in Seq(Response) /\ inbox[c] # <<>>
          /\ Head(inbox[c]) = inbox[c][1] /\ 1 \in DOMAIN inbox[c]
          /\ \A i \in DOMAIN Tail(inbox[c]) :
                 i + 1 \in DOMAIN inbox[c] /\ Tail(inbox[c])[i] = inbox[c][i + 1]
      BY <1>5 DEF ClientTakes, DdsTypeOK
    <2>2. Inboxes'
      <3> SUFFICES ASSUME NEW d \in Client, NEW i \in DOMAIN inbox'[d]
                   PROVE  True(inbox[d][i])'
        OBVIOUS
      <3>1. PICK j \in DOMAIN inbox[d] : inbox'[d][i] = inbox[d][j]
        BY <1>5, <2>1 DEF ClientTakes, Taken, DdsTypeOK
      <3>2. inbox[d][j] \in Response
        BY DEF DdsTypeOK
      <3>. QED
        BY <1>1, <1>2, <3>1, <3>2
    <2>3. Head(inbox[c]) \in Response /\ True(Head(inbox[c]))
      BY <1>1, <2>1 DEF DdsTypeOK
    <2>4. Responses'
      <3> SUFFICES ASSUME NEW r \in Request, NEW sample \in response'[r]
                   PROVE  True(sample)'
        OBVIOUS
      <3>1. sample \in response[r] \/ sample = Head(inbox[c])
        BY <1>5 DEF ClientTakes, ClientReturns, DdsTypeOK
      <3>2. sample \in Response
        BY <2>3, <3>1, ResponseType
      <3>. QED
        BY <1>1, <1>2, <2>3, <3>1, <3>2
    <2>. QED
      BY <2>2, <2>4
  <1>6. ASSUME NEW c \in Client, ClientTimesOut(c)
        PROVE  Inboxes' /\ Responses'
    <2>1. Responses'
      BY <1>1, <1>2, <1>6, ResponseType DEF ClientTimesOut, ClientReturns, DdsTypeOK
    <2>. QED
      BY <1>3, <1>6, <2>1 DEF ClientTimesOut
  <1>7. ASSUME ServerReplies
        PROVE  Inboxes' /\ Responses'
    <2>0. [request_id |-> serving, success |-> Success(serving)] \in Response
      BY <1>7 DEF ServerReplies, DdsTypeOK, Response, Success
    <2>1. PICK answer \in Response :
              answer = [request_id |-> serving, success |-> Success(serving)]
      BY <2>0
    <2>2. True(answer)'
      BY <1>7, <2>1 DEF ServerReplies, DdsTypeOK, Success, IInv, Truthful, vars
    <2>3. inbox' = [c \in Client |-> IF c \in matched THEN KeepLast(inbox[c], answer)
                                                      ELSE inbox[c]]
      BY <1>7, <2>1 DEF ServerReplies
    <2>4. Inboxes'
      <3> SUFFICES ASSUME NEW c \in Client, NEW i \in DOMAIN inbox'[c]
                   PROVE  True(inbox[c][i])'
        OBVIOUS
      <3>1. inbox'[c][i] = answer \/ \E j \in DOMAIN inbox[c] : inbox'[c][i] = inbox[c][j]
        BY <2>1, <2>3, KeepLastHolds DEF DdsTypeOK
      <3>2. ASSUME NEW j \in DOMAIN inbox[c], inbox'[c][i] = inbox[c][j]
            PROVE  True(inbox[c][i])'
        <4>1. inbox[c][j] \in Response
          BY DEF DdsTypeOK
        <4>. QED
          BY <1>1, <1>2, <3>2, <4>1
      <3>. QED
        BY <2>2, <3>1, <3>2
    <2>. QED
      BY <1>4, <1>7, <2>4 DEF ServerReplies
  <1>8. Inboxes' /\ Responses'
    BY <1>3, <1>4, <1>5, <1>6, <1>7
    DEF DdsNext, ClientCalls, Matches, ClientPolls, ClientFindsNothing, Worker,
        ServerTakes, Carried, all_vars, dds_vars
  <1>. QED
    BY <1>8, SuccessSplit, PTL

(***************************************************************************)
(* DDSAdapterService turns a timeout, a refusal or a malformed answer into *)
(* a NACK and never into an ACK: a response that reports success, in a     *)
(* client's reader or returned by call(), names a command the master has   *)
(* executed, exactly once.                                                 *)
(***************************************************************************)
THEOREM SuccessOnlyIfExecuted == DdsSpec => []SuccessIsExecuted
  <1>1. DdsInit => SuccessIsExecuted
    BY DEF DdsInit, SuccessIsExecuted, Sent
  <1>2. DdsTypeOK /\ DdsTypeOK' /\ IInv /\ IInv' /\ SuccessIsExecuted
            /\ [DdsNext]_all_vars => SuccessIsExecuted'
    BY SuccessStep
  <1>. QED
    BY <1>1, <1>2, DdsTypeCorrect, DdsIInv, PTL DEF DdsSpec

-----------------------------------------------------------------------------
(* A client that is alone and in time.                                     *)

LEMMA CallsOwnedStep ==
    ASSUME DdsTypeOK, CallsOwned, [DdsNext]_all_vars
    PROVE  CallsOwned'
  <1>1. ASSUME NEW r \in Request, ClientCalls(r)
        PROVE  CallsOwned'
    BY <1>1, DdsAssumption DEF ClientCalls, CallsOwned, DdsTypeOK
  <1>2. ASSUME NEW c \in Client, NEW optional, ClientReturns(c, optional)
        PROVE  CallsOwned'
    <2>1. calling[c] \in Request
      BY <1>2 DEF ClientReturns, DdsTypeOK
    <2>. QED
      BY <1>2, <2>1 DEF ClientReturns, CallsOwned, DdsTypeOK
  <1>3. ASSUME UNCHANGED <<calling, returned, response>>
        PROVE  CallsOwned'
    BY <1>3 DEF CallsOwned
  <1>. QED
    BY <1>1, <1>2, <1>3
    DEF DdsNext, Matches, ClientPolls, ClientTakes, ClientFindsNothing, ClientTimesOut,
        Worker, ServerTakes, ServerReplies, Carried, all_vars, dds_vars

(* A call that was made stays made, and what call() returned is final.     *)
LEMMA CallsStay ==
    ASSUME DdsTypeOK, CallsOwned, [DdsNext]_all_vars
    PROVE  /\ \A c \in Client : Called(c) \subseteq Called(c)'
           /\ returned \subseteq returned'
           /\ \A r \in returned : response'[r] = response[r]
  <1>1. ASSUME NEW r \in Request, ClientCalls(r)
        PROVE  /\ \A c \in Client : Called(c) \subseteq Called(c)'
               /\ UNCHANGED <<returned, response>>
    BY <1>1, DdsAssumption, RequestAssumption DEF ClientCalls, Called, DdsTypeOK
  <1>2. ASSUME NEW d \in Client, NEW optional, ClientReturns(d, optional)
        PROVE  /\ \A c \in Client : Called(c) \subseteq Called(c)'
               /\ returned \subseteq returned'
               /\ \A r \in returned : response'[r] = response[r]
    <2>1. calling[d] \in Request /\ calling[d] \notin returned
      BY <1>2 DEF ClientReturns, DdsTypeOK, CallsOwned
    <2>2. \A c \in Client : Called(c) \subseteq Called(c)'
      BY <1>2, <2>1 DEF ClientReturns, Called, DdsTypeOK
    <2>. QED
      BY <1>2, <2>1, <2>2 DEF ClientReturns, DdsTypeOK
  <1>3. ASSUME UNCHANGED <<calling, returned, response>>
        PROVE  /\ \A c \in Client : Called(c) \subseteq Called(c)'
               /\ UNCHANGED <<returned, response>>
    BY <1>3 DEF Called
  <1>. QED
    BY <1>1, <1>2, <1>3
    DEF DdsNext, Matches, ClientPolls, ClientTakes, ClientFindsNothing, ClientTimesOut,
        Worker, ServerTakes, ServerReplies, Carried, all_vars, dds_vars

(* Who is alone and in time was so all along.                              *)
LEMMA AloneBefore ==
    ASSUME DdsTypeOK, CallsOwned, [DdsNext]_all_vars,
           NEW c \in Client, AloneAndInTime(c)'
    PROVE  AloneAndInTime(c)
  <1>1. \A d \in Client \ {c} : Called(d)' = {}
    BY DEF AloneAndInTime
  <1>2. \A r \in Called(c)' \cap returned' : response'[r] # {}
    BY DEF AloneAndInTime
  <1>3. \A d \in Client \ {c} : Called(d) = {}
    BY <1>1, CallsStay
  <1>4. \A r \in Called(c) \cap returned : response[r] # {}
    BY <1>2, CallsStay
  <1>. QED
    BY <1>3, <1>4 DEF AloneAndInTime

(* The client that is in a call has made it.                               *)
LEMMA CallingIsCalled ==
    ASSUME DdsTypeOK, CallsOwned, NEW c \in Client, calling[c] # NoRequest
    PROVE  calling[c] \in Called(c)
  BY DEF DdsTypeOK, CallsOwned, Called

LEMMA KeepLastEmpty ==
    ASSUME NEW sample
    PROVE  KeepLast(<<>>, sample) = <<sample>>
  BY DdsAssumption DEF KeepLast

(* The clauses of OneUnderWay, for one client.                             *)
UnderWay(c) ==
    /\ OnlyRequest(calling[c])
    /\ OnlyServing(calling[c])
    /\ OnlyResponse(c, calling[c])
    /\ calling[c] = NoRequest => requests = <<>> /\ serving = NoRequest /\ inbox[c] = <<>>

LEMMA UnderWayStep ==
    ASSUME DdsTypeOK, CallsOwned, [DdsNext]_all_vars, NEW c \in Client,
           AloneAndInTime(c)', UnderWay(c)
    PROVE  UnderWay(c)'
  <1>1. \A d \in Client \ {c} : Called(d) = {} /\ Called(d)' = {}
    BY AloneBefore DEF AloneAndInTime
  <1> USE DEF UnderWay, OnlyRequest, OnlyServing, OnlyResponse
  <1>2. ASSUME UNCHANGED <<requests, serving, inbox, calling>>
        PROVE  UnderWay(c)'
    BY <1>2
  <1>3. ASSUME NEW r \in Request, ClientCalls(r)
        PROVE  UnderWay(c)'
    <2>1. r \in Called(client[r])' /\ client[r] \in Client
      BY <1>3, DdsAssumption DEF ClientCalls, Called, DdsTypeOK
    <2>2. client[r] = c
      BY <1>1, <2>1
    <2>3. requests = <<>> /\ serving = NoRequest /\ inbox[c] = <<>>
      BY <1>3, <2>2 DEF ClientCalls
    <2>4. requests' = <<>> \/ requests' = <<r>>
      BY <1>3, <2>3, KeepLastEmpty DEF ClientCalls
    <2>. QED
      BY <1>3, <2>2, <2>3, <2>4, RequestAssumption DEF ClientCalls, DdsTypeOK
  <1>4. ASSUME NEW d \in Client, ClientTakes(d)
        PROVE  UnderWay(c)'
    <2>1. d = c
      BY <1>1, <1>4, CallingIsCalled DEF ClientTakes, ClientReturns
    <2>2. requests = <<>> /\ serving = NoRequest /\ Len(inbox[c]) = 1
      BY <1>4, <2>1 DEF ClientTakes
    <2>3. inbox'[c] = <<>>
      BY <1>4, <2>1, <2>2 DEF ClientTakes, Taken, DdsTypeOK
    <2>4. calling'[c] = NoRequest /\ UNCHANGED <<requests, serving>>
      BY <1>4, <2>1 DEF ClientTakes, ClientReturns, DdsTypeOK
    <2>. QED
      BY <2>2, <2>3, <2>4
  <1>5. ASSUME NEW d \in Client, ClientTimesOut(d)
        PROVE  FALSE
    <2>1. d = c
      BY <1>1, <1>5, CallingIsCalled DEF ClientTimesOut, ClientReturns
    <2>2. calling[c] \in Called(c)
      BY <1>5, <2>1, CallingIsCalled DEF ClientTimesOut, ClientReturns
    <2>3. calling[c] \in Called(c)' \cap returned' /\ response'[calling[c]] = {}
      BY <1>5, <2>1, <2>2, CallsStay DEF ClientTimesOut, ClientReturns, DdsTypeOK, Called
    <2>. QED
      BY <2>3 DEF AloneAndInTime
  <1>6. CASE ServerTakes
    <2>1. /\ requests = <<calling[c]>> /\ calling[c] # NoRequest
          /\ inbox[c] = <<>>
      BY <1>6 DEF ServerTakes
    <2>2. serving' = calling[c] /\ requests' = <<>> /\ UNCHANGED <<inbox, calling>>
      BY <1>6, <2>1 DEF ServerTakes
    <2>. QED
      BY <2>1, <2>2
  <1>7. CASE ServerReplies
    <2>1. serving = calling[c] /\ requests = <<>> /\ inbox[c] = <<>>
      BY <1>7 DEF ServerReplies
    <2>2. /\ serving' = NoRequest /\ UNCHANGED <<requests, calling>>
          /\ \/ inbox'[c] = <<>>
             \/ inbox'[c] = <<[request_id |-> serving, success |-> Success(serving)]>>
      BY <1>7, <2>1, KeepLastEmpty DEF ServerReplies
    <2>3. calling'[c] = serving /\ serving # NoRequest
      BY <1>7, <2>1, <2>2 DEF ServerReplies
    <2>4. \/ inbox'[c] = <<>>
          \/ Len(inbox'[c]) = 1 /\ inbox'[c][1].request_id = calling'[c]
      <3> DEFINE answer == [request_id |-> serving, success |-> Success(serving)]
      <3>1. answer.request_id = serving
        OBVIOUS
      <3> HIDE DEF answer
      <3>2. inbox'[c] = <<>> \/ inbox'[c] = <<answer>>
        BY <2>2 DEF answer
      <3>3. Len(<<answer>>) = 1 /\ <<answer>>[1] = answer
        OBVIOUS
      <3>4. CASE inbox'[c] = <<answer>>
        <4>1. inbox'[c][1] = answer
          BY <3>3, <3>4, Zenon
        <4>. QED
          BY <2>3, <3>1, <3>3, <3>4, <4>1, Zenon
      <3>. QED
        BY <3>2, <3>4
    <2>. QED
      BY <2>1, <2>2, <2>3, <2>4
  <1>. QED
    BY <1>2, <1>3, <1>4, <1>5, <1>6, <1>7
    DEF DdsNext, Matches, ClientPolls, ClientFindsNothing, Worker, Carried, all_vars, dds_vars

LEMMA MatchedStep ==
    ASSUME DdsTypeOK, CallsOwned, [DdsNext]_all_vars, NEW c \in Client,
           AloneAndInTime(c)', UnderWay(c),
           \A r \in Called(c) : \A sample \in response[r] : sample.request_id = r,
           NEW r \in Called(c)', NEW sample \in response'[r]
    PROVE  sample.request_id = r
  <1>1. r \in Request
    BY DEF Called
  <1>2. CASE UNCHANGED response
    <2>1. r \in returned
      BY <1>1, <1>2 DEF CallsOwned
    <2>2. r \in Called(c)
      BY <2>1 DEF Called
    <2>. QED
      BY <1>2, <2>2
  <1>3. ASSUME NEW d \in Client, ClientTakes(d)
        PROVE  sample.request_id = r
    <2>1. d = c
      BY <1>3, CallingIsCalled, AloneBefore DEF ClientTakes, ClientReturns, AloneAndInTime
    <2>2. Len(inbox[c]) = 1 /\ inbox[c][1].request_id = calling[c]
      BY <1>3, <2>1 DEF ClientTakes, UnderWay, OnlyResponse
    <2>3. CASE r = calling[c]
      BY <1>3, <2>1, <2>2, <2>3 DEF ClientTakes, ClientReturns, DdsTypeOK
    <2>4. CASE r # calling[c]
      <3>1. sample \in response[r]
        BY <1>3, <2>1, <2>4 DEF ClientTakes, ClientReturns, DdsTypeOK
      <3>2. r \in returned
        BY <1>1, <3>1 DEF CallsOwned
      <3>3. r \in Called(c)
        BY <3>2 DEF Called
      <3>. QED
        BY <3>1, <3>3
    <2>. QED
      BY <2>3, <2>4
  <1>4. ASSUME NEW d \in Client, ClientTimesOut(d)
        PROVE  sample.request_id = r
    <2>1. sample \in response[r]
      BY <1>1, <1>4 DEF ClientTimesOut, ClientReturns, DdsTypeOK
    <2>2. r \in returned
      BY <1>1, <2>1 DEF CallsOwned
    <2>3. r \in Called(c)
      BY <2>2 DEF Called
    <2>. QED
      BY <2>1, <2>3
  <1>. QED
    BY <1>2, <1>3, <1>4
    DEF DdsNext, ClientCalls, Matches, ClientPolls, ClientFindsNothing, Worker,
        ServerTakes, ServerReplies, Carried, all_vars, dds_vars

Matching == CallsOwned /\ OneUnderWay /\ AloneIsMatched

LEMMA MatchingStep ==
    ASSUME DdsTypeOK, Matching, [DdsNext]_all_vars
    PROVE  Matching'
  <1>1. CallsOwned'
    BY CallsOwnedStep DEF Matching
  <1>2. ASSUME NEW c \in Client, AloneAndInTime(c)'
        PROVE  /\ UnderWay(c)'
               /\ \A r \in Called(c)' : \A sample \in response'[r] : sample.request_id = r
    <2>1. AloneAndInTime(c)
      BY <1>2, AloneBefore DEF Matching
    <2>2. UnderWay(c)
      BY <2>1 DEF Matching, OneUnderWay, UnderWay
    <2>3. \A r \in Called(c) : \A sample \in response[r] : sample.request_id = r
      BY <2>1 DEF Matching, AloneIsMatched
    <2>. QED
      BY <1>2, <2>2, <2>3, UnderWayStep, MatchedStep DEF Matching
  <1>3. OneUnderWay'
    BY <1>2 DEF OneUnderWay, UnderWay
  <1>4. AloneIsMatched'
    BY <1>2 DEF AloneIsMatched
  <1>. QED
    BY <1>1, <1>3, <1>4 DEF Matching

(***************************************************************************)
(* ServiceClient::call() takes the first sample there is and does not look *)
(* at its identifier. That is enough for a client that is alone on the     *)
(* topic and whose calls were all answered in time: each of them returned  *)
(* the response to its own request, for any depth of the histories.        *)
(***************************************************************************)
THEOREM AloneGetsItsResponse == DdsSpec => []AloneIsMatched
  <1>1. DdsInit => Matching
    BY RequestAssumption
    DEF DdsInit, Matching, CallsOwned, OneUnderWay, OnlyRequest, OnlyServing,
        OnlyResponse, AloneIsMatched, Called
  <1>2. DdsTypeOK /\ Matching /\ [DdsNext]_all_vars => Matching'
    BY MatchingStep
  <1>3. Matching => AloneIsMatched
    BY DEF Matching
  <1>. QED
    BY <1>1, <1>2, <1>3, DdsTypeCorrect, PTL DEF DdsSpec

=============================================================================
