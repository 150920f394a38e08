---------------------------- MODULE DdsReplService ----------------------------
(***************************************************************************)
(* The REPL service of the DDS plugins: clients write requests to one      *)
(* topic, the service adapter's worker takes them one by one, carries each *)
(* to the master with ReplService and writes the response to a reply topic *)
(* that every client reads.                                                *)
(*                                                                         *)
(* DDS is external: reliable and ordered, KeepLast(HistoryDepth) on the    *)
(* reader's side, volatile, so that a sample does not reach a reader that  *)
(* is not matched yet. The plugins start the adapter before its worker and *)
(* never close it.                                                         *)
(*                                                                         *)
(* Operators named Mutant... are wrong variants of the operator after      *)
(* them. No specification uses them: they show which property notices.     *)
(***************************************************************************)
EXTENDS ReplService, Sequences

CONSTANTS
    Client,       \* the processes that hold a ServiceClient
    client,       \* the client that makes each call
    HistoryDepth  \* History::KeepLast(10)

ASSUME DdsAssumption ==
    /\ client \in [Request -> Client]
    /\ HistoryDepth \in Nat \ {0}

VARIABLES
    matched,   \* the clients whose reader and writer are matched with the server's
    requests,  \* the server's request reader
    serving,   \* the request whose callback the worker is in
    inbox,     \* per client: its reply reader
    calling,   \* per client: the call() it is in
    checking,  \* the clients whose last take found nothing
    returned,  \* history: the calls of call() that returned
    response   \* history: what each returned; the empty set is nullopt

dds_vars == <<matched, requests, serving, inbox, calling, checking, returned, response>>
all_vars == <<vars, dds_vars>>

Response == [request_id: Request, success: BOOLEAN]

DdsInit ==
    /\ Init /\ started_ = TRUE
    /\ matched = {}
    /\ requests = <<>>
    /\ serving = NoRequest
    /\ inbox = [c \in Client |-> <<>>]
    /\ calling = [c \in Client |-> NoRequest]
    /\ checking = {}
    /\ returned = {}
    /\ response = [r \in Request |-> {}]

(* A sample enters a reader's history; the oldest one makes room.          *)
KeepLast(history, sample) ==
    IF Len(history) < HistoryDepth
    THEN Append(history, sample)
    ELSE Append(Tail(history), sample)

(* Discovery: a client that was started reaches the server some time later. *)
Matches(c) ==
    /\ c \notin matched
    /\ matched' = matched \cup {c}
    /\ UNCHANGED <<vars, requests, serving, inbox, calling, checking, returned, response>>

-----------------------------------------------------------------------------
(* ServiceClient::call(): write the request, then poll the reply reader.   *)

ClientCalls(r) ==
    /\ r \notin returned
    /\ calling[client[r]] = NoRequest
    /\ calling' = [calling EXCEPT ![client[r]] = r]
    /\ requests' = IF client[r] \in matched THEN KeepLast(requests, r) ELSE requests
    /\ UNCHANGED <<vars, matched, serving, inbox, checking, returned, response>>

ClientReturns(c, optional) ==
    /\ calling[c] # NoRequest
    /\ response' = [response EXCEPT ![calling[c]] = optional]
    /\ returned' = returned \cup {calling[c]}
    /\ calling' = [calling EXCEPT ![c] = NoRequest]
    /\ checking' = checking \ {c}

(* The first sample in the reader is the answer.                           *)
MutantReadNotTake(c) == UNCHANGED inbox
Taken(c) == inbox' = [inbox EXCEPT ![c] = Tail(@)]

ClientTakes(c) ==
    /\ inbox[c] # <<>>
    /\ ClientReturns(c, {Head(inbox[c])})
    /\ Taken(c)
    /\ UNCHANGED <<vars, matched, requests, serving>>

ClientFindsNothing(c) ==
    /\ calling[c] # NoRequest /\ c \notin checking
    /\ inbox[c] = <<>>
    /\ checking' = checking \cup {c}
    /\ UNCHANGED <<vars, matched, requests, serving, inbox, calling, returned, response>>

(* A response can have come between the take and the look at the clock; it *)
(* stays in the reader.                                                    *)
ClientTimesOut(c) ==
    /\ c \in checking
    /\ ClientReturns(c, {})
    /\ UNCHANGED <<vars, matched, requests, serving, inbox>>

ClientPolls(c) == ClientTakes(c) \/ ClientFindsNothing(c) \/ ClientTimesOut(c)

-----------------------------------------------------------------------------
(* ServiceServer::spin_once() on the service adapter's worker.             *)

ServerTakes ==
    /\ serving = NoRequest
    /\ requests # <<>>
    /\ serving' = Head(requests)
    /\ requests' = Tail(requests)
    /\ Call(Head(requests))
    /\ UNCHANGED <<matched, inbox, calling, checking, returned, response>>

(* process_request(): an answer of the master is passed on; every other    *)
(* result becomes a NACK. The response carries the request's identifier.   *)
MutantTimeoutIsSuccess(r) == verdict[r] # "nack"
Success(r) == verdict[r] = "ack"

MutantAnswerOnlyIfKnown(r) == phase[r] = "returned" /\ verdict[r] # "unknown"
Answered(r) == phase[r] = "returned"

ServerReplies ==
    /\ serving # NoRequest
    /\ Answered(serving)
    /\ serving' = NoRequest
    /\ inbox' = [c \in Client |->
           IF c \in matched
           THEN KeepLast(inbox[c], [request_id |-> serving,
                                    success |-> Success(serving)])
           ELSE inbox[c]]
    /\ UNCHANGED <<vars, matched, requests, calling, checking, returned, response>>

(* The callback runs its transaction with the master.                      *)
Carried(r) == Transaction(r) /\ UNCHANGED dds_vars

Worker == ServerTakes \/ ServerReplies \/ \E r \in Request : Carried(r)

DdsNext ==
    \/ \E r \in Request : ClientCalls(r)
    \/ \E c \in Client : Matches(c) \/ ClientPolls(c)
    \/ Worker
    \/ \E r \in Request : Outside(r) /\ UNCHANGED dds_vars
    \/ MasterRestarts /\ UNCHANGED dds_vars

(* The worker spins every few milliseconds and every wait in a transaction *)
(* is bounded. Nothing is assumed of the clients or of the master.         *)
DdsFairness == WF_all_vars(Worker)

DdsSpec == DdsInit /\ [][DdsNext]_all_vars /\ DdsFairness

-----------------------------------------------------------------------------
DdsTypeOK ==
    /\ TypeOK
    /\ matched \subseteq Client
    /\ requests \in Seq(Request) /\ Len(requests) <= HistoryDepth
    /\ serving \in Request \cup {NoRequest}
    /\ inbox \in [Client -> Seq(Response)]
    /\ \A c \in Client : Len(inbox[c]) <= HistoryDepth
    /\ calling \in [Client -> Request \cup {NoRequest}]
    /\ checking \subseteq Client
    /\ returned \subseteq Request
    /\ response \in [Request -> {{}} \cup {{sample} : sample \in Response}]

(***************************************************************************)
(* A response that reports success names a command the master executed,    *)
(* wherever the response is: a timeout, a refusal or a malformed answer is *)
(* never turned into an ACK on the way to a client.                        *)
(***************************************************************************)
Sent == (UNION {{inbox[c][i] : i \in DOMAIN inbox[c]} : c \in Client})
        \cup (UNION {response[r] : r \in Request})

SuccessIsExecuted == \A sample \in Sent : sample.success => executed[sample.request_id] = 1

(***************************************************************************)
(* A client that is alone on the reply topic and has not given up on a     *)
(* call gets the response to its own call: responses are written in the    *)
(* order of the requests, and one take empties the reader for the next.    *)
(***************************************************************************)
Called(c) == {r \in Request : client[r] = c /\ (calling[c] = r \/ r \in returned)}
AloneAndInTime(c) ==
    /\ \A d \in Client \ {c} : Called(d) = {}
    /\ \A r \in Called(c) \cap returned : response[r] # {}

AloneIsMatched ==
    \A c \in Client : AloneAndInTime(c) =>
        \A r \in Called(c) : \A sample \in response[r] : sample.request_id = r

(***************************************************************************)
(* Every request the worker takes is answered, also when the master is     *)
(* dead, and the worker goes on to the next: again and again it is idle    *)
(* with an empty reader.                                                   *)
(***************************************************************************)
NoRequestIsStuck == []<>(serving = NoRequest /\ requests = <<>>)

(***************************************************************************)
(* "Late replies cannot satisfy a later request": what call() returns is   *)
(* the response to the request it wrote.                                   *)
(***************************************************************************)
ReplyMatchesCall ==
    \A r \in Request : \A sample \in response[r] : sample.request_id = r

=============================================================================
