------------------------------- MODULE RpcCall -------------------------------
(***************************************************************************)
(* Remote calls over hermes mailboxes (hermes/api, hermes/mailbox.go,      *)
(* hermes/rpcserver, hermes/mailbox-store.go and the send-message queue of *)
(* hermes/hermes-main.go).                                                 *)
(*                                                                         *)
(* Several goroutines of one process call the same server.  A call         *)
(* registers a correlation, publishes its request to the server's mailbox  *)
(* and waits on a channel without a buffer, until an answer is put into it *)
(* by the one reader of the process's inbox or its context ends; then it   *)
(* removes the correlation and closes the channel.  A publisher stores its *)
(* message itself, or leaves that to hermes through a work queue.  A call  *)
(* stands for its correlation id, its channel and its context.             *)
(***************************************************************************)
EXTENDS Naturals, Sequences

CONSTANTS
    Call,         \* calls of the client process, made at the same time
    NoMsg,
    Builds,       \* values of byValue to look at
    LeafChoices,  \* values of leaf to look at
    MaxDeliver,   \* deliveries of one message of the work queue
    FaultyOps,    \* operations of NATS that may fail, and "death" of the server or of hermes
    MaxFaults

ASSUME RpcAssumption ==
    /\ NoMsg \notin [kind : {"request", "answer"}, call : Call]
    /\ Builds \subseteq BOOLEAN /\ Builds # {}
    /\ LeafChoices \subseteq SUBSET {"caller", "server"} /\ LeafChoices # {}
    /\ MaxDeliver \in Nat \ {0} /\ MaxFaults \in Nat

VARIABLES
    byValue,       \* channel names and correlation ids are compared by their text
    leaf,          \* who publishes through the work queue (UseDirectSendMessage is false)
    caller,        \* the client process: "up", or "dead" of a panic
    pc, result,    \* how far a call is, and what it returned
    correlations, closed,  \* calls whose id is in the map, and whose channel is closed
    inbox, reader, letter, \* the client's inbox, its reader and the message in hand
    requests,      \* the server's inbox
    server, task,  \* the server's reader, and its request, then its answer
    queue, hop, delivered, \* the work queue, its consumer, and the deliveries of its head
    handled, repeats, answers, \* per call: handler runs, repeated requests, messages to the inbox
    faults

config == <<byValue, leaf>>
calls == <<pc, result, correlations, closed>>
mail == <<inbox, reader, letter>>
serving == <<requests, server, task>>
hermes == <<queue, hop, delivered>>
counts == <<handled, repeats, answers>>
vars == <<config, caller, calls, mail, serving, hermes, counts, faults>>

Message == [kind : {"request", "answer"}, call : Call]
Msg(k, c) == [kind |-> k, call |-> c]

\* What each variable holds.  A reader that has nothing to send has no message, and what
\* waits in an inbox is a request at the server and an answer at the client.
TypeOK ==
    /\ byValue \in BOOLEAN /\ leaf \subseteq {"caller", "server"}
    /\ caller \in {"up", "dead"}
    /\ pc \in [Call -> {"idle", "publish", "synthesize", "wait", "leave", "close", "done"}]
    /\ result \in [Call -> {"none", "answer", "timeout", "failed"}]
    /\ correlations \subseteq Call /\ closed \subseteq Call
    /\ inbox \in Seq(Message) /\ letter \in Message \cup {NoMsg}
    /\ \A i \in 1..Len(inbox) : inbox[i].kind # "request"
    /\ reader \in {"idle", "load", "send", "ended"}
    /\ reader \in {"load", "send"} <=> letter # NoMsg
    /\ requests \in Seq(Call)
    /\ server \in {"off", "idle", "handle", "publish", "ended"}
    /\ task \in Message \cup {NoMsg}
    /\ server \in {"handle", "publish"} <=> task # NoMsg
    /\ queue \in Seq(Message) /\ hop \in {"idle", "forward", "synthesize", "ack", "ended"}
    /\ hop \in {"forward", "synthesize", "ack"} => queue # <<>>
    /\ delivered \in 0..MaxDeliver
    /\ handled \in [Call -> Nat] /\ repeats \in [Call -> Nat] /\ answers \in [Call -> Nat]
    /\ faults \in 0..MaxFaults

\* RunRpcInboxReader starts with the client; with names that are pointers, the mailbox does
\* not know the channel and the reader returns at once.
ReaderBegins == IF byValue THEN "idle" ELSE "ended"

Init ==
    /\ byValue \in Builds /\ leaf \in LeafChoices
    /\ caller = "up" /\ pc = [c \in Call |-> "idle"] /\ result = [c \in Call |-> "none"]
    /\ correlations = {} /\ closed = {}
    /\ inbox = <<>> /\ reader = ReaderBegins /\ letter = NoMsg
    /\ requests = <<>> /\ server = "off" /\ task = NoMsg
    /\ queue = <<>> /\ hop = "idle" /\ delivered = 0
    /\ handled = [c \in Call |-> 0] /\ repeats = [c \in Call |-> 0] /\ answers = [c \in Call |-> 0]
    /\ faults = 0

NoFault == UNCHANGED faults

Fails(op) ==
    /\ op \in FaultyOps /\ faults < MaxFaults
    /\ faults' = faults + 1

Bump(f, c) == [f EXCEPT ![c] = @ + 1]
-----------------------------------------------------------------------------
(* Publishing to a mailbox *)

streams == <<requests, inbox, answers>>

\* The stream of the mailbox has the message.
Stored(m) ==
    IF m.kind = "request"
    THEN requests' = Append(requests, m.call) /\ UNCHANGED <<inbox, answers>>
    ELSE inbox' = Append(inbox, m) /\ answers' = Bump(answers, m.call) /\ UNCHANGED requests

\* PublishMessage returns an error, or the mailbox is not found; the stream may have the
\* message all the same.
Refused(m) == Fails("publish") /\ (Stored(m) \/ UNCHANGED streams)

\* PublishMessage when nobody asks how it went.
Tried(m) == (Stored(m) /\ NoFault) \/ Refused(m)

\* LeafPublishSendMessageRequest with core NATS: what it takes may still be lost.
Queued(m) ==
    \/ queue' = Append(queue, m) /\ NoFault
    \/ UNCHANGED queue /\ Fails("buffer")
-----------------------------------------------------------------------------
(* A call *)

Goto(c, where) == pc' = [pc EXCEPT ![c] = where]
Leave(c, r) == Goto(c, "leave") /\ result' = [result EXCEPT ![c] = r]

\* RawRpcCall up to the publishing of the request.
Register(c) ==
    /\ caller = "up" /\ pc[c] = "idle"
    /\ correlations' = correlations \cup {c}
    /\ Goto(c, "publish")
    /\ UNCHANGED <<config, caller, result, closed, mail, serving, hermes, counts, faults>>

\* Wrong variant of PublishRequest: the error is returned to RawRpcCall.
PublishRequestReporting(c) ==
    /\ caller = "up" /\ pc[c] = "publish" /\ "caller" \notin leaf
    /\ \/ Stored(Msg("request", c)) /\ NoFault /\ Goto(c, "wait") /\ UNCHANGED result
       \/ Refused(Msg("request", c)) /\ Leave(c, "failed")
    /\ UNCHANGED <<config, caller, correlations, closed, reader, letter, server, task, hermes,
                   handled, repeats>>

\* DirectPublishSendMessageRequestX of a request to one mailbox.
PublishRequest(c) ==
    /\ caller = "up" /\ pc[c] = "publish" /\ "caller" \notin leaf
    /\ \/ Stored(Msg("request", c)) /\ NoFault /\ Goto(c, "wait")
       \/ Refused(Msg("request", c)) /\ Goto(c, "synthesize")
    /\ UNCHANGED <<config, caller, result, correlations, closed, reader, letter, server, task, hermes,
                   handled, repeats>>

\* An answer with the error, which DirectPublishSendMessageRequestX puts into the caller's own
\* inbox; RawRpcCall learns of the failure from it alone.
Synthesize(c) ==
    /\ caller = "up" /\ pc[c] = "synthesize"
    /\ Tried(Msg("answer", c)) /\ Goto(c, "wait")
    /\ UNCHANGED <<config, caller, result, correlations, closed, reader, letter, server, task, hermes,
                   handled, repeats>>

\* The request goes to the work queue; only here RawRpcCall can return a publishing error.
QueueRequest(c) ==
    /\ caller = "up" /\ pc[c] = "publish" /\ "caller" \in leaf
    /\ \/ Queued(Msg("request", c)) /\ Goto(c, "wait") /\ UNCHANGED result
       \/ Fails("connection") /\ Leave(c, "failed") /\ UNCHANGED queue
    /\ UNCHANGED <<config, caller, correlations, closed, mail, serving, hop, delivered, counts>>

\* The select of RawRpcCall: an answer, in which RpcCall finds a result or an error ...
Receive(c) ==
    /\ caller = "up" /\ pc[c] = "wait" /\ reader = "send" /\ letter.call = c
    /\ Leave(c, "answer")
    /\ reader' = "idle" /\ letter' = NoMsg
    /\ UNCHANGED <<config, caller, correlations, closed, inbox, serving, hermes, counts, faults>>

\* Wrong variant of TimeOut: the context of a call without one has no deadline.
TimeOutNever(c) == FALSE /\ UNCHANGED vars

\* ... or the end of the context, which every call has.
TimeOut(c) ==
    /\ caller = "up" /\ pc[c] = "wait"
    /\ Leave(c, "timeout")
    /\ UNCHANGED <<config, caller, correlations, closed, mail, serving, hermes, counts, faults>>

\* The deferred function: RemoveCorrelation ...
RemoveCorrelation(c) ==
    /\ caller = "up" /\ pc[c] = "leave"
    /\ correlations' = correlations \ {c}
    /\ Goto(c, "close")
    /\ UNCHANGED <<config, caller, result, closed, mail, serving, hermes, counts, faults>>

\* Wrong variant of CloseCallback: the channel is left to the garbage collector.
LeaveOpen(c) ==
    /\ caller = "up" /\ pc[c] = "close"
    /\ Goto(c, "done")
    /\ UNCHANGED <<config, caller, result, correlations, closed, mail, serving, hermes, counts, faults>>

\* ... and close.  A reader that has loaded the channel and sends on it panics, and nothing
\* recovers from that.
CloseCallback(c) ==
    /\ caller = "up" /\ pc[c] = "close"
    /\ closed' = closed \cup {c} /\ Goto(c, "done")
    /\ caller' = IF reader = "send" /\ letter.call = c THEN "dead" ELSE "up"
    /\ UNCHANGED <<config, result, correlations, mail, serving, hermes, counts, faults>>

RpcCallOf(c) ==
    \/ Register(c) \/ PublishRequest(c) \/ Synthesize(c) \/ QueueRequest(c)
    \/ Receive(c) \/ TimeOut(c) \/ RemoveCorrelation(c) \/ CloseCallback(c)
-----------------------------------------------------------------------------
(* The reader of the client's inbox: one goroutine *)

\* Subscribe acknowledges before anything else.  An acknowledgement that is lost brings the
\* message again, behind what has come since.
ReaderTake ==
    /\ caller = "up" /\ reader = "idle" /\ inbox # <<>>
    /\ letter' = Head(inbox) /\ reader' = "load"
    /\ \/ inbox' = Tail(inbox) /\ NoFault /\ UNCHANGED answers
       \/ /\ Fails("ack") /\ inbox' = Append(Tail(inbox), Head(inbox))
          /\ answers' = Bump(answers, Head(inbox).call)
    /\ UNCHANGED <<config, caller, calls, serving, hermes, handled, repeats>>

\* RunRpcInboxReader looks its caller up; nobody waits for an answer without correlation.
ReaderLoad ==
    /\ caller = "up" /\ reader = "load"
    /\ IF letter.call \in correlations
       THEN reader' = "send" /\ UNCHANGED letter
       ELSE reader' = "idle" /\ letter' = NoMsg
    /\ UNCHANGED <<config, caller, calls, inbox, serving, hermes, counts, faults>>
-----------------------------------------------------------------------------
(* The server: RunMessageReaderLoop, and the same loop in SubmitAgentRpcServer *)

ServerStart ==
    /\ server = "off"
    /\ server' = ReaderBegins
    /\ UNCHANGED <<config, caller, calls, mail, requests, task, hermes, counts, faults>>

\* The same Subscribe as the client's.
ServerTake ==
    /\ server = "idle" /\ requests # <<>>
    /\ server' = "handle" /\ task' = Msg("request", Head(requests))
    /\ \/ requests' = Tail(requests) /\ NoFault /\ UNCHANGED repeats
       \/ /\ Fails("ack") /\ requests' = Append(Tail(requests), Head(requests))
          /\ repeats' = Bump(repeats, Head(requests))
    /\ UNCHANGED <<config, caller, calls, mail, hermes, handled, answers>>

\* ProcessRpcCall: the handler's answer or its error; no handler runs for an endpoint that is
\* not registered or a body that cannot be decoded.
ServerHandle ==
    /\ server = "handle"
    /\ \E runs \in BOOLEAN : handled' = IF runs THEN Bump(handled, task.call) ELSE handled
    /\ task' = Msg("answer", task.call)
    /\ server' = "publish"
    /\ UNCHANGED <<config, caller, calls, mail, requests, hermes, repeats, answers, faults>>

\* The answer is published with the server's mailbox; a failure is logged.
ServerPublish ==
    /\ server = "publish"
    /\ IF "server" \in leaf
       THEN (Queued(task) \/ (Fails("connection") /\ UNCHANGED queue)) /\ UNCHANGED streams
       ELSE Tried(task) /\ UNCHANGED queue
    /\ server' = "idle" /\ task' = NoMsg
    /\ UNCHANGED <<config, caller, calls, reader, letter, hop, delivered, handled, repeats>>

\* Wrong variant of ServerCrash: the request was not acknowledged yet and comes again.
ServerCrashUnacked ==
    /\ server \notin {"off", "ended"} /\ Fails("death")
    /\ server' = "off" /\ task' = NoMsg
    /\ requests' = IF task = NoMsg THEN requests ELSE <<task.call>> \o requests
    /\ UNCHANGED <<config, caller, calls, mail, hermes, counts>>

\* The server dies with the request in hand; its mailbox is named, so that it finds the rest.
ServerCrash ==
    /\ server \notin {"off", "ended"} /\ Fails("death")
    /\ server' = "off" /\ task' = NoMsg
    /\ UNCHANGED <<config, caller, calls, mail, requests, hermes, counts>>

RpcServer == ServerStart \/ ServerTake \/ ServerHandle \/ ServerPublish
-----------------------------------------------------------------------------
(* The work queue of hermes: RunSendMessageRequestConsumer *)

HopTake ==
    /\ hop = "idle" /\ queue # <<>>
    /\ hop' = "forward" /\ delivered' = delivered + 1
    /\ UNCHANGED <<config, caller, calls, mail, serving, queue, counts, faults>>

\* The head is delivered again, now or after others, unless it was too often already.
Redeliver ==
    /\ hop' = "idle"
    /\ IF delivered < MaxDeliver
       THEN /\ \/ UNCHANGED <<queue, delivered>>
               \/ /\ Len(queue) > 1 /\ queue' = Append(Tail(queue), Head(queue))
                  /\ delivered' = 0
            /\ repeats' = IF Head(queue).kind = "request" THEN Bump(repeats, Head(queue).call) ELSE repeats
       ELSE queue' = Tail(queue) /\ delivered' = 0 /\ UNCHANGED repeats

\* Its handler: the mailbox of the sender, and DirectPublishSendMessageRequestX with it.  When
\* the sender's mailbox is not found the message is put back.
HopForward ==
    /\ hop = "forward"
    /\ LET m == Head(queue) IN
        \/ /\ Stored(m) /\ NoFault /\ hop' = "ack" /\ UNCHANGED <<queue, delivered, repeats>>
        \/ /\ Refused(m) /\ hop' = (IF m.kind = "request" THEN "synthesize" ELSE "ack")
           /\ UNCHANGED <<queue, delivered, repeats>>
        \/ Fails("fetch") /\ Redeliver /\ UNCHANGED streams
    /\ UNCHANGED <<config, caller, calls, reader, letter, server, task, handled>>

HopSynthesize ==
    /\ hop = "synthesize"
    /\ Tried(Msg("answer", Head(queue).call)) /\ hop' = "ack"
    /\ UNCHANGED <<config, caller, calls, reader, letter, server, task, queue, delivered, handled, repeats>>

HopAck ==
    /\ hop = "ack"
    /\ \/ hop' = "idle" /\ queue' = Tail(queue) /\ delivered' = 0 /\ NoFault /\ UNCHANGED repeats
       \/ Fails("ack") /\ Redeliver
    /\ UNCHANGED <<config, caller, calls, mail, serving, handled, answers>>

\* hermes dies with a message in hand and is started again.
HopCrash ==
    /\ hop \in {"forward", "synthesize", "ack"} /\ Fails("death")
    /\ Redeliver
    /\ UNCHANGED <<config, caller, calls, mail, serving, handled, answers>>

\* An error of Fetch ends the consumer; hermes goes on without it.
HopEnds ==
    /\ hop = "idle" /\ Fails("pull")
    /\ hop' = "ended"
    /\ UNCHANGED <<config, caller, calls, mail, serving, queue, delivered, counts>>

Consumer == HopTake \/ HopForward \/ HopSynthesize \/ HopAck
-----------------------------------------------------------------------------
Next ==
    \/ \E c \in Call : RpcCallOf(c)
    \/ ReaderTake \/ ReaderLoad
    \/ RpcServer \/ ServerCrash
    \/ Consumer \/ HopCrash \/ HopEnds

Spec == Init /\ [][Next]_vars

\* The goroutines of the client and its timers run on.  Nothing is assumed of the server or
\* of hermes.
Fairness ==
    /\ \A c \in Call :
        /\ WF_vars(PublishRequest(c)) /\ WF_vars(Synthesize(c)) /\ WF_vars(QueueRequest(c))
        /\ WF_vars(TimeOut(c)) /\ WF_vars(RemoveCorrelation(c)) /\ WF_vars(CloseCallback(c))
    /\ WF_vars(ReaderTake) /\ WF_vars(ReaderLoad)

FairSpec == Spec /\ Fairness
-----------------------------------------------------------------------------
(* Properties *)

\* A handler runs once for a call and again only when an acknowledgement was lost or hermes
\* died while it forwarded the request: requests are acknowledged before they are handled
\* (mailbox.go Subscribe), so that a death of the server loses them and never repeats them.
HandledOnce == \A c \in Call : handled[c] <= 1 + repeats[c]

\* The client process dies of a send on a closed channel only by an answer that came when its
\* call had timed out or had another answer, never by a publishing error, which reaches the
\* call as an answer too (RawRpcCall, DirectPublishSendMessageRequestX).
PanicNeedsLateAnswer ==
    caller = "dead" => \E c \in closed : result[c] = "timeout" \/ answers[c] > 1

\* Every call returns to its caller, whatever happens to its request, to the server, to hermes
\* and to the inbox, unless the process dies (RawRpcCall).
CallsReturn == \A c \in Call : pc[c] # "idle" ~> (pc[c] = "done" \/ caller = "dead")

\* The one reader is never stuck for ever on the channel of a call, which would stop the
\* answers of all others: the call takes the answer or closes the channel (RunRpcInboxReader).
ReaderFreed == reader = "send" ~> (reader # "send" \/ caller = "dead")
=============================================================================
