----------------------------- MODULE ActiveClient -----------------------------
(***************************************************************************)
(* The sessions of hermes (hermes/activews.go, hermes/grpc-service.go,     *)
(* the life cycle checks of hermes/hermes-main.go).                        *)
(*                                                                         *)
(* A client connects by web socket or gRPC.  One goroutine reads what it   *)
(* sends, one per subscription reads a NATS stream and writes to the       *)
(* client, and a periodic check drops the sessions that were silent too    *)
(* long from the map of active clients, which nobody locks.  Time counts   *)
(* the periods of the web socket ping.                                     *)
(***************************************************************************)
EXTENDS Naturals, Sequences, FiniteSets

CONSTANTS
    Client,        \* sessions, each with its own connection
    WebSocket,     \* those of them by web socket; the others come by gRPC
    Sub,           \* subscriptions a session can ask for, each for a stream of its own
    Subscriber,    \* sessions that subscribe
    MaxMessages,   \* messages of a stream; a fetch finds those that have come
    BatchSize,     \* messages of one fetch
    AnswerWithin,  \* periods after which a living web socket has answered a ping
    SessionTimeout,\* WebSocketTimeoutInMs, in periods
    SessionFaultyOps, \* operations of NATS that may fail
    MaxSessionFaults

ASSUME ActiveClientAssumption ==
    /\ WebSocket \subseteq Client /\ Subscriber \subseteq Client
    /\ MaxMessages \in Nat /\ BatchSize \in Nat \ {0} /\ MaxSessionFaults \in Nat
    /\ AnswerWithin \in Nat \ {0} /\ SessionTimeout \in Nat \ {0}
    /\ AnswerWithin < SessionTimeout

VARIABLES
    hermes,      \* "up", or "dead" of two uses of the map at a time
    conn,        \* the connection: "none", "open", "silent" (nothing comes any more) or "broken"
    reader,      \* the goroutine that reads the session
    idle,        \* periods since LastActivity
    active,      \* ActiveClients
    registering, \* sessions that write to that map
    check,       \* the life cycle check: "waiting" or "ranging"
    doomed,      \* the session it is about to delete, if any
    toVisit,     \* sessions it has not looked at yet
    table,       \* SubscriptionsById of a session
    worker,      \* the goroutine of a subscription: "none", "running" or "ended"
    batch,       \* messages it has fetched and not handled, in order
    fetched,     \* messages of the stream that were fetched for the first time
    unacked,     \* messages that will be delivered again
    got,         \* messages of a subscription the client received
    sessionFaults

session == <<conn, reader, idle>>
map == <<active, registering, check, doomed, toVisit>>
flow == <<worker, batch, fetched, unacked, got>>
sessionVars == <<hermes, session, map, table, flow, sessionFaults>>

Places == 1..MaxMessages

\* What each variable holds.  A session is looked at only while the check ranges, what a
\* goroutine has in hand was fetched, and only a session that has begun has subscriptions.
SessionTypeOK ==
    /\ hermes \in {"up", "dead"}
    /\ conn \in [Client -> {"none", "open", "silent", "broken"}]
    /\ reader \in [Client -> {"none", "first", "registering", "reading", "ended"}]
    /\ idle \in [Client -> 0..SessionTimeout]
    /\ active \subseteq Client /\ registering \subseteq Client
    /\ check \in {"waiting", "ranging"}
    /\ toVisit \subseteq Client /\ doomed \subseteq Client /\ Cardinality(doomed) <= 1
    /\ check = "waiting" => toVisit = {} /\ doomed = {}
    /\ table \in [Client -> SUBSET Sub]
    /\ worker \in [Client -> [Sub -> {"none", "running", "ended"}]]
    /\ batch \in [Client -> [Sub -> Seq(Places)]]
    /\ fetched \in [Client -> [Sub -> 0..MaxMessages]]
    /\ unacked \in [Client -> [Sub -> SUBSET Places]]
    /\ got \in [Client -> [Sub -> Seq(Places)]]
    /\ \A c \in Client, s \in Sub :
        /\ unacked[c][s] \subseteq 1..fetched[c][s]
        /\ \A i \in 1..Len(batch[c][s]) : batch[c][s][i] <= fetched[c][s]
        /\ worker[c][s] # "none" => reader[c] \in {"reading", "ended"}
    /\ sessionFaults \in 0..MaxSessionFaults

Empty(x) == [c \in Client |-> [s \in Sub |-> x]]

SessionInit ==
    /\ hermes = "up"
    /\ conn = [c \in Client |-> "none"] /\ reader = [c \in Client |-> "none"]
    /\ idle = [c \in Client |-> 0]
    /\ active = {} /\ registering = {} /\ check = "waiting" /\ toVisit = {} /\ doomed = {}
    /\ table = [c \in Client |-> {}]
    /\ worker = Empty("none") /\ batch = Empty(<<>>) /\ fetched = Empty(0)
    /\ unacked = Empty({}) /\ got = Empty(<<>>)
    /\ sessionFaults = 0

NoFault == UNCHANGED sessionFaults

SessionFails(op) ==
    /\ op \in SessionFaultyOps /\ sessionFaults < MaxSessionFaults
    /\ sessionFaults' = sessionFaults + 1
-----------------------------------------------------------------------------
(* Time and the other end *)

\* A web socket that is alive has answered a ping in time.
AnswersDue(c) ==
    c \in WebSocket /\ conn[c] = "open" /\ reader[c] = "reading" /\ idle[c] >= AnswerWithin

\* The length of an idle time does not matter beyond the timeout, and registering takes no time.
Period ==
    /\ hermes = "up" /\ registering = {} /\ \A c \in Client : ~AnswersDue(c)
    /\ idle' = [c \in Client |-> IF idle[c] < SessionTimeout THEN idle[c] + 1 ELSE idle[c]]
    /\ idle' # idle
    /\ UNCHANGED <<hermes, conn, reader, map, table, flow, sessionFaults>>

\* The client is gone without a word, or its connection is closed or reset.
GoSilent(c) ==
    /\ conn[c] = "open"
    /\ conn' = [conn EXCEPT ![c] = "silent"]
    /\ UNCHANGED <<hermes, reader, idle, map, table, flow, sessionFaults>>

Break(c) ==
    /\ conn[c] \in {"open", "silent"}
    /\ conn' = [conn EXCEPT ![c] = "broken"]
    /\ UNCHANGED <<hermes, reader, idle, map, table, flow, sessionFaults>>
-----------------------------------------------------------------------------
(* The reader of a session *)

SetReader(c, where) == reader' = [reader EXCEPT ![c] = where]
Active(c) == idle' = [idle EXCEPT ![c] = 0]

\* BuildSendReceiveWsHandler and SendReceive.
Connect(c) ==
    /\ hermes = "up" /\ conn[c] = "none"
    /\ conn' = [conn EXCEPT ![c] = "open"] /\ SetReader(c, "first") /\ Active(c)
    /\ UNCHANGED <<hermes, map, table, flow, sessionFaults>>

\* StartProtocol reads the first message and looks the mailbox up; without either the
\* session ends before anybody knows it.
FirstMessage(c) ==
    /\ hermes = "up" /\ reader[c] = "first"
    /\ \/ /\ conn[c] = "open" /\ SetReader(c, "registering") /\ Active(c)
          /\ registering' = registering \cup {c}
       \/ SetReader(c, "ended") /\ UNCHANGED <<idle, registering>>
    /\ UNCHANGED <<hermes, conn, active, check, doomed, toVisit, table, flow, sessionFaults>>

\* Services.Register.  The Go runtime ends the process when it sees another goroutine
\* writing to the map or ranging over it; it does not always see it.
Register(c) ==
    /\ hermes = "up" /\ reader[c] = "registering"
    /\ active' = active \cup {c} /\ registering' = registering \ {c}
    /\ SetReader(c, "reading")
    /\ \/ UNCHANGED hermes
       \/ (registering # {c} \/ check # "waiting") /\ hermes' = "dead"
    /\ UNCHANGED <<conn, idle, check, doomed, toVisit, table, flow, sessionFaults>>

\* A message of the client: requests to send (modelled in RpcCall), pings and pongs only
\* show that it is there.
Hear(c) ==
    /\ hermes = "up" /\ reader[c] = "reading" /\ conn[c] = "open"
    /\ idle[c] > 0 /\ Active(c)
    /\ UNCHANGED <<hermes, conn, reader, map, table, flow, sessionFaults>>

\* Wrong variant of Pong: the handlers of the web socket are left as they are.
PongUnnoticed(c) ==
    /\ hermes = "up" /\ reader[c] = "reading" /\ conn[c] = "open" /\ c \in WebSocket
    /\ idle[c] = AnswerWithin
    /\ idle' = [idle EXCEPT ![c] = @ + 1]
    /\ UNCHANGED <<hermes, conn, reader, map, table, flow, sessionFaults>>

\* The pong handler of a web socket, which StartProtocol sets.
Pong(c) ==
    /\ hermes = "up" /\ reader[c] = "reading" /\ conn[c] = "open" /\ c \in WebSocket
    /\ idle[c] > 0 /\ Active(c)
    /\ UNCHANGED <<hermes, conn, reader, map, table, flow, sessionFaults>>

\* A subscription in the first message or in a SubscribeRequest: its goroutine is started and
\* it is entered in the table; the answer is success, whether the goroutine finds a stream or
\* not.
RegisterClientSub(c, s) ==
    /\ c \in Subscriber
    /\ hermes = "up" /\ reader[c] = "reading" /\ conn[c] = "open" /\ worker[c][s] = "none"
    /\ \/ worker' = [worker EXCEPT ![c][s] = "running"] /\ NoFault
       \/ worker' = [worker EXCEPT ![c][s] = "ended"] /\ SessionFails("subscribe")
    /\ table' = [table EXCEPT ![c] = @ \cup {s}] /\ Active(c)
    /\ UNCHANGED <<hermes, conn, reader, map, batch, fetched, unacked, got>>

\* UnRegisterSub takes the subscription out of the table.  NatsSubscription is never set, so
\* that there is nothing to unsubscribe.
UnRegisterSub(c, s) ==
    /\ hermes = "up" /\ reader[c] = "reading" /\ conn[c] = "open" /\ s \in table[c]
    /\ table' = [table EXCEPT ![c] = @ \ {s}] /\ Active(c)
    /\ UNCHANGED <<hermes, conn, reader, map, flow, sessionFaults>>

\* runClientReader returns when the connection is broken, or on a message it cannot decode;
\* the context of the session ends with it.  Nothing takes the session out of the map.
ReaderEnds(c) ==
    /\ hermes = "up" /\ reader[c] = "reading" /\ conn[c] \in {"open", "broken"}
    /\ SetReader(c, "ended")
    /\ UNCHANGED <<hermes, conn, idle, map, table, flow, sessionFaults>>
-----------------------------------------------------------------------------
(* The goroutine of a subscription: RunWorkQueue *)

Rest == UNCHANGED <<hermes, session, map, table>>

\* Wrong variant of Fetch: the context is not looked at.
FetchOn(c, s) ==
    /\ hermes = "up" /\ worker[c][s] = "running" /\ batch[c][s] = <<>> /\ fetched[c][s] < MaxMessages
    /\ fetched' = [fetched EXCEPT ![c][s] = @ + 1]
    /\ batch' = [batch EXCEPT ![c][s] = <<fetched[c][s] + 1>>]
    /\ NoFault /\ UNCHANGED <<worker, unacked, got>> /\ Rest

\* The loop looks at the context, then fetches a batch: what has to be delivered again or
\* the next messages.  An error of Fetch ends the subscription, and the client is not told.
Fetch(c, s) ==
    /\ hermes = "up" /\ worker[c][s] = "running" /\ batch[c][s] = <<>>
    /\ IF reader[c] = "ended"
       THEN worker' = [worker EXCEPT ![c][s] = "ended"] /\ NoFault /\ UNCHANGED <<batch, fetched, unacked>>
       ELSE \/ /\ \E m \in unacked[c][s] :
                    /\ batch' = [batch EXCEPT ![c][s] = <<m>>]
                    /\ unacked' = [unacked EXCEPT ![c][s] = @ \ {m}]
               /\ NoFault /\ UNCHANGED <<worker, fetched>>
            \/ /\ \E n \in 1..BatchSize :
                    /\ fetched[c][s] + n <= MaxMessages
                    /\ batch' = [batch EXCEPT ![c][s] = [i \in 1..n |-> fetched[c][s] + i]]
                    /\ fetched' = [fetched EXCEPT ![c][s] = @ + n]
               /\ NoFault /\ UNCHANGED <<worker, unacked>>
            \/ /\ worker' = [worker EXCEPT ![c][s] = "ended"] /\ SessionFails("fetch")
               /\ UNCHANGED <<batch, fetched, unacked>>
    /\ UNCHANGED got /\ Rest

Head1(c, s) == Head(batch[c][s])

\* SendMessage succeeds on a connection that is not broken, and once it has failed it always
\* fails; its error is logged and the handler returns nil.
Written(c, s) ==
    IF conn[c] = "broken" THEN UNCHANGED got
    ELSE got' = [got EXCEPT ![c][s] = Append(@, Head1(c, s))]

\* Wrong variant of Deliver: the batch is handled from its end.
DeliverLast(c, s) ==
    /\ hermes = "up" /\ batch[c][s] # <<>>
    /\ LET b == batch[c][s] IN
        /\ IF conn[c] = "broken" THEN UNCHANGED got
           ELSE got' = [got EXCEPT ![c][s] = Append(@, b[Len(b)])]
        /\ batch' = [batch EXCEPT ![c][s] = SubSeq(b, 1, Len(b) - 1)]
    /\ NoFault /\ UNCHANGED <<worker, fetched, unacked>> /\ Rest

\* The message handler and Ack, whose loss brings the message again.
Deliver(c, s) ==
    /\ hermes = "up" /\ batch[c][s] # <<>>
    /\ Written(c, s)
    /\ \/ UNCHANGED unacked /\ NoFault
       \/ unacked' = [unacked EXCEPT ![c][s] = @ \cup {Head1(c, s)}] /\ SessionFails("ack")
    /\ batch' = [batch EXCEPT ![c][s] = Tail(@)]
    /\ UNCHANGED <<worker, fetched>> /\ Rest
-----------------------------------------------------------------------------
(* RunSingleLifeCycleCheck *)

BeginCheck ==
    /\ hermes = "up" /\ check = "waiting" /\ active # {}
    /\ check' = "ranging" /\ toVisit' = active
    /\ UNCHANGED <<hermes, session, active, registering, doomed, table, flow, sessionFaults>>

\* Wrong variant of Visit: a session that has ended is skipped.
VisitLiving(c) ==
    /\ hermes = "up" /\ doomed = {} /\ c \in toVisit
    /\ toVisit' = toVisit \ {c}
    /\ doomed' = IF idle[c] >= SessionTimeout /\ reader[c] # "ended" THEN {c} ELSE {}
    /\ UNCHANGED <<hermes, session, active, registering, check, table, flow, sessionFaults>>

Visit(c) ==
    /\ hermes = "up" /\ doomed = {} /\ c \in toVisit
    /\ toVisit' = toVisit \ {c}
    /\ doomed' = IF idle[c] >= SessionTimeout THEN {c} ELSE {}
    /\ UNCHANGED <<hermes, session, active, registering, check, table, flow, sessionFaults>>

\* The session leaves the map and is shut down, which changes nothing else: there is no NATS
\* subscription to end, and neither kind of client has a Shutdown that does something.  The
\* connection, the reader and the subscriptions go on.
Drop(c) ==
    /\ hermes = "up" /\ doomed = {c}
    /\ active' = active \ {c}
    /\ doomed' = {}
    /\ \/ UNCHANGED hermes
       \/ registering # {} /\ hermes' = "dead"
    /\ UNCHANGED <<session, registering, check, toVisit, table, flow, sessionFaults>>

EndCheck ==
    /\ hermes = "up" /\ check = "ranging" /\ toVisit = {} /\ doomed = {}
    /\ check' = "waiting"
    /\ UNCHANGED <<hermes, session, active, registering, doomed, toVisit, table, flow,
                   sessionFaults>>

-----------------------------------------------------------------------------
Session(c) ==
    \/ Connect(c) \/ FirstMessage(c) \/ Register(c) \/ Hear(c) \/ Pong(c) \/ ReaderEnds(c)
    \/ GoSilent(c) \/ Break(c)
    \/ \E s \in Sub : RegisterClientSub(c, s) \/ UnRegisterSub(c, s)

Subscription(c, s) == Fetch(c, s) \/ Deliver(c, s)

LifeCycleCheck == BeginCheck \/ (\E c \in Client : Visit(c) \/ Drop(c)) \/ EndCheck

SessionNext ==
    \/ \E c \in Client : Session(c) \/ \E s \in Sub : Subscription(c, s)
    \/ LifeCycleCheck \/ Period

SessionSpec == SessionInit /\ [][SessionNext]_sessionVars

\* Time passes, the check is made every minute, and the goroutines run on.  A reader returns
\* when its connection is broken, and a living client answers pings.
SessionFairness ==
    /\ WF_sessionVars(Period) /\ WF_sessionVars(BeginCheck) /\ WF_sessionVars(EndCheck)
    /\ \A c \in Client :
        /\ WF_sessionVars(Visit(c)) /\ WF_sessionVars(Drop(c))
        /\ WF_sessionVars(FirstMessage(c)) /\ WF_sessionVars(Register(c))
        /\ WF_sessionVars(Pong(c)) /\ WF_sessionVars(conn[c] = "broken" /\ ReaderEnds(c))
        /\ \A s \in Sub : WF_sessionVars(Subscription(c, s))

SessionFairSpec == SessionSpec /\ SessionFairness
-----------------------------------------------------------------------------
(* Properties *)

\* A web socket that answers the pings stays in the map of active clients: pongs reset the
\* activity that RunSingleLifeCycleCheck looks at, and the check reads it long before the
\* delete (activews.go StartProtocol, hermes-main.go RunSingleLifeCycleCheck).
AnsweringIsKnown ==
    \A c \in WebSocket : conn[c] = "open" /\ reader[c] = "reading" => c \in active

\* What a client receives of a subscription has no gap and no new message comes before an
\* older one, although batches, lost acknowledgements and broken connections are handled by
\* going on (RegisterClientSub, RunWorkQueue).
NoGap ==
    \A c \in Client, s \in Sub : \A i \in 1..Len(got[c][s]) :
        LET before == {got[c][s][j] : j \in 1..i - 1} IN got[c][s][i] <= Cardinality(before) + 1

\* A session whose reader has ended leaves the map in the end, although nobody removes it then
\* (runClientReader, RunSingleLifeCycleCheck).
EndedIsForgotten ==
    \A c \in Client : reader[c] = "ended" ~> (c \notin active \/ hermes = "dead")

\* The goroutines of the subscriptions end with the reader, which is the only thing that
\* stops them: neither UnRegisterSub nor Shutdown does (RegisterClientSub, RunWorkQueue).
SubscriptionsEnd ==
    \A c \in Subscriber, s \in Sub :
        reader[c] = "ended" ~> (worker[c][s] # "running" \/ hermes = "dead")
=============================================================================
