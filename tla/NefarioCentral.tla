--------------------------- MODULE NefarioCentral ---------------------------
(***************************************************************************)
(* How nefario takes the messages of the minions from a work queue into    *)
(* the database (nefario/nefario.go, a8nats/a8nats.go, nefario/db).        *)
(*                                                                         *)
(* The minions publish to the stream nefario-central of their NATS server. *)
(* For each row of the server table nefario runs a goroutine that fetches  *)
(* one message at a time, handles it and acknowledges it, whether the      *)
(* handler failed or not: its error is logged.  JetStream delivers a       *)
(* message again that was not acknowledged in time.                        *)
(*                                                                         *)
(* A handler is several calls without a transaction: ProcessStart inserts  *)
(* the run, makes it the running process of its service and creates the    *)
(* streams its lines go to.  Nefario may die between any two of them.      *)
(*                                                                         *)
(* A message is known by its place in the stream.                          *)
(***************************************************************************)
EXTENDS Naturals, Sequences

CONSTANTS
    Worker,       \* consumer goroutines on the stream
    Service,      \* rows of the service table
    NoService,    \* ServiceUid of a run that is no service: the minion's own
    Run,          \* ProcessUids
    NoRun,
    ServiceOf,    \* ServiceUid of each run
    MaxDeliver,   \* times a message is delivered at most (5)
    MaxSent,      \* bound: messages in the stream
    FaultyOps,    \* which calls may fail
    MaxFaults,    \* bound: how many do
    MaxCrashes    \* bound: times nefario dies

ASSUME CentralAssumption ==
    /\ NoService \notin Service /\ NoRun \notin Run
    /\ ServiceOf \in [Run -> Service \cup {NoService}]
    /\ MaxDeliver \in Nat \ {0}
    /\ MaxSent \in Nat /\ MaxFaults \in Nat /\ MaxCrashes \in Nat
    /\ FaultyOps \subseteq {"send", "list", "fetch", "db", "stream", "publish", "ack"}

VARIABLES
    (* the minions and their stream *)
    life,        \* of each run: nothing sent yet, started or completed
    sent,        \* the messages of the stream
    next,        \* the first that was not delivered yet
    unacked,     \* delivered, and still in time
    due,         \* to be delivered again
    deliveries,  \* how often each was delivered
    acked,       \* removed from the stream
    (* nefario *)
    nefario,     \* "down" or "up"
    pc,          \* what each worker does next
    hand,        \* its message; 0 for none
    (* PostgreSQL *)
    row,         \* what processrun knows of each run; nothing without a row
    recent,      \* mostrecentprocessrunuid of each service
    (* the central NATS server *)
    streams,     \* runs whose stream exists
    stored,      \* the StreamWrites in it, in order
    (* history *)
    replaced,    \* runs that were the most recent of their service
    harmed,      \* runs with a message that was lost, failed or cut short
    faults, crashes

queue == <<sent, next, unacked, due, deliveries, acked>>
tables == <<row, recent, replaced>>
central == <<streams, stored>>
bounds == <<faults, crashes>>
vars == <<life, queue, nefario, pc, hand, tables, central, harmed, bounds>>

Message == [kind : {"start", "ping", "mailbox", "completed", "write"}, run : Run]
Facts == {"started", "ping", "mailbox", "completed"}
Places == 1..MaxSent

\* What each variable holds; a busy worker has a message, and a message that waits for
\* its acknowledgement was delivered.
TypeOK ==
    /\ life \in [Run -> {"none", "open", "closed"}]
    /\ sent \in Seq(Message) /\ Len(sent) <= MaxSent
    /\ next \in 1..Len(sent) + 1
    /\ unacked \subseteq 1..next - 1 /\ due \subseteq 1..next - 1 /\ acked \subseteq 1..next - 1
    /\ deliveries \in [Places -> 0..MaxDeliver]
    /\ \A i \in due : deliveries[i] < MaxDeliver
    /\ \A i \in Places : i >= next => deliveries[i] = 0
    /\ nefario \in {"down", "up"}
    /\ pc \in [Worker -> {"off", "connect", "idle", "handle", "update", "addStream", "ack", "ended"}]
    /\ nefario = "down" => \A w \in Worker : pc[w] = "off"
    /\ hand \in [Worker -> 0..next - 1]
    /\ \A w \in Worker : hand[w] # 0 <=> pc[w] \in {"handle", "update", "addStream", "ack"}
    /\ row \in [Run -> SUBSET Facts]
    /\ recent \in [Service -> Run \cup {NoRun}]
    /\ streams \subseteq Run /\ stored \in [Run -> Seq(Places)]
    /\ replaced \subseteq Run /\ harmed \subseteq Run
    /\ faults \in Nat /\ crashes \in Nat

Init ==
    /\ life = [r \in Run |-> "none"]
    /\ sent = <<>> /\ next = 1 /\ unacked = {} /\ due = {} /\ acked = {}
    /\ deliveries = [i \in Places |-> 0]
    /\ nefario = "down" /\ pc = [w \in Worker |-> "off"] /\ hand = [w \in Worker |-> 0]
    /\ row = [r \in Run |-> {}] /\ recent = [s \in Service |-> NoRun]
    /\ streams = {} /\ stored = [r \in Run |-> <<>>]
    /\ replaced = {} /\ harmed = {} /\ faults = 0 /\ crashes = 0

NoFault == UNCHANGED bounds

Fails(k) ==
    /\ k \in FaultyOps /\ faults < MaxFaults
    /\ faults' = faults + 1 /\ UNCHANGED crashes

Harm(R) == harmed' = harmed \cup R
-----------------------------------------------------------------------------
(* The minions *)

\* Publish of NefarioServiceClient: core NATS, so that a message may be lost unnoticed.
Publish(m) ==
    /\ Len(sent) < MaxSent
    /\ \/ sent' = Append(sent, m) /\ NoFault /\ UNCHANGED harmed
       \/ Fails("send") /\ Harm({m.run}) /\ UNCHANGED sent
    /\ UNCHANGED <<next, unacked, due, deliveries, acked, nefario, pc, hand, tables, central>>

\* StartProcessRunSlurp and RunMinionLifecycle.
SendStart(r) ==
    /\ life[r] = "none"
    /\ life' = [life EXCEPT ![r] = "open"]
    /\ Publish([kind |-> "start", run |-> r])

\* The pings, the mailbox of a minion and the lines of a service, also after ProcessCompleted:
\* the goroutines of a run do not wait for each other.
SendMore(r, k) ==
    /\ life[r] # "none" /\ k # (IF ServiceOf[r] = NoService THEN "write" ELSE "mailbox")
    /\ UNCHANGED life
    /\ Publish([kind |-> k, run |-> r])

SendCompleted(r) ==
    /\ life[r] = "open"
    /\ life' = [life EXCEPT ![r] = "closed"]
    /\ Publish([kind |-> "completed", run |-> r])

Minion(r) ==
    \/ SendStart(r) \/ SendCompleted(r)
    \/ \E k \in {"ping", "mailbox", "write"} : SendMore(r, k)
-----------------------------------------------------------------------------
(* Nefario as a process *)

\* Run: runUpdateCycle lists the servers and starts a consumer for each.  Its error is
\* ignored, and Run then waits for ever without a consumer.
Start ==
    /\ nefario = "down"
    /\ nefario' = "up"
    /\ \/ pc' = [w \in Worker |-> "connect"] /\ NoFault
       \/ Fails("list") /\ UNCHANGED pc
    /\ UNCHANGED <<life, queue, hand, tables, central, harmed>>

InHand(w) == sent[hand[w]].run

\* Nefario dies, or is stopped between two messages.
Crash ==
    /\ nefario = "up" /\ crashes < MaxCrashes
    /\ crashes' = crashes + 1
    /\ nefario' = "down"
    /\ Harm({InHand(w) : w \in {v \in Worker : pc[v] \in {"handle", "update", "addStream"}}})
    /\ pc' = [w \in Worker |-> "off"] /\ hand' = [w \in Worker |-> 0]
    /\ UNCHANGED <<life, queue, tables, central, faults>>
-----------------------------------------------------------------------------
(* The work queue *)

Rest == UNCHANGED <<life, sent, nefario, tables, central, harmed>>

\* RunWorkQueue up to its loop: connects, and creates the stream when it is not there.
Connect(w) ==
    /\ pc[w] = "connect"
    /\ \/ pc' = [pc EXCEPT ![w] = "idle"] /\ NoFault
       \/ pc' = [pc EXCEPT ![w] = "ended"] /\ Fails("fetch")
    /\ UNCHANGED <<next, unacked, due, deliveries, acked, hand>> /\ Rest

\* Wrong variant of Fetch: the message is acknowledged before it is handled.
FetchAcking(w) ==
    /\ pc[w] = "idle"
    /\ \E i \in Places :
        /\ \/ i \in due /\ UNCHANGED next
           \/ due = {} /\ i = next /\ next <= Len(sent) /\ next' = next + 1
        /\ due' = due \ {i} /\ acked' = acked \cup {i}
        /\ deliveries' = [deliveries EXCEPT ![i] = @ + 1]
        /\ hand' = [hand EXCEPT ![w] = i]
    /\ pc' = [pc EXCEPT ![w] = "handle"]
    /\ NoFault /\ UNCHANGED unacked /\ Rest

\* Fetch of one message.  The server delivers again what is due before anything new.
Fetch(w) ==
    /\ pc[w] = "idle"
    /\ \E i \in Places :
        /\ \/ i \in due /\ UNCHANGED next
           \/ due = {} /\ i = next /\ next <= Len(sent) /\ next' = next + 1
        /\ due' = due \ {i} /\ unacked' = unacked \cup {i}
        /\ deliveries' = [deliveries EXCEPT ![i] = @ + 1]
        /\ hand' = [hand EXCEPT ![w] = i]
    /\ pc' = [pc EXCEPT ![w] = "handle"]
    /\ NoFault /\ UNCHANGED acked /\ Rest

\* An error of Fetch that is no timeout ends the consumer for good: the update cycle that
\* could start it again is switched off, and would find its row unchanged.
FetchFails(w) ==
    /\ pc[w] = "idle" /\ Fails("fetch")
    /\ pc' = [pc EXCEPT ![w] = "ended"]
    /\ UNCHANGED <<next, unacked, due, deliveries, acked, hand>> /\ Rest

\* msg.Ack(): published without an answer, its error ignored.
Ack(w) ==
    /\ pc[w] = "ack"
    /\ pc' = [pc EXCEPT ![w] = "idle"] /\ hand' = [hand EXCEPT ![w] = 0]
    /\ \/ /\ acked' = acked \cup {hand[w]}
          /\ unacked' = unacked \ {hand[w]} /\ due' = due \ {hand[w]}
          /\ NoFault
       \/ Fails("ack") /\ UNCHANGED <<acked, unacked, due>>
    /\ UNCHANGED <<next, deliveries>> /\ Rest

\* AckWait is over (external): the server will deliver the message again, if it may.
AckWaitEnds(i) ==
    /\ i \in unacked
    /\ unacked' = unacked \ {i}
    /\ due' = IF deliveries[i] < MaxDeliver THEN due \cup {i} ELSE due
    /\ NoFault /\ UNCHANGED <<next, deliveries, acked, pc, hand>> /\ Rest
-----------------------------------------------------------------------------
(* The handlers.  An error ends the handler, and the message is acknowledged.  A call *)
(* that fails may have taken effect.                                                  *)

Handles(w, k) == pc[w] = "handle" /\ sent[hand[w]].kind = k

Go(w, l) == pc' = [pc EXCEPT ![w] = l] /\ UNCHANGED <<life, queue, nefario, hand>>

\* Wrong variant of InsertStartDto: a row that is there is written again.
InsertStartDtoAgain(w) ==
    LET r == InHand(w) IN
    /\ Handles(w, "start")
    /\ row' = [row EXCEPT ![r] = {"started"}]
    /\ Go(w, "update")
    /\ NoFault /\ UNCHANGED <<recent, replaced, central, harmed>>

\* ProcessStart: the insert of the run, which its primary key lets happen once.
InsertStartDto(w) ==
    LET r == InHand(w) IN
    /\ Handles(w, "start")
    /\ \/ /\ row[r] = {} /\ row' = [row EXCEPT ![r] = {"started"}]
          /\ Go(w, "update") /\ NoFault /\ UNCHANGED harmed
       \/ /\ row[r] # {} /\ UNCHANGED row
          /\ Go(w, "ack") /\ NoFault /\ UNCHANGED harmed
       \/ /\ Fails("db") /\ Harm({r}) /\ Go(w, "ack")
          /\ \E done \in BOOLEAN : row' = IF done /\ row[r] = {}
                                          THEN [row EXCEPT ![r] = {"started"}] ELSE row
    /\ UNCHANGED <<recent, replaced, central>>

\* Makes r the most recent run of its service; no row matches a run that has none.
PointTo(r) ==
    LET s == ServiceOf[r] IN
    IF s \in Service
    THEN /\ recent' = [recent EXCEPT ![s] = r]
         /\ replaced' = replaced \cup ({recent[s]} \ {NoRun, r})
    ELSE UNCHANGED <<recent, replaced>>

\* ProcessStart: UpdateServiceWithRunningProcess.
UpdateService(w) ==
    LET r == InHand(w) IN
    /\ pc[w] = "update"
    /\ \/ PointTo(r) /\ Go(w, "addStream") /\ NoFault /\ UNCHANGED harmed
       \/ /\ PointTo(r) \/ UNCHANGED <<recent, replaced>>
          /\ Fails("db") /\ Harm({r}) /\ Go(w, "ack")
    /\ UNCHANGED <<row, central>>

Created(r) == streams' = IF ServiceOf[r] \in Service THEN streams \cup {r} ELSE streams

\* ProcessStart: AddStream for each of its channels; a minion has none.
AddStream(w) ==
    LET r == InHand(w) IN
    /\ pc[w] = "addStream" /\ Go(w, "ack")
    /\ \/ Created(r) /\ NoFault /\ UNCHANGED harmed
       \/ Created(r) /\ Fails("stream") /\ Harm({r})
       \/ UNCHANGED streams /\ Fails("stream") /\ Harm({r})
    /\ UNCHANGED <<tables, stored>>

\* An update of the row of r, which may not be there: that is no error.
Learn(r, k) == row' = IF row[r] = {} THEN row ELSE [row EXCEPT ![r] = @ \cup {k}]

\* Wrong variant of UpdateRow: the service of the run is told that it runs.
UpdateRowPointing(w, k) ==
    LET r == InHand(w) IN
    /\ Handles(w, k) /\ Go(w, "ack")
    /\ Learn(r, k) /\ PointTo(r)
    /\ NoFault /\ UNCHANGED <<central, harmed>>

\* Wrong variant of UpdateRow: it is tried until the row is there.
UpdateRowRetrying(w, k) ==
    LET r == InHand(w) IN
    /\ Handles(w, k) /\ row[r] # {} /\ Go(w, "ack")
    /\ Learn(r, k)
    /\ NoFault /\ UNCHANGED <<recent, replaced, central, harmed>>

\* ProcessPing, UpdateMailbox and ProcessCompleted.
UpdateRow(w, k) ==
    LET r == InHand(w) IN
    /\ Handles(w, k) /\ Go(w, "ack")
    /\ \/ Learn(r, k) /\ NoFault /\ UNCHANGED harmed
       \/ Learn(r, k) /\ Fails("db") /\ Harm({r})
       \/ UNCHANGED row /\ Fails("db") /\ Harm({r})
    /\ UNCHANGED <<recent, replaced, central>>

\* StreamWrite: published without an answer.  Without a stream nobody takes the line.
StreamWrite(w) ==
    LET r == InHand(w) IN
    /\ Handles(w, "write") /\ Go(w, "ack")
    /\ \/ /\ stored' = IF r \in streams THEN [stored EXCEPT ![r] = Append(@, hand[w])] ELSE stored
          /\ NoFault /\ UNCHANGED harmed
       \/ UNCHANGED stored /\ Fails("publish") /\ Harm({r})
    /\ UNCHANGED <<tables, streams>>

Handler(w) ==
    \/ InsertStartDto(w) \/ UpdateService(w) \/ AddStream(w) \/ StreamWrite(w)
    \/ \E k \in {"ping", "mailbox", "completed"} : UpdateRow(w, k)
-----------------------------------------------------------------------------
(* Specification *)

Consumer(w) == Connect(w) \/ Fetch(w) \/ Handler(w) \/ Ack(w)

Next ==
    \/ \E r \in Run : Minion(r)
    \/ Start \/ Crash
    \/ \E w \in Worker : Consumer(w) \/ FetchFails(w)
    \/ \E i \in Places : AckWaitEnds(i)

Spec == Init /\ [][Next]_vars

\* Fairness: nefario is started again by systemd, its goroutines are scheduled, and the
\* server's timers go off.
Fairness ==
    /\ WF_vars(Start)
    /\ \A w \in Worker : WF_vars(Consumer(w))
    /\ \A i \in Places : WF_vars(AckWaitEnds(i))

FairSpec == Spec /\ Fairness
-----------------------------------------------------------------------------
(* Properties *)

\* A run that was replaced as the most recent of its service never is it again, whatever
\* is delivered again, fails or is cut short.
NeverBack == \A s \in Service : recent[s] \notin replaced

Stored(i) == \E j \in 1..Len(stored[sent[i].run]) : stored[sent[i].run][j] = i

\* What handling a message is for.
TookEffect(i) ==
    LET r == sent[i].run
        k == sent[i].kind IN
    CASE k = "start" ->
           /\ row[r] # {}
           /\ ServiceOf[r] \in Service => r \in streams /\ r \in replaced \cup {recent[ServiceOf[r]]}
      [] k = "write" -> Stored(i)
      [] OTHER -> k \in row[r]

\* With one worker, every message that is gone from the stream took effect, whatever is
\* delivered late or twice: only a run that lost a message, a call or nefario itself in
\* the middle of a handler may miss something, and no other run misses it with it.
AckedTookEffect == \A i \in acked : sent[i].run \notin harmed => TookEffect(i)

\* What is known of a run is not taken back by a message that is delivered again.
KnowledgeStays ==
    [][/\ \A r \in Run : row[r] \subseteq row'[r]
       /\ streams \subseteq streams']_vars

\* No goroutine will fetch a message any more: a consumer that ended, or was never
\* started, is not started again as long as nefario lives.
Deaf == nefario = "up" /\ \A w \in Worker : pc[w] \in {"off", "ended"}

\* Every message is handled to its end some time, or nefario has gone deaf.
QueueDrains == \A i \in Places : i <= Len(sent) ~> i \in acked \/ Deaf
=============================================================================
