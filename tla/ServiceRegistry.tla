--------------------------- MODULE ServiceRegistry ---------------------------
(***************************************************************************)
(* The services of a minion in three places: systemd on its machine, the   *)
(* service table of nefario, and ServicesByName in the memory of the       *)
(* minion (launchy/agent.go, nefario/nefario.go, cdc, a8nats).             *)
(*                                                                         *)
(* Once an hour the service slurper lists the units of systemd, asks       *)
(* nefario for the rows, and sends the inserts and updates that make the   *)
(* rows agree.  Whether a service is to be slurped is decided in the table *)
(* and comes to the minion in two ways: the journal manager asks for all   *)
(* rows when it starts, and follows the changes of the table that the      *)
(* wal-listener publishes.  All three write to ServicesByName, without a   *)
(* lock around their reads and writes.                                     *)
(*                                                                         *)
(* Requests to nefario are calls over hermes.  An answer that comes after  *)
(* its caller has given up goes nowhere, but the request is done.          *)
(***************************************************************************)
EXTENDS Naturals, Sequences

CONSTANTS
    Unit,         \* units of systemd on the machine of the minion
    Registered,   \* units that have a row from the start, in the order of their uids
    Builds,       \* values of byValue to look at
    FaultyOps,    \* which calls may fail
    MaxUid,       \* bound: uids of rows
    MaxEvents,    \* bound: failures, deaths, changes of units and of minionEnabled together
    NoRow, NoRecord

Uid == 1..MaxUid
Status == {"gone", "dead", "running"}
Row == [name : Unit, enabled : BOOLEAN, status : Status]
Record == [uid : Uid, name : Unit, enabled : BOOLEAN]
Crud == [action : {"insert", "update"}, uid : Uid, name : Unit, status : Status]
Caller == {"slurper", "manager"}
Request == [from : Caller \cup {"nobody"}, endPoint : {"list", "crud"}, todo : SUBSET Crud]

ASSUME RegistryAssumption ==
    /\ Registered \in Seq(Unit) /\ Len(Registered) <= MaxUid
    /\ \A i, j \in 1..Len(Registered) : Registered[i] = Registered[j] => i = j
    /\ NoRow \notin Row /\ NoRecord \notin Record
    /\ Builds \subseteq BOOLEAN /\ Builds # {}
    /\ MaxUid \in Nat /\ MaxEvents \in Nat
    /\ FaultyOps \subseteq {"systemctl", "publish", "timeout", "db", "nefario", "consumer", "ack"}

VARIABLES
    byValue,       \* correlation ids and channel names are compared by their text
    systemd,       \* state of each unit; "gone" when systemctl does not list it
    (* nefario and its database *)
    table, drawn,  \* the service table, and how many uids were drawn for it
    feed,          \* rows as the wal-listener published them, in the order of the commits
    inbox,         \* requests to nefario; it works at the head
    (* the minion *)
    minion,        \* "down" or "up"
    memory,        \* ServicesByName
    slurper, units, crudActions, pending, \* the slurper, the units it listed, what it will
                   \* send, and a record it is about to store
    manager,       \* the journal manager up to its wait for the end
    seen, left,    \* by caller: the rows nefario answered, and the names still to be gone through
    consumer, next, due, \* the reader of feed, its place, and places to be delivered again
    (* history *)
    excused,       \* units whose record may be out of date for good
    lost,          \* uids of inserts that were not made
    events

database == <<table, drawn, feed>>
slurping == <<slurper, units, crudActions, pending>>
answers == <<seen, left>>
following == <<consumer, next, due>>
vars == <<byValue, systemd, database, inbox, minion, memory, slurping, manager, answers, following,
          excused, lost, events>>

\* What each variable holds; only a slurper that compares has something to send or store.
TypeOK ==
    /\ byValue \in BOOLEAN /\ systemd \in [Unit -> Status]
    /\ table \in [Uid -> Row \cup {NoRow}] /\ drawn \in 0..MaxUid
    /\ \A d \in Uid : d > drawn => table[d] = NoRow
    /\ feed \in Seq(Record) /\ inbox \in Seq(Request)
    /\ minion \in {"down", "up"} /\ memory \in [Unit -> Record \cup {NoRecord}]
    /\ slurper \in {"off", "list", "asking", "compare", "store", "sending", "ticker"}
    /\ units \in [Unit -> Status] /\ crudActions \subseteq Crud
    /\ pending \in Record \cup {NoRecord} /\ (pending # NoRecord <=> slurper = "store")
    /\ manager \in {"off", "connect", "asking", "initial", "watching", "ended"}
    /\ left \in [Caller -> SUBSET Unit]
    /\ seen \in [Caller -> [Uid -> Row \cup {NoRow}]]
    /\ consumer \in {"off", "starting", "reading", "ended"}
    /\ next \in Nat \ {0} /\ due \subseteq 1..Len(feed)
    /\ excused \subseteq Unit /\ lost \subseteq Uid
    /\ events \in 0..MaxEvents

Nothing == [c \in Caller |-> {}]
NoTable == [d \in Uid |-> NoRow]

Init ==
    /\ byValue \in Builds /\ systemd \in [Unit -> {"gone", "dead"}]
    /\ table = [d \in Uid |-> IF d > Len(Registered) THEN NoRow
                 ELSE [name |-> Registered[d], enabled |-> FALSE, status |-> "dead"]]
    /\ drawn = Len(Registered) /\ feed = <<>> /\ inbox = <<>>
    /\ minion = "down" /\ memory = [u \in Unit |-> NoRecord]
    /\ slurper = "off" /\ units = [u \in Unit |-> "gone"] /\ crudActions = {} /\ pending = NoRecord
    /\ manager = "off" /\ seen = [c \in Caller |-> NoTable] /\ left = Nothing
    /\ consumer = "off" /\ next = 1 /\ due = {}
    /\ excused = {} /\ lost = {}
    /\ events = 0

NoFault == UNCHANGED events
Happens == events < MaxEvents /\ events' = events + 1
Fails(op) == op \in FaultyOps /\ Happens
-----------------------------------------------------------------------------
(* Calls of nefario *)

\* RawRpcCall publishes the request.  With names that are pointers nefario does not read it.
Post(c, endPoint, todo) ==
    inbox' = IF byValue
             THEN Append(inbox, [from |-> c, endPoint |-> endPoint, todo |-> todo]) ELSE inbox

Waits(c) == IF c = "slurper" THEN slurper \in {"asking", "sending"} ELSE manager = "asking"

\* A call has failed, or the last one of the slurper is answered: the slurper waits for
\* its ticker, the manager logs the error and goes on.
Returns(c) ==
    IF c = "slurper" THEN slurper' = "ticker" /\ UNCHANGED manager
    ELSE IF c = "manager" THEN manager' = "watching" /\ UNCHANGED slurper
    ELSE UNCHANGED <<slurper, manager>>

\* The correlations of the callers in C are gone.
Orphaned(C) ==
    inbox' = [i \in DOMAIN inbox |->
                IF inbox[i].from \in C THEN [inbox[i] EXCEPT !.from = "nobody"] ELSE inbox[i]]

Unanswered(c) == \E i \in DOMAIN inbox : inbox[i].from = c

\* The context of the call ends before nefario has come to it.
TimeOut(c) ==
    /\ Waits(c) /\ Unanswered(c) /\ Fails("timeout")
    /\ Orphaned({c}) /\ Returns(c)
    /\ UNCHANGED <<byValue, systemd, database, minion, memory, units, crudActions, pending, answers,
                   following, excused, lost>>

\* The context of the call ends, since no answer can come any more.
NoAnswer(c) ==
    /\ Waits(c) /\ ~ Unanswered(c) /\ NoFault
    /\ Returns(c)
    /\ UNCHANGED <<byValue, systemd, database, inbox, minion, memory, units, crudActions, pending,
                   answers, following, excused, lost>>

Inserts(A) == {a.uid : a \in {b \in A : b.action = "insert"}}
Named(T) == {T[d].name : d \in {e \in Uid : T[e] # NoRow}}
-----------------------------------------------------------------------------
(* nefario *)

NothingOfMinion ==
    UNCHANGED <<byValue, systemd, minion, memory, units, crudActions, pending, following, excused>>

\* The caller of a list has the rows, and goes through the names.
Answered(c) ==
    /\ c = "slurper" => slurper' = "compare" /\ UNCHANGED manager
    /\ c = "manager" => slurper' = slurper /\ manager' = IF Named(table) = {} THEN "watching" ELSE "initial"
    /\ c = "nobody" => UNCHANGED <<slurper, manager>>
    /\ seen' = [k \in Caller |-> IF k = c THEN table ELSE seen[k]]
    /\ left' = [k \in Caller |->
         IF k # c THEN left[k]
         ELSE IF k = "manager" THEN Named(table)
         ELSE Named(table) \cup {u \in Unit : units[u] # "gone"}]

\* Wrong variant of ListSystemdServices: the rows are listed before what was sent earlier
\* is done.
ListSystemdServicesAtOnce ==
    /\ \E i \in DOMAIN inbox :
        /\ inbox[i].endPoint = "list"
        /\ inbox' = SubSeq(inbox, 1, i - 1) \o SubSeq(inbox, i + 1, Len(inbox))
        /\ Answered(inbox[i].from) /\ NoFault
    /\ UNCHANGED <<database, lost>> /\ NothingOfMinion

\* One request after the other is read from the inbox of nefario.
ListSystemdServices ==
    /\ inbox # <<>> /\ Head(inbox).endPoint = "list"
    /\ inbox' = Tail(inbox)
    /\ \/ Answered(Head(inbox).from) /\ NoFault
       \/ Returns(Head(inbox).from) /\ Fails("db") /\ UNCHANGED answers
    /\ UNCHANGED <<database, lost>> /\ NothingOfMinion

\* InsertService or UpdateService, and the change that the wal-listener makes of it.  An
\* update sets the state of the unit only.
Applied(a) ==
    LET old == table[a.uid]
        new == [name |-> a.name, enabled |-> a.action = "update" /\ old.enabled, status |-> a.status]
    IN  /\ table' = [table EXCEPT ![a.uid] = new]
        /\ feed' = Append(feed, [uid |-> a.uid, name |-> a.name, enabled |-> new.enabled])

\* One statement of SystemdServiceCrud, in the order of the request, which is that of a Go
\* map.  They are no transaction: an error leaves out the rest.
SystemdServiceCrud ==
    /\ inbox # <<>> /\ Head(inbox).endPoint = "crud"
    /\ \E a \in Head(inbox).todo :
        LET rest == Head(inbox).todo \ {a} IN
        \/ /\ Applied(a) /\ NoFault /\ UNCHANGED lost
           /\ IF rest # {}
              THEN inbox' = [inbox EXCEPT ![1].todo = rest] /\ UNCHANGED <<slurper, manager>>
              ELSE inbox' = Tail(inbox) /\ Returns(Head(inbox).from)
        \/ /\ inbox' = Tail(inbox) /\ Returns(Head(inbox).from) /\ Fails("db")
           /\ \/ Applied(a) /\ lost' = lost \cup Inserts(rest)
              \/ UNCHANGED <<table, feed>> /\ lost' = lost \cup Inserts(Head(inbox).todo)
    /\ UNCHANGED <<drawn, answers>> /\ NothingOfMinion

\* Nefario dies over a request, which was acknowledged when it was read.
NefarioDies ==
    /\ inbox # <<>> /\ Fails("nefario")
    /\ inbox' = Tail(inbox) /\ lost' = lost \cup Inserts(Head(inbox).todo)
    /\ UNCHANGED <<database, slurper, manager, answers>> /\ NothingOfMinion

Nefario == ListSystemdServices \/ SystemdServiceCrud
-----------------------------------------------------------------------------
(* ServicesByName *)

\* Wrong variant of ProcessRecord: a service that is there keeps its record.
ProcessRecordOnce(r) ==
    memory' = IF memory[r.name] = NoRecord THEN [memory EXCEPT ![r.name] = r] ELSE memory

\* processRecord of RunJournalCtlManager: a service that is there keeps its uid.
ProcessRecord(r) ==
    memory' = IF memory[r.name] = NoRecord THEN [memory EXCEPT ![r.name] = r]
              ELSE [memory EXCEPT ![r.name].enabled = r.enabled]

\* A record of u that was read from an older table is still to be stored.
Held(u) ==
    \/ pending # NoRecord /\ pending.name = u
    \/ manager = "initial" /\ u \in left["manager"]

\* The minion has read the row of u, and relies on the changes from there on.
Known(u) == memory[u] # NoRecord \/ Held(u) \/ (slurper \in {"compare", "store"} /\ u \in left["slurper"])

Excuse(U) == excused' = excused \cup U
-----------------------------------------------------------------------------
(* The service slurper *)

NothingOfManager == UNCHANGED <<byValue, systemd, table, feed, minion, manager, following, excused>>

\* RpcSystemctlListSystemdServices reports a failure in its response, with no services and
\* no error, and the slurper takes it for an empty list.
RunServiceSlurpLoopOnce ==
    /\ slurper = "list"
    /\ \/ units' = systemd /\ NoFault /\ Post("slurper", "list", {}) /\ slurper' = "asking"
       \/ units' = [u \in Unit |-> "gone"] /\ Fails("systemctl")
          /\ Post("slurper", "list", {}) /\ slurper' = "asking"
       \/ UNCHANGED <<units, inbox>> /\ Fails("publish") /\ slurper' = "ticker"
    /\ crudActions' = {}
    /\ UNCHANGED <<drawn, memory, pending, answers, lost>> /\ NothingOfManager

RowsOf(u) == {d \in Uid : seen["slurper"][d] # NoRow /\ seen["slurper"][d].name = u}

\* Wrong variant of Differs: a row of a unit that was gone is left as it is.
DiffersUnlessGone(status, unit) == status # unit /\ status # "gone"

\* reflect.DeepEqual of the unit and the json of the row; of a unit that is not listed only
\* UnitExists is looked at.
Differs(status, unit) == status # unit

\* One name of the loop, up to the Load: what is to be sent for it, under the uid of its row
\* (of one of them, if there were several) or a new one.  The Store is a step of its own.
Compare(u) ==
    /\ slurper = "compare" /\ u \in left["slurper"]
    /\ left' = [left EXCEPT !["slurper"] = @ \ {u}]
    /\ \E d \in IF RowsOf(u) = {} THEN {drawn + 1} \cap Uid ELSE RowsOf(u) :
        LET r == seen["slurper"][d]
            isNew == RowsOf(u) = {}
            crud(action) == [action |-> action, uid |-> d, name |-> u, status |-> units[u]]
        IN  /\ drawn' = IF isNew THEN d ELSE drawn
            /\ crudActions' = IF isNew THEN crudActions \cup {crud("insert")}
                 ELSE IF Differs(r.status, units[u]) THEN crudActions \cup {crud("update")}
                 ELSE crudActions
            /\ IF memory[u] # NoRecord THEN UNCHANGED <<slurper, pending>>
               ELSE /\ slurper' = "store"
                    /\ pending' = [uid |-> d, name |-> u, enabled |-> ~ isNew /\ r.enabled]
    /\ NoFault /\ UNCHANGED <<units, memory, seen, inbox, lost>> /\ NothingOfManager

\* ServicesByName.Store of the record, whatever is there by now.
Store ==
    /\ slurper = "store" /\ slurper' = "compare"
    /\ memory' = [memory EXCEPT ![pending.name] = pending] /\ pending' = NoRecord
    /\ NoFault /\ UNCHANGED <<units, crudActions, drawn, answers, inbox, lost>> /\ NothingOfManager

\* NefarioSystemdServiceRecordCrud, when there is something to send.
SendCrud ==
    /\ slurper = "compare" /\ left["slurper"] = {} /\ crudActions' = {}
    /\ \/ /\ crudActions = {} /\ slurper' = "ticker"
          /\ NoFault /\ UNCHANGED <<inbox, lost>>
       \/ /\ crudActions # {} /\ slurper' = "sending" /\ Post("slurper", "crud", crudActions)
          /\ NoFault /\ lost' = IF byValue THEN lost ELSE lost \cup Inserts(crudActions)
       \/ /\ crudActions # {} /\ slurper' = "ticker" /\ Fails("publish")
          /\ lost' = lost \cup Inserts(crudActions) /\ UNCHANGED inbox
    /\ units' = [u \in Unit |-> "gone"] /\ seen' = [seen EXCEPT !["slurper"] = NoTable]
    /\ UNCHANGED <<memory, pending, drawn, left>> /\ NothingOfManager

Ticker ==
    /\ slurper = "ticker" /\ slurper' = "list" /\ NoFault
    /\ UNCHANGED <<units, crudActions, pending, drawn, memory, answers, inbox, lost>> /\ NothingOfManager

RunServiceSlurper ==
    RunServiceSlurpLoopOnce \/ (\E u \in Unit : Compare(u)) \/ Store \/ SendCrud \/ Ticker
-----------------------------------------------------------------------------
(* The journal manager and the changes of the table *)

NothingOfSlurper == UNCHANGED <<byValue, systemd, database, minion, slurping, lost>>

\* The goroutine that follows the changes is submitted, and the rows are asked for at once.
RunJournalCtlManager ==
    /\ manager = "connect"
    /\ \/ /\ consumer' = "starting"
          /\ \/ manager' = "asking" /\ Post("manager", "list", {}) /\ NoFault
             \/ manager' = "watching" /\ UNCHANGED inbox /\ Fails("publish")
       \/ manager' = "ended" /\ Fails("consumer") /\ UNCHANGED <<consumer, inbox>>
    /\ UNCHANGED <<memory, answers, next, due, excused>> /\ NothingOfSlurper

\* One of the rows that nefario answered.
ProcessInitial(u) ==
    /\ manager = "initial" /\ u \in left["manager"]
    /\ left' = [left EXCEPT !["manager"] = @ \ {u}]
    /\ IF left["manager"] = {u}
       THEN manager' = "watching" /\ seen' = [seen EXCEPT !["manager"] = NoTable]
       ELSE UNCHANGED <<manager, seen>>
    /\ \E d \in Uid :
        /\ seen["manager"][d] # NoRow /\ seen["manager"][d].name = u
        /\ ProcessRecord([uid |-> d, name |-> u, enabled |-> seen["manager"][d].enabled])
    /\ NoFault /\ UNCHANGED <<inbox, following, excused>> /\ NothingOfSlurper

\* RunWorkQueue makes a consumer without a name, that begins with what is published next.
Subscribe ==
    /\ consumer = "starting" /\ due' = {} /\ next' = Len(feed) + 1
    /\ \/ consumer' = "reading" /\ NoFault
       \/ consumer' = "ended" /\ Fails("consumer")
    /\ UNCHANGED <<memory, manager, answers, inbox, excused>> /\ NothingOfSlurper

\* A change is fetched, processed and acknowledged; when the acknowledgement is lost it comes
\* again.  Unless it is out of date, or a record read before it is stored after it, the
\* record of its unit is now right.
ProcessChangeEvent(i) ==
    /\ consumer = "reading" /\ i \in 1..Len(feed) /\ (i = next \/ i \in due)
    /\ next' = IF i = next THEN next + 1 ELSE next
    /\ ProcessRecord(feed[i])
    /\ \/ due' = due \ {i} /\ NoFault
       \/ due' = due \cup {i} /\ Fails("ack")
    /\ LET u == feed[i].name
           newer == \E j \in i + 1..next - 1 : feed[j].name = u
       IN  excused' = IF newer \/ Held(u) THEN excused \cup {u} ELSE excused \ {u}
    /\ UNCHANGED <<consumer, manager, answers, inbox>> /\ NothingOfSlurper

\* An error of Fetch ends the goroutine, and nothing starts it again.
FetchFails ==
    /\ consumer = "reading" /\ consumer' = "ended" /\ Fails("consumer")
    /\ Excuse({feed[i].name : i \in (next..Len(feed)) \cup due})
    /\ UNCHANGED <<next, due, memory, manager, answers, inbox>> /\ NothingOfSlurper

Follower == Subscribe \/ \E i \in 1..Len(feed) : ProcessChangeEvent(i)
-----------------------------------------------------------------------------
(* The minion, systemd and the table's other writers (external) *)

\* AgentMain submits the slurper and the manager.
Start ==
    /\ minion = "down" /\ minion' = "up" /\ slurper' = "list" /\ manager' = "connect"
    /\ NoFault /\ UNCHANGED <<byValue, systemd, database, inbox, memory, units, crudActions, pending,
                              answers, following, excused, lost>>

\* The minion dies with all it has in memory; what it sent stays with nefario.
Crash ==
    /\ minion = "up" /\ Happens
    /\ minion' = "down" /\ memory' = [u \in Unit |-> NoRecord]
    /\ slurper' = "off" /\ manager' = "off" /\ consumer' = "off"
    /\ units' = [u \in Unit |-> "gone"] /\ crudActions' = {} /\ pending' = NoRecord
    /\ seen' = [c \in Caller |-> NoTable] /\ left' = Nothing /\ next' = 1 /\ due' = {}
    /\ Orphaned(Caller) /\ lost' = lost \cup Inserts(crudActions) /\ excused' = {}
    /\ UNCHANGED <<byValue, systemd, database>>

\* A unit is started, stopped, installed or removed.
Move(u) ==
    /\ Happens
    /\ \E s \in Status \ {systemd[u]} : systemd' = [systemd EXCEPT ![u] = s]
    /\ UNCHANGED <<byValue, database, inbox, minion, memory, slurping, manager, answers, following,
                   excused, lost>>

\* Somebody switches a service on or off in the table.  A minion that has read the row and
\* does not follow the changes yet, or no longer, misses it.
Edit(d) ==
    /\ table[d] # NoRow /\ Happens
    /\ LET u == table[d].name IN
        /\ table' = [table EXCEPT ![d].enabled = ~ @]
        /\ feed' = Append(feed, [uid |-> d, name |-> u, enabled |-> ~ table[d].enabled])
        /\ IF consumer # "reading" /\ Known(u) THEN Excuse({u}) ELSE UNCHANGED excused
    /\ UNCHANGED <<byValue, systemd, drawn, inbox, minion, memory, slurping, manager, answers,
                   following, lost>>

Next ==
    \/ Start \/ Crash
    \/ (\E u \in Unit : Move(u)) \/ (\E d \in Uid : Edit(d))
    \/ (\E c \in Caller : TimeOut(c) \/ NoAnswer(c))
    \/ Nefario \/ NefarioDies
    \/ RunServiceSlurper
    \/ RunJournalCtlManager \/ (\E u \in Unit : ProcessInitial(u)) \/ Follower \/ FetchFails

Spec == Init /\ [][Next]_vars

\* Fairness: the goroutines of the minion and of nefario are scheduled, systemd starts the
\* minion again, and calls end.
Fairness ==
    /\ WF_vars(RunServiceSlurper) /\ WF_vars(Nefario) /\ WF_vars(Start)
    /\ WF_vars(NoAnswer("slurper"))

FairSpec == Spec /\ Fairness
-----------------------------------------------------------------------------
(* Properties *)

\* A unit has one row, and the minion knows it by the uid of that row: what it sent before it
\* gave up or died is done before its next list is answered.  Only a uid whose insert was
\* lost stays in memory instead, and runs are reported under it until the minion ends.
OneIdentity ==
    \A d \in Uid : table[d] # NoRow =>
        /\ \A e \in Uid \ {d} : table[e] # NoRow => table[e].name # table[d].name
        /\ LET r == memory[table[d].name] IN r # NoRecord => r.uid = d \/ r.uid \in lost

\* What the minion thinks of minionEnabled is what the table says, or will be when it has
\* read the changes that are published.  It stays wrong only if a change was made before the
\* minion followed the table or after it ceased to, came again after a newer one, or was
\* overtaken by a record that was read before it; the next change heals that.
StaleHasCause ==
    \A u \in Unit : memory[u] # NoRecord /\ u \notin excused =>
        LET row == table[memory[u].uid] IN
        \/ row = NoRow \/ row.enabled = memory[u].enabled
        \/ consumer = "reading" /\ \E i \in next..Len(feed) : feed[i].name = u

\* In the end the table shows the units of the machine as they are, through failed listings
\* and calls, half of a request that is done, and deaths of the minion and of nefario.
Agrees(u) ==
    LET R == {d \in Uid : table[d] # NoRow /\ table[d].name = u} IN
    /\ systemd[u] # "gone" => R # {}
    /\ \A d \in R : table[d].status = systemd[u]
TableCatchesUp == \A u \in Unit : <>[](byValue => Agrees(u))
=============================================================================
