----------------------------- MODULE WalListener -----------------------------
(***************************************************************************)
(* The wal-listener (wal-listener/listener): it reads the changes of a     *)
(* PostgreSQL database from a replication slot, publishes an event for     *)
(* each to NATS, and tells the server how far it has got.                  *)
(*                                                                         *)
(* Three goroutines of the Listener are modelled, Stream, the heartbeats   *)
(* and checkConnection, with the process around them, and two parties      *)
(* outside: the server with its write-ahead log, slot and walsender, and   *)
(* the buffer of the NATS connection.                                      *)
(*                                                                         *)
(* Every record of the log has a position of its own.  A transaction is    *)
(* sent when it has committed, in the order of the commits, as Begin, its  *)
(* rows and Commit; a Relation message comes before the first row of a     *)
(* table on a connection.  WalStart is the position of the row, that of    *)
(* the first row for Begin, and the end of the commit record for Commit;   *)
(* the rows of a transaction may lie before the commit of an earlier one.  *)
(* A slot does not send again what committed before its confirmed          *)
(* position, and takes whatever position a status message reports.         *)
(***************************************************************************)
EXTENDS Naturals, Sequences, FiniteSets

CONSTANTS
    Tx,          \* transactions of the database
    NoTx,
    TableOf,     \* the table whose rows a transaction changes
    MaxRows,     \* bound: rows of each transaction
    MaxFaults,   \* bound: failures of Publish
    FaultyAcks,  \* whether a status message may fail to be sent
    MaxCrashes,  \* bound: times the process is killed or loses its connection
    HeldSlots    \* whether the server may hold the slot of a dead connection for a while

ASSUME WalAssumption ==
    /\ NoTx \notin Tx
    /\ MaxRows \in [Tx -> Nat \ {0}]
    /\ MaxFaults \in Nat
    /\ MaxCrashes \in Nat
    /\ FaultyAcks \in BOOLEAN
    /\ HeldSlots \in BOOLEAN

Table == {TableOf[x] : x \in Tx}

VARIABLES
    (* the server *)
    walEnd,     \* the position after the last record
    rows,       \* positions of the rows of each transaction
    commitAt,   \* position of its commit record, 0 before
    order,      \* the committed transactions, in the order of their commits
    origin,     \* consistent point of the slot, 0 before it is created
    confirmed,  \* confirmed position of the slot
    held,       \* the slot still belongs to the connection of a dead process
    alive,      \* the replication connection
    next, pos,  \* walsender: transaction in order, and message of it, to send next
    announced,  \*            tables whose Relation message was sent
    (* the listener *)
    stream,     \* where Stream is; "refused" when StartReplication has failed
    checker,    \* where checkConnection is: "down", "on", "ended"
    ctxDone,    \* the context was cancelled by an interrupt
    lsn,        \* Listener.lsn
    txLsn, txCommit, actions, relations,  \* the WalTransaction
    walStart,   \* WalStart of the message in hand
    events,     \* the events of the transaction that are still to be published
    beat,       \* position the heartbeat goroutine has read and not sent yet, 0 if none
    (* NATS *)
    handed,     \* events for which Publish returned nil
    buffer,     \* events in the buffer of the connection
    delivered,  \* events that the NATS server has got
    (* bounds *)
    faults, crashes

database == <<walEnd, rows, commitAt, order>>
slot == <<origin, confirmed, held>>
sender == <<alive, next, pos, announced>>
transaction == <<txLsn, txCommit, actions, relations>>
nats == <<handed, buffer, delivered>>
bounds == <<faults, crashes>>
vars == <<walEnd, rows, commitAt, order, origin, confirmed, held, alive, next, pos, announced,
          stream, checker, ctxDone, lsn, txLsn, txCommit, actions, relations, walStart, events,
          beat, handed, buffer, delivered, faults, crashes>>

\* An action of the WalTransaction: a row, and the transaction it belongs to.
Action == [at : Nat, tx : Tx]
\* An event: a row, and the transaction whose commit time it carries.
Event == [at : Nat, tx : Tx, commitTime : Tx]

\* What each variable holds; in particular the actions a transaction has gathered and
\* the events made from them are rows, and every event carries a commit time.
TypeOK ==
    /\ walEnd \in Nat /\ rows \in [Tx -> Seq(Nat)] /\ commitAt \in [Tx -> Nat] /\ order \in Seq(Tx)
    /\ origin \in Nat /\ confirmed \in Nat /\ held \in BOOLEAN
    /\ alive \in BOOLEAN /\ next \in Nat /\ pos \in Nat /\ announced \subseteq Table
    /\ stream \in {"down", "waiting", "publishing", "acking", "ended", "refused"}
    /\ checker \in {"down", "on", "ended"} /\ ctxDone \in BOOLEAN
    /\ lsn \in Nat /\ txLsn \in Nat /\ txCommit \in Tx \cup {NoTx}
    /\ actions \in Seq(Action) /\ relations \subseteq Table
    /\ walStart \in Nat /\ events \in Seq(Event) /\ beat \in Nat
    /\ handed \subseteq Event /\ buffer \subseteq Event /\ delivered \subseteq Event
    /\ faults \in Nat /\ crashes \in Nat

Init ==
    /\ walEnd = 1 /\ rows = [x \in Tx |-> <<>>] /\ commitAt = [x \in Tx |-> 0] /\ order = <<>>
    /\ origin = 0 /\ confirmed = 0 /\ held = FALSE
    /\ alive = FALSE /\ next = 1 /\ pos = 0 /\ announced = {}
    /\ stream = "down" /\ checker = "down" /\ ctxDone = FALSE
    /\ lsn = 0 /\ txLsn = 0 /\ txCommit = NoTx /\ actions = <<>> /\ relations = {}
    /\ walStart = 0 /\ events = <<>> /\ beat = 0
    /\ handed = {} /\ buffer = {} /\ delivered = {}
    /\ faults = 0 /\ crashes = 0
-----------------------------------------------------------------------------
(* The database (external) *)

\* A transaction that is open changes a row.
Change(x) ==
    /\ commitAt[x] = 0 /\ Len(rows[x]) < MaxRows[x]
    /\ rows' = [rows EXCEPT ![x] = Append(@, walEnd)]
    /\ walEnd' = walEnd + 1
    /\ UNCHANGED <<commitAt, order, slot, sender, stream, checker, ctxDone, lsn, transaction,
                   walStart, events, beat, nats, bounds>>

Commit(x) ==
    /\ commitAt[x] = 0 /\ rows[x] # <<>>
    /\ commitAt' = [commitAt EXCEPT ![x] = walEnd]
    /\ walEnd' = walEnd + 1
    /\ order' = Append(order, x)
    /\ UNCHANGED <<rows, slot, sender, stream, checker, ctxDone, lsn, transaction,
                   walStart, events, beat, nats, bounds>>

\* The server notices that the connection of a dead process is gone.
ReleaseSlot ==
    /\ held /\ held' = FALSE
    /\ UNCHANGED <<database, origin, confirmed, sender, stream, checker, ctxDone, lsn, transaction,
                   walStart, events, beat, nats, bounds>>
-----------------------------------------------------------------------------
(* Process *)

\* Transactions that committed before position p; the walsender starts after them.
CommittedBefore(p) == Cardinality({i \in 1..Len(order) : commitAt[order[i]] < p})

\* Process starts checkConnection and Stream, which starts the replication at the
\* confirmed position p.  While the slot is held StartReplication fails, and Stream
\* returns before it starts the heartbeats.
StartGoroutines(p) ==
    /\ stream' = IF held THEN "refused" ELSE "waiting"
    /\ checker' = "on" /\ ctxDone' = FALSE
    /\ alive' = TRUE /\ pos' = 0 /\ announced' = {}
    /\ next' = CommittedBefore(p) + 1
    /\ txLsn' = 0 /\ txCommit' = NoTx /\ actions' = <<>> /\ relations' = {}
    /\ walStart' = 0 /\ events' = <<>> /\ beat' = 0

\* Process when there is no slot: CreateReplicationSlotEx waits until no transaction
\* is open, and gives the position from which the slot sends.
ProcessNewSlot ==
    /\ stream = "down" /\ origin = 0
    /\ \A x \in Tx : rows[x] # <<>> => commitAt[x] # 0
    /\ origin' = walEnd /\ confirmed' = walEnd /\ lsn' = walEnd
    /\ StartGoroutines(walEnd)
    /\ UNCHANGED <<database, held, nats, bounds>>

\* Process when the slot exists: slotIsExists takes restart_lsn, r, which is at most
\* the confirmed position; the walsender starts at the confirmed one.
ProcessOldSlot(r) ==
    /\ stream = "down" /\ origin # 0 /\ r \in origin..confirmed
    /\ lsn' = r
    /\ StartGoroutines(confirmed)
    /\ UNCHANGED <<database, slot, nats, bounds>>

Down ==
    /\ stream' = "down" /\ checker' = "down" /\ alive' = FALSE /\ ctxDone' = FALSE
    /\ lsn' = 0 /\ txLsn' = 0 /\ txCommit' = NoTx /\ actions' = <<>> /\ relations' = {}
    /\ walStart' = 0 /\ events' = <<>> /\ beat' = 0

\* The process is killed: what the NATS connection has not flushed is lost.
Crash ==
    /\ stream # "down" /\ crashes < MaxCrashes /\ crashes' = crashes + 1
    /\ Down
    /\ held' \in {FALSE, alive /\ HeldSlots}
    /\ buffer' = {}
    /\ UNCHANGED <<database, origin, confirmed, next, pos, announced, handed, delivered, faults>>

\* group.Wait of Process returns when both goroutines have; main closes the
\* publisher, which flushes it.
Exit ==
    /\ stream \in {"ended", "refused"} /\ checker = "ended"
    /\ Down
    /\ buffer' = {} /\ delivered' = delivered \cup buffer
    /\ UNCHANGED <<database, slot, next, pos, announced, handed, bounds>>

\* An interrupt cancels the context.
Interrupt ==
    /\ stream # "down" /\ ~ ctxDone /\ crashes < MaxCrashes
    /\ ctxDone' = TRUE /\ crashes' = crashes + 1
    /\ UNCHANGED <<database, slot, sender, stream, checker, lsn, transaction, walStart, events,
                   beat, nats, faults>>

\* The replication connection breaks.
LoseConnection ==
    /\ alive /\ stream # "down" /\ crashes < MaxCrashes
    /\ alive' = FALSE /\ crashes' = crashes + 1
    /\ UNCHANGED <<database, slot, next, pos, announced, stream, checker, ctxDone, lsn, transaction,
                   walStart, events, beat, nats, faults>>

\* checkConnection returns when it finds the connection dead or the context done; in
\* the second case it closes the connections.
CheckConnection ==
    /\ checker = "on" /\ (~ alive \/ ctxDone)
    /\ checker' = "ended"
    /\ alive' = (alive /\ ~ ctxDone)
    /\ UNCHANGED <<database, slot, next, pos, announced, stream, ctxDone, lsn, transaction,
                   walStart, events, beat, nats, bounds>>
\* The other connection breaks: checkConnection returns its error, which group.Wait
\* reports only when Stream has returned too.
RepositoryLost ==
    /\ checker = "on" /\ crashes < MaxCrashes
    /\ checker' = "ended" /\ crashes' = crashes + 1
    /\ UNCHANGED <<database, slot, sender, stream, ctxDone, lsn, transaction, walStart, events,
                   beat, nats, faults>>
-----------------------------------------------------------------------------
(* Stream *)

\* The message the walsender sends next, for a transaction x that has committed.
NextMessage ==
    LET x == order[next]
        msg(k, w) == [kind |-> k, tx |-> x, walStart |-> w]
    IN  IF pos = 0 THEN msg("begin", rows[x][1])
        ELSE IF pos > Len(rows[x]) THEN msg("commit", commitAt[x] + 1)
        ELSE IF TableOf[x] \in announced THEN msg("row", rows[x][pos])
        ELSE msg("relation", rows[x][pos])

\* Moves the walsender past message m.
Sent(m) ==
    /\ next' = IF m.kind = "commit" THEN next + 1 ELSE next
    /\ pos' = IF m.kind = "commit" THEN 0 ELSE IF m.kind = "relation" THEN pos ELSE pos + 1
    /\ announced' = IF m.kind = "relation" THEN announced \cup {TableOf[m.tx]} ELSE announced

\* The errors of ParseWalMessage: errMessageLost and errRelationNotFound.
ParseFails(m) ==
    \/ m.kind = "commit" /\ txLsn > 0 /\ txLsn # commitAt[m.tx]
    \/ m.kind = "relation" /\ txLsn = 0
    \/ m.kind = "row" /\ TableOf[m.tx] \notin relations

\* ParseWalMessage on m when it does not fail.  LSN of Begin and of Commit is the
\* position of the commit record.
ParseWalMessage(m) ==
    /\ txLsn' = IF m.kind = "begin" THEN commitAt[m.tx] ELSE txLsn
    /\ txCommit' = IF m.kind = "commit" THEN m.tx ELSE txCommit
    /\ relations' = IF m.kind = "relation" THEN relations \cup {TableOf[m.tx]} ELSE relations
    /\ actions' = IF m.kind = "row" THEN Append(actions, [at |-> m.walStart, tx |-> m.tx])
                  ELSE actions

\* Wrong variant of CreateEventsWithFilter: the last action comes first.
CreateEventsReversed(as, c) ==
    [i \in 1..Len(as) |-> [at |-> as[Len(as) + 1 - i].at, tx |-> as[Len(as) + 1 - i].tx,
                           commitTime |-> c]]

\* CreateEventsWithFilter: an event for each action, with the time of the commit.
\* The filter of the configuration is looked up and not applied.
CreateEventsWithFilter(as, c) ==
    [i \in 1..Len(as) |-> [at |-> as[i].at, tx |-> as[i].tx, commitTime |-> c]]

\* processMessage makes events when tx.CommitTime is set.
HasCommitTime(c) == c # NoTx

\* WaitForReplicationMessage and the first half of processMessage.  A message that
\* does not parse is dropped.  A commit, or a commit left over from a Publish that
\* failed, makes events of all the actions gathered.
Receive ==
    /\ stream = "waiting" /\ alive /\ ~ ctxDone /\ next <= Len(order)
    /\ LET m == NextMessage IN
         /\ Sent(m)
         /\ walStart' = m.walStart
         /\ IF ParseFails(m) THEN UNCHANGED <<transaction, stream, events>>
            ELSE /\ ParseWalMessage(m)
                 /\ IF HasCommitTime(txCommit')
                    THEN /\ stream' = "publishing"
                         /\ events' = CreateEventsWithFilter(actions', txCommit')
                    ELSE stream' = "acking" /\ UNCHANGED events
    /\ UNCHANGED <<database, slot, alive, checker, ctxDone, lsn, beat, nats, bounds>>

\* Wrong variant of Publish: the error is logged and the event skipped.
PublishSkipping ==
    /\ stream = "publishing" /\ events # <<>>
    /\ \/ /\ handed' = handed \cup {Head(events)} /\ buffer' = buffer \cup {Head(events)}
          /\ UNCHANGED <<delivered, faults>>
       \/ /\ faults < MaxFaults /\ faults' = faults + 1
          /\ UNCHANGED nats
    /\ events' = Tail(events)
    /\ UNCHANGED <<database, slot, sender, stream, checker, ctxDone, lsn, transaction, walStart,
                   beat, crashes>>

\* Publish of one event.  An error ends processMessage: the transaction keeps its
\* actions and its commit time, and nothing is acknowledged.
Publish ==
    /\ stream = "publishing" /\ events # <<>>
    /\ \/ /\ handed' = handed \cup {Head(events)} /\ buffer' = buffer \cup {Head(events)}
          /\ events' = Tail(events)
          /\ UNCHANGED <<stream, walStart, delivered, faults>>
       \/ /\ faults < MaxFaults /\ faults' = faults + 1
          /\ stream' = "waiting" /\ events' = <<>> /\ walStart' = 0
          /\ UNCHANGED nats
    /\ UNCHANGED <<database, slot, sender, checker, ctxDone, lsn, transaction, beat, crashes>>

\* Wrong variant of Clear: it makes a new WalTransaction.
ClearAll ==
    /\ stream = "publishing" /\ events = <<>>
    /\ txCommit' = NoTx /\ actions' = <<>> /\ relations' = {}
    /\ stream' = "acking"
    /\ UNCHANGED <<database, slot, sender, checker, ctxDone, lsn, txLsn, walStart,
                   events, beat, nats, bounds>>

\* All events are published: Clear keeps LSN and RelationStore.
Clear ==
    /\ stream = "publishing" /\ events = <<>>
    /\ txCommit' = NoTx /\ actions' = <<>>
    /\ stream' = "acking"
    /\ UNCHANGED <<database, slot, sender, checker, ctxDone, lsn, txLsn, relations, walStart,
                   events, beat, nats, bounds>>

\* The server gets a status message that reports p, or it cannot be sent.
SendStandbyStatus(p) ==
    \/ alive /\ confirmed' = p
    \/ (~ alive \/ FaultyAcks) /\ UNCHANGED confirmed

\* The end of processMessage: AckWalMessage sets lsn and sends it, an error is logged.
AckWalMessage ==
    /\ stream = "acking"
    /\ IF walStart > lsn THEN lsn' = walStart /\ SendStandbyStatus(walStart)
       ELSE UNCHANGED <<lsn, confirmed>>
    /\ stream' = "waiting" /\ walStart' = 0
    /\ UNCHANGED <<database, origin, held, sender, checker, ctxDone, transaction, events, beat, nats,
                   bounds>>

\* A server heartbeat that asks for a reply.
ProcessHeartBeat ==
    /\ stream = "waiting" /\ alive /\ ~ ctxDone
    /\ SendStandbyStatus(lsn)
    /\ UNCHANGED <<database, origin, held, sender, stream, checker, ctxDone, lsn, transaction, walStart,
                   events, beat, nats, bounds>>

\* The loop of Stream ends when the connection fails or the context is done.
StreamEnds ==
    /\ stream = "waiting" /\ (~ alive \/ ctxDone)
    /\ stream' = "ended"
    /\ UNCHANGED <<database, slot, sender, checker, ctxDone, lsn, transaction, walStart, events, beat,
                   nats, bounds>>
-----------------------------------------------------------------------------
(* The heartbeat goroutine, and NATS (external) *)

\* Wrong variant of HeartbeatRead: the position received, not the one processed.
HeartbeatReadReceived ==
    /\ stream # "down" /\ stream # "refused" /\ ~ ctxDone /\ beat = 0
    /\ beat' = IF walStart > lsn THEN walStart ELSE lsn
    /\ UNCHANGED <<database, slot, sender, stream, checker, ctxDone, lsn, transaction, walStart, events,
                   nats, bounds>>

\* SendPeriodicHeartbeats: readLSN and the sending are not one step, and Stream may
\* acknowledge between them.  The goroutine outlives Stream.
HeartbeatRead ==
    /\ stream # "down" /\ stream # "refused" /\ ~ ctxDone /\ beat = 0
    /\ beat' = lsn
    /\ UNCHANGED <<database, slot, sender, stream, checker, ctxDone, lsn, transaction, walStart, events,
                   nats, bounds>>

HeartbeatSend ==
    /\ beat # 0
    /\ SendStandbyStatus(beat)
    /\ beat' = 0
    /\ UNCHANGED <<database, origin, held, sender, stream, checker, ctxDone, lsn, transaction, walStart,
                   events, nats, bounds>>

\* The NATS connection writes its buffer.
Flush ==
    /\ buffer # {}
    /\ delivered' = delivered \cup buffer /\ buffer' = {}
    /\ UNCHANGED <<database, slot, sender, stream, checker, ctxDone, lsn, transaction, walStart, events,
                   beat, handed, bounds>>
-----------------------------------------------------------------------------
(* Specification *)

StreamStep == Receive \/ Publish \/ Clear \/ AckWalMessage \/ StreamEnds

ProcessStep == ProcessNewSlot \/ (\E r \in origin..confirmed : ProcessOldSlot(r)) \/ Exit

Next ==
    \/ \E x \in Tx : Change(x) \/ Commit(x)
    \/ ReleaseSlot \/ Flush
    \/ ProcessStep \/ Crash \/ Interrupt
    \/ LoseConnection \/ RepositoryLost \/ CheckConnection
    \/ StreamStep \/ ProcessHeartBeat
    \/ HeartbeatRead \/ HeartbeatSend

Spec == Init /\ [][Next]_vars

\* Fairness: the goroutines are scheduled, the process is started again when it has
\* ended, the server notices dead connections.  The database owes nothing.
Fairness ==
    /\ WF_vars(StreamStep) /\ WF_vars(CheckConnection) /\ WF_vars(ProcessStep)
    /\ WF_vars(ReleaseSlot)

FairSpec == Spec /\ Fairness
-----------------------------------------------------------------------------
(* Properties *)

\* x committed after the slot was created, so its rows are sent.
Streamed(x) == origin # 0 /\ commitAt[x] >= origin

Handed(x) == \A i \in 1..Len(rows[x]) : \E e \in handed : e.at = rows[x][i]

\* The position the server may forget up to never passes a transaction with a row
\* that Publish has not accepted, although every message, not only Commit, is
\* acknowledged, transactions overlap in the log, Publish fails half way through a
\* transaction, stale heartbeats arrive late and the process dies anywhere.  What
\* Publish accepted is in a buffer, and only a crash empties that.
NoLoss ==
    \A x \in Tx : Streamed(x) /\ commitAt[x] < confirmed =>
        /\ Handed(x)
        /\ crashes = 0 => \A i \in 1..Len(rows[x]) : \E e \in delivered \cup buffer : e.at = rows[x][i]

\* ParseWalMessage never reports a lost message or an unknown relation: what Clear
\* leaves of the WalTransaction, after failed and repeated publishing too, is what
\* the next message needs.
ParseNeverFails == stream = "waiting" /\ alive /\ next <= Len(order) => ~ ParseFails(NextMessage)

\* A transaction whose publishing failed is published when a later one comes in, or
\* after a restart.  Only a start that the server refuses, because the slot is still
\* held, is the end of it: Process waits for checkConnection, which has no reason to end.
LaterCommitRetries ==
    \A x, y \in Tx : (Streamed(x) /\ commitAt[y] > commitAt[x]) ~> Handed(x) \/ stream = "refused"

\* The listener as a ChangeFeed: its log is the rows of the streamed transactions, known by the
\* positions of the row and of its commit.
Log == UNION {{[commit |-> commitAt[x], at |-> rows[x][j]] : j \in 1..Len(rows[x])} :
              x \in {y \in Tx : Streamed(y)}}

Out == {[commit |-> commitAt[e.tx], at |-> e.at] : e \in handed}

Acked == {c \in Log : c.commit < confirmed}

Feed == INSTANCE ChangeFeed WITH log <- Log, out <- Out, acked <- Acked

\* Every behaviour of the listener is one of a ChangeFeed: the first publication of
\* each change comes in commit order, and what is acknowledged has been published.
FeedSpec == Feed!Spec
=============================================================================
