---------------------------- MODULE JournalSlurp ----------------------------
(***************************************************************************)
(* How the launchy minion turns the systemd journal into process runs      *)
(* (launchy/journalctl-utils.go, with RunJournalCtlManager of agent.go).   *)
(*                                                                         *)
(* One reader goroutine reads journalctl and keeps, for every service it   *)
(* knows, the slurp of the run that is under way (CurrentSlurp).  A slurp  *)
(* has a bounded channel of lines, a publisher goroutine that empties it   *)
(* and writes to nefario, and a goroutine that watches the main process.   *)
(* The reader, the publisher and the watcher can each end the slurp, and   *)
(* sync.Once lets only the first of them report ProcessCompleted.  A       *)
(* ticker pings nefario for every current slurp, without a lock.           *)
(*                                                                         *)
(* A run is identified by its ProcessUid.  The lines of the journal are    *)
(* numbered in its order.                                                  *)
(***************************************************************************)
EXTENDS Naturals, Sequences

CONSTANTS
    Service,      \* systemd units of the minion
    Uid,          \* the ProcessUids drawn for runs
    NoUid,
    ChanSize,     \* capacity of SlurpChan.Chan (100)
    MaxLines,     \* bound: lines of the journal
    MaxPending,   \* bound: lines that journalctl has written and nobody has read
    MaxLaunches,  \* bound: times each unit is started
    FaultyOps,    \* which calls of the minion may fail
    MaxFaults     \* bound: how many do

ASSUME SlurpAssumption ==
    /\ NoUid \notin Uid \cup Service
    /\ ChanSize \in Nat \ {0}
    /\ MaxLines \in Nat /\ MaxPending \in Nat /\ MaxLaunches \in Nat /\ MaxFaults \in Nat
    /\ FaultyOps \subseteq {"start", "write", "pid"}

VARIABLES
    (* systemd *)
    unit,      \* state of each unit
    launches,  \* how many main processes it has had; the number is the pid of the last
    lines,     \* lines logged so far
    journal,   \* the lines in the pipe from journalctl
    (* the minion *)
    minion,    \* "up", or "panicked"
    stopped,   \* the context of the journal manager is cancelled
    enabled,   \* ServicesByName: "unknown", or whether MinionEnabled
    current,   \* CurrentSlurp of each service
    reader,    \* where the reader goroutine is
    hand,      \* the line it is sending
    pinging,   \* the service whose CurrentSlurp the ping goroutine found not nil
    (* the slurps *)
    service,   \* the service of a run
    watched,   \* pid whose end the watcher waits for
    watching,  \* runs whose watcher has not returned
    chan,      \* SlurpChan.Chan of a run
    buffers,   \* currentBuffers of its publisher
    cancelled, \* runs whose context is done
    pub,       \* its publisher goroutine
    shut,      \* runs whose ShutdownOnce is used: ProcessCompleted is sent or failed
    (* nefario *)
    started,   \* runs for which ProcessStart was published
    written,   \* lines of a run published with StreamWrite, in order
    faults

systemd == <<unit, launches, lines, journal>>
goroutines == <<watching, chan, buffers, cancelled, pub, shut, started, written>>
vars == <<unit, launches, lines, journal, minion, stopped, enabled, current, reader, hand,
          pinging, service, watched, watching, chan, buffers, cancelled, pub, shut, started,
          written, faults>>

Line == [service : Service, kind : {"app", "start", "end"}, n : Nat]

\* What each variable holds; the reader never has a line in hand for a service
\* without a slurp.
TypeOK ==
    /\ unit \in [Service -> {"down", "starting", "up", "dying"}]
    /\ launches \in [Service -> Nat] /\ lines \in Nat /\ journal \in Seq(Line)
    /\ minion \in {"up", "panicked"} /\ stopped \in BOOLEAN
    /\ enabled \in [Service -> {"unknown", "off", "on"}]
    /\ current \in [Service -> Uid \cup {NoUid}]
    /\ reader \in {"reading", "sending", "ended"}
    /\ hand \in Line \cup {NoUid}
    /\ reader = "sending" => hand \in Line /\ current[hand.service] \in started
    /\ pinging \in Service \cup {NoUid}
    /\ service \in [Uid -> Service \cup {NoUid}] /\ watched \in [Uid -> Nat]
    /\ watching \subseteq Uid /\ cancelled \subseteq Uid /\ shut \subseteq Uid
    /\ started \subseteq Uid
    /\ chan \in [Uid -> Seq(Nat)] /\ buffers \in [Uid -> Seq(Nat)] /\ written \in [Uid -> Seq(Nat)]
    /\ \A u \in Uid : Len(chan[u]) <= ChanSize
    /\ pub \in [Uid -> {"none", "running", "ended"}]
    /\ faults \in Nat

Init ==
    /\ unit = [s \in Service |-> "down"] /\ launches = [s \in Service |-> 0]
    /\ lines = 0 /\ journal = <<>>
    /\ minion = "up" /\ stopped = FALSE /\ enabled = [s \in Service |-> "unknown"]
    /\ current = [s \in Service |-> NoUid] /\ reader = "reading" /\ hand = NoUid
    /\ pinging = NoUid
    /\ service = [u \in Uid |-> NoUid] /\ watched = [u \in Uid |-> 0] /\ watching = {}
    /\ chan = [u \in Uid |-> <<>>] /\ buffers = [u \in Uid |-> <<>>] /\ cancelled = {}
    /\ pub = [u \in Uid |-> "none"] /\ shut = {}
    /\ started = {} /\ written = [u \in Uid |-> <<>>]
    /\ faults = 0

Fails(k) == k \in FaultyOps /\ faults < MaxFaults /\ faults' = faults + 1
-----------------------------------------------------------------------------
(* systemd and its journal (external) *)

Log(s, k) ==
    /\ lines < MaxLines /\ Len(journal) < MaxPending
    /\ lines' = lines + 1
    /\ journal' = IF minion = "up" /\ reader # "ended"
                  THEN Append(journal, [service |-> s, kind |-> k, n |-> lines + 1]) ELSE journal

NothingOfMinion ==
    UNCHANGED <<minion, stopped, enabled, current, reader, hand, pinging, service, watched,
                goroutines, faults>>

\* A main process is started.
Launch(s) ==
    /\ unit[s] = "down" /\ launches[s] < MaxLaunches
    /\ unit' = [unit EXCEPT ![s] = "starting"]
    /\ launches' = [launches EXCEPT ![s] = @ + 1]
    /\ UNCHANGED <<lines, journal>> /\ NothingOfMinion

\* systemd logs that the start job is done; the process may have logged before.
LogStarted(s) ==
    /\ unit[s] = "starting" /\ Log(s, "start")
    /\ unit' = [unit EXCEPT ![s] = "up"]
    /\ UNCHANGED launches /\ NothingOfMinion

\* The processes of the unit log a line; children may outlive the main process.
LogApp(s) ==
    /\ unit[s] # "down" /\ Log(s, "app")
    /\ UNCHANGED <<unit, launches>> /\ NothingOfMinion

MainProcessEnds(s) ==
    /\ unit[s] \in {"starting", "up"}
    /\ unit' = [unit EXCEPT ![s] = "dying"]
    /\ UNCHANGED <<launches, lines, journal>> /\ NothingOfMinion

\* systemd logs that the unit is stopped, or what it consumed before it failed.
LogEnd(s) ==
    /\ unit[s] = "dying" /\ Log(s, "end")
    /\ unit' = [unit EXCEPT ![s] = "down"]
    /\ UNCHANGED launches /\ NothingOfMinion

\* MainPID of the unit: 0 when it has none.
MainPid(s) == IF unit[s] \in {"starting", "up"} THEN launches[s] ELSE 0

\* A number that is no pid: currentPid failed, and tail rejects its argument.
BadPid == MaxLaunches + 1
-----------------------------------------------------------------------------
(* ServicesByName *)

\* processRecord of RunJournalCtlManager, on a change of the service table.
ProcessRecord(s, on) ==
    /\ minion = "up" /\ ~ stopped
    /\ enabled' = [enabled EXCEPT ![s] = IF on THEN "on" ELSE "off"]
    /\ UNCHANGED <<systemd, minion, stopped, current, reader, hand, pinging, service, watched,
                   goroutines, faults>>
-----------------------------------------------------------------------------
(* Slurps *)

\* Shutdown of the runs in U (at most one): the first call reports ProcessCompleted and
\* cancels the context.
Shutdown(U) == shut' = shut \cup U

Current(s) == {current[s]} \ {NoUid}

\* StartProcessRunSlurp, after Shutdown of the runs in U: draws a ProcessUid, asks
\* systemctl for the pid, publishes ProcessStart and starts the two goroutines.
StartProcessRunSlurp(s, U) ==
    \E u \in {v \in Uid : service[v] = NoUid} :
        /\ service' = [service EXCEPT ![u] = s]
        /\ current' = [current EXCEPT ![s] = u]
        /\ started' = started \cup {u}
        /\ watching' = watching \cup {u}
        /\ pub' = [pub EXCEPT ![u] = "running"]
        /\ cancelled' = cancelled \cup U \cup (IF stopped THEN {u} ELSE {})
        /\ \/ watched' = [watched EXCEPT ![u] = MainPid(s)] /\ UNCHANGED faults
           \/ watched' = [watched EXCEPT ![u] = BadPid] /\ Fails("pid")

\* StartProcessRunSlurp when ProcessStart cannot be published: it answers nil.
StartFails(s, U) ==
    /\ Fails("start")
    /\ current' = [current EXCEPT ![s] = NoUid]
    /\ cancelled' = cancelled \cup U
    /\ UNCHANGED <<service, started, watching, pub, watched>>

\* The watcher: tail --pid has returned.  Pid 0 is never found dead.
WatchEnds(u) ==
    /\ minion = "up" /\ u \in watching
    /\ watched[u] # 0 /\ watched[u] # MainPid(service[u])
    /\ watching' = watching \ {u}
    /\ cancelled' = cancelled \cup {u}
    /\ UNCHANGED <<systemd, minion, stopped, enabled, current, reader, hand, pinging, service, watched,
                   chan, buffers, pub, shut, started, written, faults>>
-----------------------------------------------------------------------------
(* SubmitJournalCtlStdoutReader *)

\* The reader has no use for a line of a service that is unknown, or not enabled and
\* without a slurp.
Ignored(s) == enabled[s] = "unknown" \/ (enabled[s] = "off" /\ current[s] = NoUid)

Reads(k) == minion = "up" /\ reader = "reading" /\ journal # <<>> /\ Head(journal).kind = k

ReadIgnored ==
    /\ minion = "up" /\ reader = "reading" /\ journal # <<>> /\ Ignored(Head(journal).service)
    /\ journal' = Tail(journal)
    /\ UNCHANGED <<unit, launches, lines>> /\ NothingOfMinion

\* A line for the slurp that is there.
ReadApp ==
    /\ Reads("app") /\ current[Head(journal).service] # NoUid
    /\ reader' = "sending" /\ hand' = Head(journal)
    /\ journal' = Tail(journal)
    /\ UNCHANGED <<unit, launches, lines, minion, stopped, enabled, current, pinging, service, watched,
                   goroutines, faults>>

\* A line for a service without a slurp: newSlurp.  When ProcessStart fails the reader
\* goes on to dereference the nil it got, and nothing recovers that panic.
ReadFirstApp ==
    LET s == Head(journal).service IN
    /\ Reads("app") /\ ~ Ignored(s) /\ current[s] = NoUid
    /\ \/ /\ StartProcessRunSlurp(s, {})
          /\ reader' = "sending" /\ hand' = Head(journal) /\ UNCHANGED minion
       \/ /\ StartFails(s, {})
          /\ minion' = "panicked" /\ UNCHANGED <<reader, hand>>
    /\ journal' = Tail(journal)
    /\ UNCHANGED <<unit, launches, lines, stopped, enabled, pinging, chan, buffers, shut, written>>

\* Wrong variant of ReadStart: the slurp that is there is replaced without Shutdown.
ReadStartLeaving ==
    LET s == Head(journal).service IN
    /\ Reads("start") /\ ~ Ignored(s)
    /\ StartProcessRunSlurp(s, {}) \/ StartFails(s, {})
    /\ journal' = Tail(journal)
    /\ UNCHANGED <<unit, launches, lines, minion, stopped, enabled, reader, hand, pinging, chan,
                   buffers, shut, written>>

\* MessageKind_Start: newSlurp, which first ends a slurp that is there.
ReadStart ==
    LET s == Head(journal).service IN
    /\ Reads("start") /\ ~ Ignored(s)
    /\ Shutdown(Current(s))
    /\ StartProcessRunSlurp(s, Current(s)) \/ StartFails(s, Current(s))
    /\ journal' = Tail(journal)
    /\ UNCHANGED <<unit, launches, lines, minion, stopped, enabled, reader, hand, pinging, chan,
                   buffers, written>>

\* MessageKind_Failed and MessageKind_Stopped: stopCurrentSlurp.
ReadEnd ==
    LET s == Head(journal).service IN
    /\ Reads("end") /\ ~ Ignored(s)
    /\ Shutdown(Current(s)) /\ cancelled' = cancelled \cup Current(s)
    /\ current' = [current EXCEPT ![s] = NoUid]
    /\ journal' = Tail(journal)
    /\ UNCHANGED <<unit, launches, lines, minion, stopped, enabled, reader, hand, pinging, service,
                   watched, watching, chan, buffers, pub, started, written, faults>>

\* The channel takes the line when it has room; until then the reader waits.
SendLine ==
    LET u == current[hand.service] IN
    /\ minion = "up" /\ reader = "sending" /\ Len(chan[u]) < ChanSize
    /\ chan' = [chan EXCEPT ![u] = Append(@, hand.n)]
    /\ reader' = "reading" /\ hand' = NoUid
    /\ UNCHANGED <<systemd, minion, stopped, enabled, current, pinging, service, watched, watching,
                   buffers, cancelled, pub, shut, started, written, faults>>

\* journalctl has ended, or the minion is told to stop: the context of the journal
\* manager is cancelled, and with it those of its slurps.
Stop ==
    /\ minion = "up" /\ ~ stopped
    /\ stopped' = TRUE
    /\ cancelled' = cancelled \cup {u \in Uid : service[u] # NoUid}
    /\ UNCHANGED <<systemd, minion, enabled, current, reader, hand, pinging, service, watched,
                   watching, chan, buffers, pub, shut, started, written, faults>>

\* The pipe is closed, by journalctl's end or by the manager's.
ReaderEnds ==
    /\ minion = "up" /\ reader = "reading"
    /\ reader' = "ended" /\ journal' = <<>>
    /\ UNCHANGED <<unit, launches, lines, minion, stopped, enabled, current, hand, pinging, service,
                   watched, goroutines, faults>>
-----------------------------------------------------------------------------
(* SubmitChanPublisher *)

\* Wrong variant of Take: after its first write the publisher leaves the loop.
TakeBeforeWrite(u) ==
    /\ minion = "up" /\ pub[u] = "running" /\ chan[u] # <<>> /\ written[u] = <<>>
    /\ buffers' = [buffers EXCEPT ![u] = Append(@, Head(chan[u]))]
    /\ chan' = [chan EXCEPT ![u] = Tail(@)]
    /\ UNCHANGED <<systemd, minion, stopped, enabled, current, reader, hand, pinging, service, watched,
                   watching, cancelled, pub, shut, started, written, faults>>

\* A buffer from the channel.  The select may choose it although the context is done.
Take(u) ==
    /\ minion = "up" /\ pub[u] = "running" /\ chan[u] # <<>>
    /\ buffers' = [buffers EXCEPT ![u] = Append(@, Head(chan[u]))]
    /\ chan' = [chan EXCEPT ![u] = Tail(@)]
    /\ UNCHANGED <<systemd, minion, stopped, enabled, current, reader, hand, pinging, service, watched,
                   watching, cancelled, pub, shut, started, written, faults>>

\* StreamWrite of the buffers; its error is ignored.
StreamWrite(u) ==
    \/ written' = [written EXCEPT ![u] = @ \o buffers[u]] /\ UNCHANGED faults
    \/ Fails("write") /\ UNCHANGED written

\* Wrong variant of SendCurrentBuffers: they are not emptied.
SendCurrentBuffersAgain(u) ==
    /\ minion = "up" /\ pub[u] = "running" /\ buffers[u] # <<>>
    /\ Len(written[u]) <= MaxLines
    /\ StreamWrite(u)
    /\ UNCHANGED <<systemd, minion, stopped, enabled, current, reader, hand, pinging, service, watched,
                   watching, chan, buffers, cancelled, pub, shut, started>>

\* The capture window is over, or MaxBytes is reached.  (The four nil buffers that
\* currentBuffers starts with are written as empty ones, and are left out.)
SendCurrentBuffers(u) ==
    /\ minion = "up" /\ pub[u] = "running" /\ buffers[u] # <<>>
    /\ StreamWrite(u)
    /\ buffers' = [buffers EXCEPT ![u] = <<>>]
    /\ UNCHANGED <<systemd, minion, stopped, enabled, current, reader, hand, pinging, service, watched,
                   watching, chan, cancelled, pub, shut, started>>

\* Wrong variant of PublisherEnds: the deferred Shutdown is forgotten.
PublisherEndsQuietly(u) ==
    /\ minion = "up" /\ pub[u] = "running" /\ u \in cancelled
    /\ StreamWrite(u)
    /\ buffers' = [buffers EXCEPT ![u] = <<>>]
    /\ pub' = [pub EXCEPT ![u] = "ended"]
    /\ UNCHANGED <<systemd, minion, stopped, enabled, current, reader, hand, pinging, service, watched,
                   watching, chan, cancelled, shut, started>>

\* The context is done: what was taken is written, what is in the channel is not, and
\* the deferred Shutdown runs.
PublisherEnds(u) ==
    /\ minion = "up" /\ pub[u] = "running" /\ u \in cancelled
    /\ StreamWrite(u)
    /\ buffers' = [buffers EXCEPT ![u] = <<>>]
    /\ pub' = [pub EXCEPT ![u] = "ended"]
    /\ Shutdown({u})
    /\ UNCHANGED <<systemd, minion, stopped, enabled, current, reader, hand, pinging, service, watched,
                   watching, chan, cancelled, started>>
-----------------------------------------------------------------------------
(* The ping goroutine of RunJournalCtlSlurp *)

\* It finds a current slurp ...
PingCheck(s) ==
    /\ minion = "up" /\ ~ stopped /\ pinging = NoUid /\ current[s] # NoUid
    /\ pinging' = s
    /\ UNCHANGED <<systemd, minion, stopped, enabled, current, reader, hand, service, watched,
                   goroutines, faults>>

\* ... and reads it again; the reader may have set it to nil meanwhile.
PingUse ==
    /\ minion = "up" /\ pinging # NoUid
    /\ minion' = IF current[pinging] = NoUid THEN "panicked" ELSE "up"
    /\ pinging' = NoUid
    /\ UNCHANGED <<systemd, stopped, enabled, current, reader, hand, service, watched, goroutines,
                   faults>>
-----------------------------------------------------------------------------
(* Specification *)

ReadLine == ReadIgnored \/ ReadApp \/ ReadFirstApp \/ ReadStart \/ ReadEnd

Publisher(u) == Take(u) \/ SendCurrentBuffers(u) \/ PublisherEnds(u)

Next ==
    \/ \E s \in Service : Launch(s) \/ LogStarted(s) \/ LogApp(s) \/ MainProcessEnds(s) \/ LogEnd(s)
    \/ \E s \in Service, on \in BOOLEAN : ProcessRecord(s, on)
    \/ ReadLine \/ SendLine \/ ReaderEnds \/ Stop
    \/ \E u \in Uid : WatchEnds(u) \/ Publisher(u)
    \/ \E s \in Service : PingCheck(s)
    \/ PingUse

Spec == Init /\ [][Next]_vars

\* Fairness: the goroutines are scheduled, tail returns when its process is gone, and
\* select does not pass over a case that stays ready for ever.
Fairness ==
    /\ WF_vars(ReadLine) /\ WF_vars(SendLine)
    /\ \A u \in Uid : WF_vars(WatchEnds(u)) /\ WF_vars(Take(u)) /\ WF_vars(PublisherEnds(u))

FairSpec == Spec /\ Fairness
-----------------------------------------------------------------------------
(* Properties *)

\* No slurp is left behind: one whose context is not done is the CurrentSlurp of its
\* service, so that the reader still sends to it and can end it.  In particular a
\* service never has two open runs.
LiveIsCurrent ==
    \A u \in Uid : pub[u] = "running" /\ u \notin cancelled => current[service[u]] = u

\* The lines of the journal are written at most once and in their order, whatever the
\* reader, the watcher and the publisher do to a slurp.
WrittenInOrder ==
    /\ \A u \in Uid : \A i, j \in 1..Len(written[u]) : i < j => written[u][i] < written[u][j]
    /\ \A u, v \in Uid : u # v =>
         \A i \in 1..Len(written[u]), j \in 1..Len(written[v]) : written[u][i] # written[v][j]

\* A run whose main process has ended, or whose minion stops, is reported as completed,
\* also when the reader is stuck or reads nothing more of it.
RunsShutDown ==
    \A u \in Uid :
        (u \in started /\ (stopped \/ (watched[u] # 0 /\ watched[u] # MainPid(service[u]))))
            ~> (u \in shut \/ minion = "panicked")

\* The reader waits for a full channel only as long as its publisher lives: a slow
\* nefario holds it up, and only an ended publisher stops it.
StuckOnlyOnEnded ==
    reader = "sending" ~> \/ reader # "sending" \/ minion = "panicked"
                          \/ pub[current[hand.service]] = "ended"
=============================================================================
