--------------------------- MODULE LaunchyController ---------------------------
(***************************************************************************)
(* Launchy runs one child process (launchy/old-launchy-main.go,            *)
(* launchy-controller.go, launchy-rpc-server.go, process-stream-writer.go).*)
(*                                                                         *)
(* Four kinds of goroutines share the controller's state without a lock:   *)
(* main, the handler of signals, the loop that takes requests from a       *)
(* channel without a buffer, and one goroutine per run of the command.     *)
(* The reader of the RPC inbox puts the requests into that channel.        *)
(* Everything is reported to nefario through one NATS connection.          *)
(***************************************************************************)
EXTENDS Naturals

CONSTANTS
    Run,          \* runs of the command; a run stands for its uid, its goroutine and its process
    NoRun,
    Modes,        \* values of noExit, noStart to look at
    RpcChoices,   \* values of rpcWorks to look at
    MaxSignals, MaxRequests,
    MaxOutput,    \* what a child writes
    FaultyOps,    \* "getwd", "mailbox", "start", "publish"
    MaxFaults

ASSUME LaunchyAssumption ==
    /\ NoRun \notin Run
    /\ Modes \subseteq [noExit : BOOLEAN, noStart : BOOLEAN] /\ Modes # {}
    /\ RpcChoices \subseteq BOOLEAN /\ RpcChoices # {}
    /\ MaxSignals \in Nat /\ MaxRequests \in Nat /\ MaxOutput \in Nat /\ MaxFaults \in Nat

VARIABLES
    launchArgs, rpcWorks, \* the flags, and whether the RPC mailbox can be made and read
    launchy,       \* the process: "up", "ended", or "dead" of a panic
    main,          \* how far RunChildProcessMain0 is
    startRequest,  \* state.LaunchyProcessStartedRequest is set
    context,       \* the launchy context: "open", or who cancelled it first
    handler, interuptCh,  \* the signal goroutine and the channel, of size 1
    rpc, request,  \* the reader of the RPC inbox, and what it sends into RpcRequestCh
    loop,          \* the goroutine of SubmitInitialRun
    ChildProcess, ProcessState,  \* state.ChildProcess and state.ProcessState
    pc, uid,       \* how far RunChildProcess is, and the run it reports as completed
    process, pipe, \* the child, and its output that was not yet copied
    interrupted,   \* children that got a signal
    started, completed,  \* runs reported to nefario
    overlapped,    \* a run was begun before another had returned, or with the context done
    signals, requests, outputs, faults

config == <<launchArgs, rpcWorks>>
controller == <<ChildProcess, ProcessState>>
children == <<process, pipe, outputs>>
reports == <<started, completed>>
bounds == <<signals, requests>>
vars == <<config, launchy, main, startRequest, context, handler, interuptCh, rpc, request, loop,
          controller, pc, uid, children, interrupted, reports, overlapped, bounds, faults>>

Request == {"start", "interrupt", "kill"}

\* What each variable holds.  The uid of a report is known between the two steps of
\* SubmitChildProcessComplete only, and the reader holds a request only while it sends it.
TypeOK ==
    /\ launchArgs \in Modes /\ rpcWorks \in RpcChoices
    /\ launchy \in {"up", "ended", "dead"}
    /\ main \in {"begin", "wait", "shutdown"} /\ startRequest \in BOOLEAN
    /\ context \in {"open", "signal", "child", "rpc"}
    /\ handler \in {"select", "stop", "ended"} /\ interuptCh \in 0..1
    /\ rpc \in {"off", "begin", "idle", "send"} /\ request \in Request \cup {"none"}
    /\ rpc = "send" <=> request # "none"
    /\ loop \in {"off", "begin", "select", "ended"}
    /\ ChildProcess \in Run \cup {NoRun} /\ ProcessState \in {"Stopped", "Starting", "Running"}
    /\ pc \in [Run -> {"none", "start", "register", "publish", "wait", "complete", "report",
                       "clear", "cancel", "done"}]
    /\ uid \in [Run -> Run \cup {NoRun}]
    /\ launchy # "dead" => \A c \in Run : uid[c] # NoRun <=> pc[c] = "report"
    /\ process \in [Run -> {"none", "failed", "alive", "gone"}]
    /\ pipe \in [Run -> 0..MaxOutput] /\ outputs \in [Run -> 0..MaxOutput]
    /\ interrupted \subseteq Run /\ started \subseteq Run /\ completed \subseteq Run
    /\ overlapped \in BOOLEAN
    /\ signals \in 0..MaxSignals /\ requests \in 0..MaxRequests /\ faults \in 0..MaxFaults

Init ==
    /\ launchArgs \in Modes /\ rpcWorks \in RpcChoices
    /\ launchy = "up" /\ main = "begin" /\ startRequest = FALSE /\ context = "open"
    /\ handler = "select" /\ interuptCh = 0
    /\ rpc = "off" /\ request = "none" /\ loop = "off"
    /\ ChildProcess = NoRun /\ ProcessState = "Stopped"
    /\ pc = [c \in Run |-> "none"] /\ uid = [c \in Run |-> NoRun]
    /\ process = [c \in Run |-> "none"]
    /\ pipe = [c \in Run |-> 0] /\ outputs = [c \in Run |-> 0]
    /\ interrupted = {} /\ started = {} /\ completed = {} /\ overlapped = FALSE
    /\ signals = 0 /\ requests = 0 /\ faults = 0

Fails(op) == op \in FaultyOps /\ faults < MaxFaults /\ faults' = faults + 1

IsProcessRunning == ChildProcess # NoRun

\* The first to cancel ends the context; later calls do nothing.
CancelLaunchyContext(by) == context' = IF context = "open" THEN by ELSE context

Running(c) == pc[c] \notin {"none", "done"}

\* Go ahead with the run, as far as the program counter goes.
At(c, here, next) == launchy = "up" /\ pc[c] = here /\ pc' = [pc EXCEPT ![c] = next]
-----------------------------------------------------------------------------
(* main *)

\* SubmitLaunchyProcessStart, whose error nobody reads, then the two goroutines.
Begin ==
    /\ launchy = "up" /\ main = "begin" /\ main' = "wait"
    /\ \/ startRequest' = TRUE /\ UNCHANGED faults
       \/ Fails("getwd") /\ UNCHANGED startRequest
    /\ rpc' = "begin" /\ loop' = "begin"
    /\ UNCHANGED <<config, launchy, context, handler, interuptCh, request, controller, pc, uid,
                   children, interrupted, reports, overlapped, bounds>>

\* The context is done: launchy reports its own completion.
MainComplete ==
    /\ launchy = "up" /\ main = "wait" /\ context # "open" /\ main' = "shutdown"
    /\ UNCHANGED <<config, launchy, startRequest, context, handler, interuptCh, rpc, request,
                   loop, controller, pc, uid, children, interrupted, reports, overlapped, bounds,
                   faults>>

\* The connection is drained and closed, and the process exits with all its goroutines.
MainExit ==
    /\ launchy = "up" /\ main = "shutdown" /\ launchy' = "ended"
    /\ UNCHANGED <<config, main, startRequest, context, handler, interuptCh, rpc, request, loop,
                   controller, pc, uid, children, interrupted, reports, overlapped, bounds, faults>>
-----------------------------------------------------------------------------
(* Signals *)

\* The runtime puts a signal into the channel if there is room, and into a closed channel too.
Signal ==
    /\ launchy = "up" /\ signals < MaxSignals /\ signals' = signals + 1
    /\ IF handler = "ended" THEN launchy' = "dead" /\ UNCHANGED interuptCh
       ELSE interuptCh' = 1 /\ UNCHANGED launchy
    /\ UNCHANGED <<config, main, startRequest, context, handler, rpc, request, loop, controller,
                   pc, uid, children, interrupted, reports, overlapped, requests, faults>>

\* Wrong variant of HandleSignal: nothing is done without a child.
HandleSignalIgnoring ==
    /\ launchy = "up" /\ handler = "select" /\ interuptCh = 1 /\ interuptCh' = 0
    /\ handler' = IF IsProcessRunning THEN "stop" ELSE "select"
    /\ UNCHANGED <<config, launchy, main, startRequest, context, rpc, request, loop, controller, pc,
                   uid, children, interrupted, reports, overlapped, bounds, faults>>

\* The handler looks whether a child is running, and ends the context otherwise.
HandleSignal ==
    /\ launchy = "up" /\ handler = "select" /\ interuptCh = 1 /\ interuptCh' = 0
    /\ IF IsProcessRunning THEN handler' = "stop" /\ UNCHANGED context
       ELSE handler' = "ended" /\ CancelLaunchyContext("signal")
    /\ UNCHANGED <<config, launchy, main, startRequest, rpc, request, loop, controller, pc, uid,
                   children, interrupted, reports, overlapped, bounds, faults>>

\* A child that is gone in the meantime is left alone, and one that could not be started has
\* no process: to signal it is a panic.
StopRunningProcess ==
    /\ IF IsProcessRunning /\ process[ChildProcess] = "failed" THEN launchy' = "dead"
       ELSE UNCHANGED launchy
    /\ interrupted' = interrupted \cup {c \in Run : c = ChildProcess /\ process[c] = "alive"}

HandlerStops ==
    /\ launchy = "up" /\ handler = "stop" /\ handler' = "select"
    /\ StopRunningProcess
    /\ UNCHANGED <<config, main, startRequest, context, interuptCh, rpc, request, loop, controller,
                   pc, uid, children, reports, overlapped, bounds, faults>>

HandlerEnds ==
    /\ launchy = "up" /\ handler = "select" /\ context # "open" /\ handler' = "ended"
    /\ UNCHANGED <<config, launchy, main, startRequest, context, interuptCh, rpc, request, loop,
                   controller, pc, uid, children, interrupted, reports, overlapped, bounds, faults>>
-----------------------------------------------------------------------------
(* The RPC server *)

\* The mailbox of the RPC server is made from a configuration without a url, which
\* CreateRpcMailbox does not know; an error of the mailbox is a panic too.
SubmitRpcListenAndServe ==
    /\ launchy = "up" /\ rpc = "begin"
    /\ \/ rpcWorks /\ rpc' = "idle" /\ UNCHANGED <<launchy, faults>>
       \/ ~rpcWorks /\ launchy' = "dead" /\ UNCHANGED <<rpc, faults>>
       \/ rpcWorks /\ Fails("mailbox") /\ launchy' = "dead" /\ UNCHANGED rpc
    /\ UNCHANGED <<config, main, startRequest, context, handler, interuptCh, request, loop,
                   controller, pc, uid, children, interrupted, reports, overlapped, bounds>>

\* Bound: a start is asked for only as long as there is a run for it.
CanRun == loop # "begin" /\ \E c \in Run : pc[c] = "none"

\* RpcStartProcess and RpcStopProcess send their request into the channel.
RpcSend(r) ==
    /\ launchy = "up" /\ rpc = "idle"
    /\ requests < MaxRequests /\ requests' = requests + 1
    /\ r = "start" => CanRun
    /\ rpc' = "send" /\ request' = r
    /\ UNCHANGED <<config, launchy, main, startRequest, context, handler, interuptCh, loop,
                   controller, pc, uid, children, interrupted, reports, overlapped, signals, faults>>

RpcStopLaunchy ==
    /\ launchy = "up" /\ rpc = "idle" /\ requests < MaxRequests /\ requests' = requests + 1
    /\ CancelLaunchyContext("rpc")
    /\ UNCHANGED <<config, launchy, main, startRequest, handler, interuptCh, rpc, request, loop,
                   controller, pc, uid, children, interrupted, reports, overlapped, signals, faults>>
-----------------------------------------------------------------------------
(* The loop of SubmitInitialRun *)

\* submitRunCommand starts a goroutine; ChildProcess is set by it, later.
SubmitRunCommand ==
    \E c \in Run :
        /\ pc[c] = "none" /\ pc' = [pc EXCEPT ![c] = "start"]
        /\ overlapped' = (overlapped \/ context # "open" \/ \E d \in Run : Running(d))

LoopBegin ==
    /\ launchy = "up" /\ loop = "begin" /\ loop' = "select"
    /\ IF launchArgs.noStart THEN UNCHANGED <<pc, overlapped>> ELSE SubmitRunCommand
    /\ UNCHANGED <<config, launchy, main, startRequest, context, handler, interuptCh, rpc, request,
                   controller, uid, children, interrupted, reports, bounds, faults>>

\* The loop takes the request out of the sender's hand.
Taken ==
    /\ launchy = "up" /\ loop = "select" /\ rpc = "send"
    /\ rpc' = "idle" /\ request' = "none"
    /\ UNCHANGED <<config, main, startRequest, context, handler, interuptCh, loop, controller, uid,
                   children, reports, bounds, faults>>

StartRequest ==
    /\ request = "start" /\ Taken
    /\ IF IsProcessRunning THEN UNCHANGED <<pc, overlapped>> ELSE SubmitRunCommand
    /\ UNCHANGED <<launchy, interrupted>>

StopRequest ==
    /\ request \in {"interrupt", "kill"} /\ Taken
    /\ StopRunningProcess
    /\ UNCHANGED <<pc, overlapped>>

LoopEnds ==
    /\ launchy = "up" /\ loop = "select" /\ context # "open" /\ loop' = "ended"
    /\ UNCHANGED <<config, launchy, main, startRequest, context, handler, interuptCh, rpc, request,
                   controller, pc, uid, children, interrupted, reports, overlapped, bounds, faults>>
-----------------------------------------------------------------------------
(* RunChildProcess *)

\* cmd.Start, with nothing known of the child to the other goroutines yet.
StartCommand(c) ==
    /\ At(c, "start", "register")
    /\ ProcessState' = "Starting"
    /\ \/ process' = [process EXCEPT ![c] = "alive"] /\ UNCHANGED faults
       \/ Fails("start") /\ process' = [process EXCEPT ![c] = "failed"]
    /\ UNCHANGED <<config, launchy, main, startRequest, context, handler, interuptCh, rpc, request,
                   loop, ChildProcess, uid, pipe, outputs, interrupted, reports, overlapped, bounds>>

\* Wrong variant of SubmitChildProcessStart: the state is set only for a child with a process.
SubmitChildProcessStartAlive(c) ==
    /\ At(c, "register", "publish") /\ startRequest
    /\ IF process[c] = "failed" THEN UNCHANGED controller
       ELSE ChildProcess' = c /\ ProcessState' = "Running"
    /\ UNCHANGED <<config, launchy, main, startRequest, context, handler, interuptCh, rpc, request,
                   loop, uid, children, interrupted, reports, overlapped, bounds, faults>>

\* SubmitChildProcessStart uses the working directory of launchy's own request.
SubmitChildProcessStart(c) ==
    /\ At(c, "register", "publish")
    /\ IF startRequest
       THEN /\ ChildProcess' = c
            /\ ProcessState' = IF process[c] = "failed" THEN ProcessState ELSE "Running"
            /\ UNCHANGED launchy
       ELSE launchy' = "dead" /\ UNCHANGED controller
    /\ UNCHANGED <<config, main, startRequest, context, handler, interuptCh, rpc, request, loop,
                   uid, children, interrupted, reports, overlapped, bounds, faults>>

\* A publish into the connection: none after it was closed, and it may fail.
Published(set, c) ==
    \/ set' = set \cup {c} /\ UNCHANGED faults
    \/ Fails("publish") /\ UNCHANGED set

PublishStart(c) ==
    /\ At(c, "publish", "wait")
    /\ Published(started, c)
    /\ UNCHANGED <<config, launchy, main, startRequest, context, handler, interuptCh, rpc, request,
                   loop, controller, uid, children, interrupted, completed, overlapped, bounds>>

\* The child writes, and ProcessStreamWriter publishes what it wrote.
Output(c) ==
    /\ process[c] = "alive" /\ outputs[c] < MaxOutput
    /\ outputs' = [outputs EXCEPT ![c] = @ + 1] /\ pipe' = [pipe EXCEPT ![c] = @ + 1]
    /\ UNCHANGED <<config, launchy, main, startRequest, context, handler, interuptCh, rpc, request,
                   loop, controller, pc, uid, process, interrupted, reports, overlapped, bounds,
                   faults>>

PostLogSlice(c) ==
    /\ launchy = "up" /\ pipe[c] > 0 /\ pipe' = [pipe EXCEPT ![c] = @ - 1]
    /\ UNCHANGED <<config, launchy, main, startRequest, context, handler, interuptCh, rpc, request,
                   loop, controller, pc, uid, process, outputs, interrupted, reports, overlapped,
                   bounds, faults>>

ChildEnds(c) ==
    /\ process[c] = "alive" /\ process' = [process EXCEPT ![c] = "gone"]
    /\ UNCHANGED <<config, launchy, main, startRequest, context, handler, interuptCh, rpc, request,
                   loop, controller, pc, uid, pipe, outputs, interrupted, reports, overlapped,
                   bounds, faults>>

\* cmd.Wait returns when the child has ended and its output was copied, or at once when the
\* command was never started.
Waited(c) == process[c] \in {"gone", "failed"} /\ pipe[c] = 0

\* Wrong variant of Wait: the state is cleared before the completion is submitted.
WaitClearing(c) ==
    /\ At(c, "wait", "complete") /\ Waited(c)
    /\ ChildProcess' = NoRun /\ ProcessState' = "Stopped"
    /\ UNCHANGED <<config, launchy, main, startRequest, context, handler, interuptCh, rpc, request,
                   loop, uid, children, interrupted, reports, overlapped, bounds, faults>>

Wait(c) ==
    /\ At(c, "wait", "complete") /\ Waited(c)
    /\ UNCHANGED <<config, launchy, main, startRequest, context, handler, interuptCh, rpc, request,
                   loop, controller, uid, children, interrupted, reports, overlapped, bounds, faults>>

\* SubmitChildProcessComplete takes the uid from the state, where another run may have put
\* its own, or nothing.
SubmitChildProcessComplete(c) ==
    /\ At(c, "complete", "report")
    /\ IF IsProcessRunning
       THEN /\ uid' = [uid EXCEPT ![c] = ChildProcess]
            /\ ChildProcess' = NoRun /\ ProcessState' = "Stopped"
            /\ UNCHANGED launchy
       ELSE launchy' = "dead" /\ UNCHANGED <<uid, controller>>
    /\ UNCHANGED <<config, main, startRequest, context, handler, interuptCh, rpc, request, loop,
                   children, interrupted, reports, overlapped, bounds, faults>>

ProcessCompleted(c) ==
    /\ At(c, "report", "clear")
    /\ Published(completed, uid[c]) /\ uid' = [uid EXCEPT ![c] = NoRun]
    /\ UNCHANGED <<config, launchy, main, startRequest, context, handler, interuptCh, rpc, request,
                   loop, controller, children, interrupted, started, overlapped, bounds>>

\* RunChildProcess clears the state once more, whatever is in it by now.
ClearState(c) ==
    /\ At(c, "clear", "cancel")
    /\ ChildProcess' = NoRun /\ ProcessState' = "Stopped"
    /\ UNCHANGED <<config, launchy, main, startRequest, context, handler, interuptCh, rpc, request,
                   loop, uid, children, interrupted, reports, overlapped, bounds, faults>>

RunEnds(c) ==
    /\ At(c, "cancel", "done")
    /\ IF launchArgs.noExit THEN UNCHANGED context ELSE CancelLaunchyContext("child")
    /\ UNCHANGED <<config, launchy, main, startRequest, handler, interuptCh, rpc, request, loop,
                   controller, uid, children, interrupted, reports, overlapped, bounds, faults>>
-----------------------------------------------------------------------------
Main == Begin \/ MainComplete \/ MainExit

Handler == HandleSignal \/ HandlerStops \/ HandlerEnds

Loop == LoopBegin \/ StartRequest \/ StopRequest \/ LoopEnds

RunChildProcess(c) ==
    \/ StartCommand(c) \/ SubmitChildProcessStart(c) \/ PublishStart(c) \/ Wait(c)
    \/ SubmitChildProcessComplete(c) \/ ProcessCompleted(c) \/ ClearState(c) \/ RunEnds(c)

Next ==
    \/ Main \/ Signal \/ Handler \/ Loop
    \/ SubmitRpcListenAndServe \/ RpcStopLaunchy \/ \E r \in Request : RpcSend(r)
    \/ \E c \in Run : RunChildProcess(c) \/ Output(c) \/ PostLogSlice(c) \/ ChildEnds(c)

Spec == Init /\ [][Next]_vars

\* Every goroutine runs on.  No fairness is asked of the child, of signals or of requests.
FairSpec ==
    /\ Spec
    /\ WF_vars(Main) /\ WF_vars(Handler) /\ WF_vars(Loop)
    /\ \A c \in Run : WF_vars(RunChildProcess(c)) /\ WF_vars(PostLogSlice(c))
-----------------------------------------------------------------------------
(* Properties *)

\* As long as no run was begun before the goroutine of another returned, or when launchy was
\* about to end, the state knows the one child that runs, its end is reported under its own
\* uid, and when its end ended launchy no child is left behind (launchy-controller.go
\* SubmitChildProcessStart, SubmitChildProcessComplete, old-launchy-main.go RunChildProcess).
RunsAlone ==
    ~overlapped =>
        /\ \A c \in Run : pc[c] \in {"publish", "wait"} /\ launchy # "dead" => ChildProcess = c
        /\ ProcessState = "Running" => \E c \in Run : c = ChildProcess /\ process[c] # "failed"
        /\ \A c \in Run : uid[c] \in {c, NoRun}
        /\ \A c \in completed : process[c] # "alive" /\ pipe[c] = 0
        /\ launchy = "ended" /\ context = "child" => \A c \in Run : process[c] # "alive"

\* With an RPC mailbox launchy dies of a panic only if no working directory or no mailbox could be
\* had, the command could not be started, two runs overlapped, or its context was done when
\* a signal came (old-launchy-main.go, the goroutine that closes the channel of signals).
DeathIsExplained ==
    launchy = "dead" =>
        \/ ~rpcWorks \/ faults > 0 \/ overlapped \/ context # "open"

\* A signal interrupts a child or ends launchy, unless launchy waits for requests after the
\* end of its child (old-launchy-main.go, the goroutine that handles signals).
SignalHeeded ==
    ~launchArgs.noExit /\ interuptCh = 1 ~> launchy # "up" \/ interrupted # {}

=============================================================================
