----------------------- MODULE LaunchyControllerProofs -----------------------
(***************************************************************************)
(* Theorems about LaunchyController.  TypeOK is inductive.  For the rest   *)
(* the invariant says where the goroutines are: how far a run is tells     *)
(* what became of its child, what main and the loop have done tells        *)
(* whether launchy's own request can be missing, and as long as no two     *)
(* runs overlapped one run at most is under way and the state is its own.  *)
(***************************************************************************)
EXTENDS LaunchyController, TLAPS

\* How far a run is and what became of its child: no child before cmd.Start, and none alive
\* nor output left once cmd.Wait has returned.
ChildrenOK ==
    \A c \in Run :
        /\ pc[c] \in {"none", "start"} => process[c] = "none"
        /\ pc[c] \in {"complete", "report", "clear", "cancel", "done"} => Waited(c)
        /\ process[c] = "failed" => faults > 0

\* Runs come from the loop, which main starts after launchy's own request, and the handler of
\* signals ends only when the context is done.
GoroutinesOK ==
    /\ main = "begin" => loop = "off"
    /\ loop \in {"off", "begin"} => \A c \in Run : pc[c] = "none"
    /\ main # "begin" /\ ~startRequest => faults > 0
    /\ handler = "ended" => context # "open"

\* One run at most is under way, and the state is its own.
StateIsOwn ==
    /\ \A c, d \in Run : Running(c) /\ Running(d) => c = d
    /\ launchy # "dead" => \A c \in Run :
            ChildProcess = c <=> pc[c] \in {"publish", "wait", "complete"}
    /\ ProcessState = "Running" => ChildProcess # NoRun /\ process[ChildProcess] # "failed"
    /\ \A c \in Run : uid[c] \in {c, NoRun}
    /\ \A c \in completed : pc[c] \in {"clear", "cancel", "done"}
    /\ context = "child" => \A c \in Run : ~Running(c)

RunInv ==
    /\ TypeOK
    /\ ChildrenOK
    /\ GoroutinesOK
    /\ ~overlapped => StateIsOwn
    /\ DeathIsExplained
-----------------------------------------------------------------------------
(* Types *)

USE LaunchyAssumption

\* What the types need besides: what waits in the pipe was written by the child, and nobody
\* reads the inbox before main has begun.
OutputOK ==
    /\ \A c \in Run : pipe[c] <= outputs[c]
    /\ main = "begin" => rpc = "off"

LEMMA InitTypes == Init => TypeOK /\ OutputOK
<1> SUFFICES ASSUME Init PROVE TypeOK /\ OutputOK
    OBVIOUS
<1>1. OutputOK
    BY DEF Init, OutputOK
<1>2. faults \in 0..MaxFaults /\ signals \in 0..MaxSignals /\ requests \in 0..MaxRequests
    BY DEF Init
<1>3. pipe \in [Run -> 0..MaxOutput] /\ outputs \in [Run -> 0..MaxOutput]
    BY DEF Init
<1>4. \A c \in Run : uid[c] # NoRun <=> pc[c] = "report"
    BY DEF Init
<1>5. startRequest \in BOOLEAN /\ overlapped \in BOOLEAN
    BY Zenon DEF Init
<1>6. launchArgs \in Modes /\ rpcWorks \in RpcChoices
    BY DEF Init
<1>7. /\ pc \in [Run -> {"none", "start", "register", "publish", "wait", "complete", "report",
                         "clear", "cancel", "done"}]
      /\ uid \in [Run -> Run \cup {NoRun}]
      /\ process \in [Run -> {"none", "failed", "alive", "gone"}]
    BY DEF Init
<1>8. /\ launchy = "up" /\ main = "begin" /\ context = "open" /\ handler = "select"
      /\ interuptCh = 0 /\ rpc = "off" /\ request = "none" /\ loop = "off"
      /\ ChildProcess = NoRun /\ ProcessState = "Stopped"
      /\ interrupted = {} /\ started = {} /\ completed = {}
    BY DEF Init
<1> QED BY <1>1, <1>2, <1>3, <1>4, <1>5, <1>6, <1>7, <1>8 DEF TypeOK

LEMMA StutterTypes == TypeOK /\ UNCHANGED vars => TypeOK'
BY DEF TypeOK, vars, config, controller, children, reports, bounds, Request

LEMMA MainTypes == TypeOK /\ OutputOK /\ Main => TypeOK'
<1> SUFFICES ASSUME TypeOK, OutputOK, Main PROVE TypeOK'
    OBVIOUS
<1>1. CASE Begin
    <2>1. startRequest' \in BOOLEAN
        BY <1>1, Zenon DEF Begin, TypeOK
    <2>2. faults' \in 0..MaxFaults
        BY <1>1 DEF Begin, TypeOK, Fails
    <2>3. rpc' = "begin" /\ request = "none" /\ UNCHANGED request
        BY <1>1 DEF Begin, TypeOK, OutputOK
    <2>4. /\ main' = "wait" /\ loop' = "begin"
          /\ UNCHANGED <<config, launchy, context, handler, interuptCh, controller, pc, uid,
                         children, interrupted, reports, overlapped, bounds>>
        BY <1>1 DEF Begin
    <2> QED BY <2>1, <2>2, <2>3, <2>4
        DEF TypeOK, Request, config, controller, children, reports, bounds
<1>2. CASE MainComplete
    BY <1>2 DEF TypeOK, MainComplete, Request, config, controller, children, reports, bounds
<1>3. CASE MainExit
    BY <1>3 DEF TypeOK, MainExit, Request, config, controller, children, reports, bounds
<1> QED BY <1>1, <1>2, <1>3 DEF Main

LEMMA HandlerTypes == TypeOK /\ (Signal \/ Handler) => TypeOK'
<1> SUFFICES ASSUME TypeOK, Signal \/ Handler PROVE TypeOK'
    OBVIOUS
<1>1. CASE Signal
    BY <1>1 DEF TypeOK, Signal, Request, config, controller, children, reports, bounds
<1>2. CASE HandleSignal
    BY <1>2 DEF TypeOK, HandleSignal, CancelLaunchyContext, IsProcessRunning, Request,
           config, controller, children, reports, bounds
<1>3. CASE HandlerStops
    BY <1>3 DEF TypeOK, HandlerStops, StopRunningProcess, IsProcessRunning, Request,
           config, controller, children, reports, bounds
<1>4. CASE HandlerEnds
    BY <1>4 DEF TypeOK, HandlerEnds, Request, config, controller, children, reports, bounds
<1> QED BY <1>1, <1>2, <1>3, <1>4 DEF Handler

LEMMA RpcTypes ==
    ASSUME NEW r \in Request, TypeOK, SubmitRpcListenAndServe \/ RpcStopLaunchy \/ RpcSend(r)
    PROVE  TypeOK'
BY DEF TypeOK, SubmitRpcListenAndServe, RpcStopLaunchy, RpcSend, CancelLaunchyContext, Fails,
       Request, config, controller, children, reports, bounds

\* A run that is submitted has no uid to report yet.
LEMMA SubmittedTypes ==
    ASSUME TypeOK, SubmitRunCommand
    PROVE  /\ pc' \in [Run -> {"none", "start", "register", "publish", "wait", "complete", "report",
                               "clear", "cancel", "done"}]
           /\ overlapped' \in BOOLEAN
           /\ \A c \in Run : pc'[c] = "report" <=> pc[c] = "report"
<1>1. PICK c \in Run : pc[c] = "none" /\ pc' = [pc EXCEPT ![c] = "start"]
    BY DEF SubmitRunCommand
<1>2. overlapped' \in BOOLEAN
    BY DEF SubmitRunCommand
<1> QED BY <1>1, <1>2 DEF TypeOK

LEMMA LoopTypes == TypeOK /\ Loop => TypeOK'
<1> SUFFICES ASSUME TypeOK, Loop PROVE TypeOK'
    OBVIOUS
<1>1. CASE LoopBegin
    <2>1. CASE UNCHANGED <<pc, overlapped>>
        BY <1>1, <2>1 DEF TypeOK, LoopBegin, Request,
               config, controller, children, reports, bounds
    <2>2. CASE SubmitRunCommand
        BY <1>1, <2>2, SubmittedTypes DEF TypeOK, LoopBegin, Request,
               config, controller, children, reports, bounds
    <2> QED BY <1>1, <2>1, <2>2 DEF LoopBegin
<1>2. CASE StartRequest
    <2>1. CASE UNCHANGED <<pc, overlapped>>
        BY <1>2, <2>1 DEF TypeOK, StartRequest, Taken, Request,
               config, controller, children, reports, bounds
    <2>2. CASE SubmitRunCommand
        BY <1>2, <2>2, SubmittedTypes DEF TypeOK, StartRequest, Taken, Request,
               config, controller, children, reports, bounds
    <2> QED BY <1>2, <2>1, <2>2 DEF StartRequest
<1>3. CASE StopRequest
    BY <1>3 DEF TypeOK, StopRequest, Taken, StopRunningProcess, IsProcessRunning, Request,
           config, controller, children, reports, bounds
<1>4. CASE LoopEnds
    BY <1>4 DEF TypeOK, LoopEnds, Request, config, controller, children, reports, bounds
<1> QED BY <1>1, <1>2, <1>3, <1>4 DEF Loop

LEMMA RunTypes == ASSUME NEW c \in Run, TypeOK, RunChildProcess(c) PROVE TypeOK'
<1>1. CASE StartCommand(c)
    BY <1>1 DEF TypeOK, StartCommand, At, Fails, Request,
           config, controller, children, reports, bounds
<1>2. CASE SubmitChildProcessStart(c)
    BY <1>2 DEF TypeOK, SubmitChildProcessStart, At, Request,
           config, controller, children, reports, bounds
<1>3. CASE PublishStart(c)
    BY <1>3 DEF TypeOK, PublishStart, Published, Fails, At, Request,
           config, controller, children, reports, bounds
<1>4. CASE Wait(c)
    BY <1>4 DEF TypeOK, Wait, At, Request, config, controller, children, reports, bounds
<1>5. CASE SubmitChildProcessComplete(c)
    BY <1>5 DEF TypeOK, SubmitChildProcessComplete, IsProcessRunning, At, Request,
           config, controller, children, reports, bounds
<1>6. CASE ProcessCompleted(c)
    BY <1>6 DEF TypeOK, ProcessCompleted, Published, Fails, At, Request,
           config, controller, children, reports, bounds
<1>7. CASE ClearState(c)
    BY <1>7 DEF TypeOK, ClearState, At, Request, config, controller, children, reports, bounds
<1>8. CASE RunEnds(c)
    BY <1>8 DEF TypeOK, RunEnds, CancelLaunchyContext, At, Request,
           config, controller, children, reports, bounds
<1> QED BY <1>1, <1>2, <1>3, <1>4, <1>5, <1>6, <1>7, <1>8 DEF RunChildProcess

LEMMA ChildTypes ==
    ASSUME NEW c \in Run, TypeOK, OutputOK, Output(c) \/ PostLogSlice(c) \/ ChildEnds(c)
    PROVE  TypeOK'
<1>1. CASE Output(c)
    BY <1>1 DEF TypeOK, OutputOK, Output, Request, config, controller, children, reports, bounds
<1>2. CASE PostLogSlice(c)
    BY <1>2 DEF TypeOK, PostLogSlice, Request, config, controller, children, reports, bounds
<1>3. CASE ChildEnds(c)
    BY <1>3 DEF TypeOK, ChildEnds, Request, config, controller, children, reports, bounds
<1> QED BY <1>1, <1>2, <1>3

\* Only the child and the writer of its output touch the pipe, and main alone begins.
LEMMA OutputOnly ==
    [Next]_vars => \/ UNCHANGED <<pipe, outputs>> /\ (main' = "begin" => UNCHANGED <<main, rpc>>)
                   \/ \E c \in Run : Output(c) \/ PostLogSlice(c)
                   \/ rpc # "off" /\ UNCHANGED <<main, pipe, outputs>>
BY DEF Next, Main, Begin, MainComplete, MainExit, Signal, Handler, HandleSignal, HandlerStops,
       HandlerEnds, Loop, LoopBegin, StartRequest, StopRequest, LoopEnds, Taken,
       StopRunningProcess, SubmitRpcListenAndServe, RpcStopLaunchy, RpcSend, RunChildProcess,
       StartCommand, SubmitChildProcessStart, PublishStart, Wait, SubmitChildProcessComplete,
       ProcessCompleted, ClearState, RunEnds, ChildEnds, vars, children

LEMMA StepOutput == TypeOK /\ OutputOK /\ [Next]_vars => OutputOK'
<1> SUFFICES ASSUME TypeOK, OutputOK, [Next]_vars PROVE OutputOK'
    OBVIOUS
<1>1. ASSUME NEW c \in Run, Output(c) \/ PostLogSlice(c) PROVE OutputOK'
    BY <1>1 DEF OutputOK, Output, PostLogSlice, TypeOK
<1>2. CASE UNCHANGED <<pipe, outputs>> /\ (main' = "begin" => UNCHANGED <<main, rpc>>)
    BY <1>2 DEF OutputOK
<1>3. CASE rpc # "off" /\ UNCHANGED <<main, pipe, outputs>>
    BY <1>3 DEF OutputOK
<1> QED BY <1>1, <1>2, <1>3, OutputOnly

LEMMA StepTypes == TypeOK /\ OutputOK /\ [Next]_vars => TypeOK'
<1> SUFFICES ASSUME TypeOK, OutputOK, [Next]_vars PROVE TypeOK'
    OBVIOUS
<1>1. CASE SubmitRpcListenAndServe \/ RpcStopLaunchy \/ \E r \in Request : RpcSend(r)
    BY <1>1, RpcTypes DEF Request
<1>2. CASE \E c \in Run : RunChildProcess(c) \/ Output(c) \/ PostLogSlice(c) \/ ChildEnds(c)
    BY <1>2, RunTypes, ChildTypes
<1> QED BY <1>1, <1>2, StutterTypes, MainTypes, HandlerTypes, LoopTypes DEF Next

\* Every variable of the controller holds what it is meant to hold in every reachable state:
\* a uid is kept between the two steps of SubmitChildProcessComplete only, and a request by the
\* reader of the inbox only while it sends it (launchy-controller.go, launchy-rpc-server.go).
THEOREM TypeCorrect == Spec => []TypeOK
BY InitTypes, StepTypes, StepOutput, PTL DEF Spec
-----------------------------------------------------------------------------
(* Steps *)

\* The goroutines of the runs are started by the loop and go on by themselves.
LEMMA RunsGoOn ==
    [Next]_vars =>
        \/ UNCHANGED <<pc, process, pipe>>
        \/ SubmitRunCommand /\ UNCHANGED <<process, pipe>>
        \/ \E c \in Run : RunChildProcess(c)
        \/ \E c \in Run : Output(c) \/ PostLogSlice(c) \/ ChildEnds(c)
BY DEF Next, Main, Begin, MainComplete, MainExit, Signal, Handler, HandleSignal, HandlerStops,
       HandlerEnds, Loop, LoopBegin, StartRequest, StopRequest, LoopEnds, Taken,
       StopRunningProcess, SubmitRpcListenAndServe, RpcStopLaunchy, RpcSend, vars, children

\* A fault, an overlap and the end of the context stay what they are.
LEMMA NothingForgiven ==
    TypeOK /\ [Next]_vars =>
        /\ faults > 0 => faults' > 0
        /\ overlapped => overlapped'
        /\ context # "open" => UNCHANGED context
        /\ UNCHANGED rpcWorks
<1> SUFFICES ASSUME TypeOK, [Next]_vars
             PROVE  /\ faults > 0 => faults' > 0
                    /\ overlapped => overlapped'
                    /\ context # "open" => UNCHANGED context
                    /\ UNCHANGED rpcWorks
    OBVIOUS
<1> faults \in Nat
    BY DEF TypeOK
<1>1. faults > 0 => faults' > 0
    BY DEF Next, Main, Begin, MainComplete, MainExit, Signal, Handler, HandleSignal, HandlerStops,
           HandlerEnds, Loop, LoopBegin, StartRequest, StopRequest, LoopEnds, Taken,
           SubmitRpcListenAndServe, RpcStopLaunchy, RpcSend, RunChildProcess,
           StartCommand, SubmitChildProcessStart, PublishStart, Published, Wait,
           SubmitChildProcessComplete, ProcessCompleted, ClearState, RunEnds, Output, PostLogSlice,
           ChildEnds, Fails, vars
<1>2. overlapped => overlapped'
    BY DEF Next, Main, Begin, MainComplete, MainExit, Signal, Handler, HandleSignal, HandlerStops,
           HandlerEnds, Loop, LoopBegin, StartRequest, StopRequest, LoopEnds, SubmitRunCommand,
           SubmitRpcListenAndServe, RpcStopLaunchy, RpcSend, RunChildProcess,
           StartCommand, SubmitChildProcessStart, PublishStart, Wait,
           SubmitChildProcessComplete, ProcessCompleted, ClearState, RunEnds, Output, PostLogSlice,
           ChildEnds, vars
<1>3. context # "open" => UNCHANGED context
    BY DEF Next, Main, Begin, MainComplete, MainExit, Signal, Handler, HandleSignal, HandlerStops,
           HandlerEnds, Loop, LoopBegin, StartRequest, StopRequest, LoopEnds, Taken,
           CancelLaunchyContext, SubmitRpcListenAndServe, RpcStopLaunchy, RpcSend, RunChildProcess,
           StartCommand, SubmitChildProcessStart, PublishStart, Wait,
           SubmitChildProcessComplete, ProcessCompleted, ClearState, RunEnds, Output, PostLogSlice,
           ChildEnds, vars
<1>4. UNCHANGED rpcWorks
    BY DEF Next, Main, Begin, MainComplete, MainExit, Signal, Handler, HandleSignal, HandlerStops,
           HandlerEnds, Loop, LoopBegin, StartRequest, StopRequest, LoopEnds, Taken,
           SubmitRpcListenAndServe, RpcStopLaunchy, RpcSend, RunChildProcess,
           StartCommand, SubmitChildProcessStart, PublishStart, Wait,
           SubmitChildProcessComplete, ProcessCompleted, ClearState, RunEnds, Output, PostLogSlice,
           ChildEnds, vars, config
<1> QED BY <1>1, <1>2, <1>3, <1>4

\* What a step of a run does to the place where it is and to its child.
LEMMA RunStep ==
    ASSUME NEW c \in Run, TypeOK, RunChildProcess(c)
    PROVE  /\ \/ At(c, "start", "register") /\ StartCommand(c)
              \/ At(c, "register", "publish") /\ UNCHANGED process
              \/ At(c, "publish", "wait") /\ UNCHANGED process
              \/ At(c, "wait", "complete") /\ UNCHANGED process /\ Waited(c)
              \/ At(c, "complete", "report") /\ UNCHANGED process
              \/ At(c, "report", "clear") /\ UNCHANGED process
              \/ At(c, "clear", "cancel") /\ UNCHANGED process
              \/ At(c, "cancel", "done") /\ UNCHANGED process
           /\ UNCHANGED pipe
BY DEF RunChildProcess, StartCommand, SubmitChildProcessStart, PublishStart, Wait,
       SubmitChildProcessComplete, ProcessCompleted, ClearState, RunEnds, children

LEMMA StepChildren == TypeOK /\ ChildrenOK /\ [Next]_vars => ChildrenOK'
<1> SUFFICES ASSUME TypeOK, ChildrenOK, [Next]_vars PROVE ChildrenOK'
    OBVIOUS
<1> USE NothingForgiven
<1>1. CASE UNCHANGED <<pc, process, pipe>>
    BY <1>1 DEF ChildrenOK, Waited
<1>2. CASE SubmitRunCommand /\ UNCHANGED <<process, pipe>>
    BY <1>2 DEF ChildrenOK, SubmitRunCommand, TypeOK, Waited
<1>3. ASSUME NEW c \in Run, RunChildProcess(c) PROVE ChildrenOK'
    <2>1. CASE At(c, "start", "register") /\ StartCommand(c)
        <3>1. PICK r \in {"alive", "failed"} :
                    process' = [process EXCEPT ![c] = r] /\ (r = "failed" => faults' > 0)
            BY <2>1 DEF StartCommand, Fails, TypeOK
        <3>2. /\ pc' = [pc EXCEPT ![c] = "register"]
              /\ UNCHANGED pipe
            BY <2>1, <1>3, RunStep DEF At
        <3> QED BY <3>1, <3>2 DEF ChildrenOK, TypeOK, Waited
    <2>2. CASE UNCHANGED process
        BY <2>2, <1>3, RunStep DEF ChildrenOK, At, TypeOK, Waited
    <2> QED BY <2>1, <2>2, <1>3, RunStep
<1>4. ASSUME NEW c \in Run, Output(c) \/ PostLogSlice(c) \/ ChildEnds(c) PROVE ChildrenOK'
    <2>1. CASE Output(c)
        BY <2>1 DEF ChildrenOK, Output, TypeOK, Waited
    <2>2. CASE PostLogSlice(c)
        BY <2>2 DEF ChildrenOK, PostLogSlice, TypeOK, Waited
    <2>3. CASE ChildEnds(c)
        BY <2>3 DEF ChildrenOK, ChildEnds, TypeOK, Waited
    <2> QED BY <1>4, <2>1, <2>2, <2>3
<1> QED BY <1>1, <1>2, <1>3, <1>4, RunsGoOn

LEMMA StepGoroutines == TypeOK /\ GoroutinesOK /\ [Next]_vars => GoroutinesOK'
<1> SUFFICES ASSUME TypeOK, GoroutinesOK, [Next]_vars PROVE GoroutinesOK'
    OBVIOUS
<1> USE NothingForgiven
<1>1. CASE Begin
    <2>1. startRequest' \/ faults' > 0
        BY <1>1 DEF Begin, Fails, TypeOK
    <2> QED BY <1>1, <2>1 DEF GoroutinesOK, Begin, TypeOK
<1>2. CASE \/ MainComplete \/ MainExit \/ Signal \/ Handler \/ UNCHANGED vars
           \/ SubmitRpcListenAndServe \/ RpcStopLaunchy \/ \E r \in Request : RpcSend(r)
    <2>1. UNCHANGED <<loop, startRequest, pc>> /\ (main' = "begin" <=> main = "begin")
        BY <1>2 DEF MainComplete, MainExit, Signal, Handler, HandleSignal, HandlerStops,
               HandlerEnds, SubmitRpcListenAndServe, RpcStopLaunchy, RpcSend, vars
    <2>2. handler' = "ended" => handler = "ended" \/ context' # "open"
        BY <1>2 DEF MainComplete, MainExit, Signal, Handler, HandleSignal, HandlerStops,
               HandlerEnds, CancelLaunchyContext, SubmitRpcListenAndServe, RpcStopLaunchy, RpcSend, vars
    <2> QED BY <2>1, <2>2 DEF GoroutinesOK
<1>3. CASE Loop
    <2>1. loop \notin {"off"} /\ loop' \notin {"off", "begin"}
        BY <1>3 DEF Loop, LoopBegin, StartRequest, StopRequest, LoopEnds, Taken
    <2>2. UNCHANGED <<main, startRequest, handler>>
        BY <1>3 DEF Loop, LoopBegin, StartRequest, StopRequest, LoopEnds, Taken
    <2> QED BY <2>1, <2>2 DEF GoroutinesOK
<1>4. ASSUME NEW c \in Run, RunChildProcess(c) PROVE GoroutinesOK'
    <2>1. pc[c] # "none"
        BY <1>4, RunStep DEF At
    <2>2. UNCHANGED <<main, loop, startRequest, handler>>
        BY <1>4 DEF RunChildProcess, StartCommand, SubmitChildProcessStart, PublishStart, Wait,
               SubmitChildProcessComplete, ProcessCompleted, ClearState, RunEnds
    <2> QED BY <2>1, <2>2 DEF GoroutinesOK
<1>5. ASSUME NEW c \in Run, Output(c) \/ PostLogSlice(c) \/ ChildEnds(c) PROVE GoroutinesOK'
    BY <1>5 DEF GoroutinesOK, Output, PostLogSlice, ChildEnds
<1> QED BY <1>1, <1>2, <1>3, <1>4, <1>5 DEF Next, Main

\* The state of a run under way, for a step that is not one of its own.
LEMMA OwnElsewhere ==
    ASSUME TypeOK, StateIsOwn, UNCHANGED <<pc, controller, process, uid, completed>>,
           launchy' # "dead" => launchy # "dead",
           context' = "child" => context = "child"
    PROVE  StateIsOwn'
BY DEF StateIsOwn, controller, Running

LEMMA OwnSubmitted ==
    ASSUME TypeOK, StateIsOwn, SubmitRunCommand, ~overlapped',
           UNCHANGED <<controller, process, uid, completed, launchy, context>>
    PROVE  StateIsOwn'
<1>1. PICK c \in Run : pc[c] = "none" /\ pc' = [pc EXCEPT ![c] = "start"]
    BY DEF SubmitRunCommand
<1>2. context = "open" /\ \A d \in Run : ~Running(d)
    BY DEF SubmitRunCommand
<1>3. \A d \in Run : pc'[d] = IF d = c THEN "start" ELSE pc[d]
    BY <1>1 DEF TypeOK
<1> QED BY <1>1, <1>2, <1>3 DEF StateIsOwn, controller, Running, TypeOK

LEMMA OwnChild ==
    ASSUME NEW c \in Run, TypeOK, StateIsOwn, Output(c) \/ PostLogSlice(c) \/ ChildEnds(c)
    PROVE  StateIsOwn'
<1>1. UNCHANGED <<pc, controller, uid, completed, launchy, context>>
    BY DEF Output, PostLogSlice, ChildEnds, reports
<1>2. \A d \in Run : process'[d] = "failed" => process[d] = "failed"
    BY DEF Output, PostLogSlice, ChildEnds, TypeOK
<1> QED BY <1>1, <1>2 DEF StateIsOwn, controller, Running, TypeOK

\* The run that goes on is the only one under way, and the others are where they were.
LEMMA Going ==
    ASSUME NEW c \in Run, NEW here, NEW next, TypeOK, StateIsOwn, At(c, here, next),
           here \notin {"none", "done"}
    PROVE  /\ pc[c] = here /\ Running(c)
           /\ \A d \in Run : pc'[d] = IF d = c THEN next ELSE pc[d]
           /\ \A d \in Run : d # c => pc[d] \in {"none", "done"}
           /\ context # "child"
           /\ launchy = "up"
BY DEF At, StateIsOwn, Running, TypeOK

LEMMA OwnRun ==
    ASSUME NEW c \in Run, TypeOK, ChildrenOK, StateIsOwn, RunChildProcess(c)
    PROVE  StateIsOwn'
<1>1. CASE StartCommand(c)
    <2>1. /\ UNCHANGED <<ChildProcess, uid, completed, launchy, context>>
          /\ ProcessState' = "Starting"
          /\ At(c, "start", "register")
        BY <1>1 DEF StartCommand, reports
    <2> QED BY <2>1, Going DEF StateIsOwn, Running, TypeOK
<1>2. CASE SubmitChildProcessStart(c)
    <2>1. /\ UNCHANGED <<process, uid, completed, context>> /\ At(c, "register", "publish")
          /\ \/ /\ ChildProcess' = c /\ UNCHANGED launchy
                /\ ProcessState' = IF process[c] = "failed" THEN ProcessState ELSE "Running"
             \/ launchy' = "dead" /\ UNCHANGED controller
        BY <1>2 DEF SubmitChildProcessStart, reports, children
    <2>2. ChildProcess = NoRun /\ ProcessState # "Running"
        BY <2>1, Going DEF StateIsOwn, TypeOK
    <2> QED BY <2>1, <2>2, Going DEF StateIsOwn, Running, TypeOK, controller
<1>3. CASE PublishStart(c)
    <2>1. /\ UNCHANGED <<controller, process, uid, completed, launchy, context>>
          /\ At(c, "publish", "wait")
        BY <1>3 DEF PublishStart, children
    <2> QED BY <2>1, Going DEF StateIsOwn, Running, TypeOK, controller
<1>4. CASE Wait(c)
    <2>1. /\ UNCHANGED <<controller, process, uid, completed, launchy, context>>
          /\ At(c, "wait", "complete")
        BY <1>4 DEF Wait, children, reports
    <2> QED BY <2>1, Going DEF StateIsOwn, Running, TypeOK, controller
<1>5. CASE SubmitChildProcessComplete(c)
    <2>1. At(c, "complete", "report") /\ UNCHANGED <<process, completed, context>>
        BY <1>5 DEF SubmitChildProcessComplete, children, reports
    <2>2. ChildProcess = c
        BY <2>1, Going DEF StateIsOwn
    <2>3. /\ uid' = [uid EXCEPT ![c] = c] /\ ChildProcess' = NoRun /\ ProcessState' = "Stopped"
          /\ UNCHANGED launchy
        BY <1>5, <2>2 DEF SubmitChildProcessComplete, IsProcessRunning
    <2> QED BY <2>1, <2>3, Going DEF StateIsOwn, Running, TypeOK
<1>6. CASE ProcessCompleted(c)
    <2>1. At(c, "report", "clear") /\ UNCHANGED <<controller, process, launchy, context>>
        BY <1>6 DEF ProcessCompleted, children
    <2>2. uid[c] = c
        BY <2>1, Going DEF StateIsOwn, TypeOK
    <2>3. completed' \subseteq completed \cup {c} /\ uid' = [uid EXCEPT ![c] = NoRun]
        BY <1>6, <2>2 DEF ProcessCompleted, Published
    <2> QED BY <2>1, <2>3, Going DEF StateIsOwn, Running, TypeOK, controller
<1>7. CASE ClearState(c)
    <2>1. /\ At(c, "clear", "cancel") /\ UNCHANGED <<process, uid, completed, launchy, context>>
          /\ ChildProcess' = NoRun /\ ProcessState' = "Stopped"
        BY <1>7 DEF ClearState, children, reports
    <2> QED BY <2>1, Going DEF StateIsOwn, Running, TypeOK
<1>8. CASE RunEnds(c)
    <2>1. /\ At(c, "cancel", "done")
          /\ UNCHANGED <<controller, process, uid, completed, launchy>>
        BY <1>8 DEF RunEnds, children, reports
    <2> QED BY <2>1, Going DEF StateIsOwn, Running, TypeOK, controller
<1> QED BY <1>1, <1>2, <1>3, <1>4, <1>5, <1>6, <1>7, <1>8 DEF RunChildProcess

LEMMA StepState ==
    ASSUME TypeOK, ChildrenOK, ~overlapped => StateIsOwn, [Next]_vars, ~overlapped'
    PROVE  StateIsOwn'
<1> StateIsOwn
    BY NothingForgiven
<1>1. CASE \/ Main \/ Signal \/ Handler \/ UNCHANGED vars \/ StopRequest \/ LoopEnds
           \/ SubmitRpcListenAndServe \/ RpcStopLaunchy \/ \E r \in Request : RpcSend(r)
    <2>1. UNCHANGED <<pc, controller, process, uid, completed>>
        BY <1>1 DEF Main, Begin, MainComplete, MainExit, Signal, Handler, HandleSignal,
               HandlerStops, HandlerEnds, StopRequest, Taken, LoopEnds, SubmitRpcListenAndServe,
               RpcStopLaunchy, RpcSend, vars, children, reports
    <2>2. launchy' # "dead" => launchy # "dead"
        BY <1>1 DEF Main, Begin, MainComplete, MainExit, Signal, Handler, HandleSignal,
               HandlerStops, HandlerEnds, StopRequest, Taken, LoopEnds, SubmitRpcListenAndServe,
               RpcStopLaunchy, RpcSend, vars
    <2>3. context' = "child" => context = "child"
        BY <1>1 DEF Main, Begin, MainComplete, MainExit, Signal, Handler, HandleSignal,
               HandlerStops, HandlerEnds, StopRequest, Taken, LoopEnds, SubmitRpcListenAndServe,
               RpcStopLaunchy, RpcSend, CancelLaunchyContext, vars
    <2> QED BY <2>1, <2>2, <2>3, OwnElsewhere
<1>2. CASE LoopBegin \/ StartRequest
    <2>1. UNCHANGED <<controller, process, uid, completed, launchy, context>>
        BY <1>2 DEF LoopBegin, StartRequest, Taken, children, reports
    <2>2. SubmitRunCommand \/ UNCHANGED pc
        BY <1>2 DEF LoopBegin, StartRequest
    <2> QED BY <2>1, <2>2, OwnElsewhere, OwnSubmitted
<1>3. CASE \E c \in Run : RunChildProcess(c) \/ Output(c) \/ PostLogSlice(c) \/ ChildEnds(c)
    BY <1>3, OwnRun, OwnChild
<1> QED BY <1>1, <1>2, <1>3 DEF Next, Loop

\* A child that could not be started is a fault, and to stop it is the only panic of
\* StopRunningProcess.
LEMMA StopPanics ==
    ASSUME TypeOK, ChildrenOK, StopRunningProcess, launchy # "dead", launchy' = "dead"
    PROVE  faults > 0
BY DEF StopRunningProcess, IsProcessRunning, ChildrenOK, TypeOK

LEMMA StepDeath ==
    ASSUME TypeOK, ChildrenOK, GoroutinesOK, ~overlapped => StateIsOwn, DeathIsExplained,
           [Next]_vars
    PROVE  DeathIsExplained'
<1> SUFFICES ASSUME launchy # "dead", launchy' = "dead"
             PROVE  ~rpcWorks \/ faults' > 0 \/ faults > 0 \/ overlapped \/ context # "open"
    BY NothingForgiven DEF DeathIsExplained
<1>1. CASE Signal
    BY <1>1 DEF Signal, GoroutinesOK
<1>2. CASE HandlerStops \/ StopRequest
    BY <1>2, StopPanics DEF HandlerStops, StopRequest
<1>3. CASE SubmitRpcListenAndServe
    BY <1>3 DEF SubmitRpcListenAndServe, Fails, TypeOK
<1>4. ASSUME NEW c \in Run, SubmitChildProcessStart(c) PROVE faults > 0
    BY <1>4 DEF SubmitChildProcessStart, At, GoroutinesOK, TypeOK
<1>5. ASSUME NEW c \in Run, SubmitChildProcessComplete(c) PROVE overlapped
    BY <1>5 DEF SubmitChildProcessComplete, At, StateIsOwn, IsProcessRunning, TypeOK
<1>6. CASE \/ Main \/ HandleSignal \/ HandlerEnds \/ UNCHANGED vars \/ LoopBegin \/ StartRequest
           \/ LoopEnds \/ RpcStopLaunchy \/ \E r \in Request : RpcSend(r)
    BY <1>6 DEF Main, Begin, MainComplete, MainExit, HandleSignal, HandlerEnds, LoopBegin,
           StartRequest, LoopEnds, RpcStopLaunchy, RpcSend, vars
<1>7. ASSUME NEW c \in Run,
             \/ StartCommand(c) \/ PublishStart(c) \/ Wait(c) \/ ProcessCompleted(c)
             \/ ClearState(c) \/ RunEnds(c) \/ Output(c) \/ PostLogSlice(c) \/ ChildEnds(c)
      PROVE  FALSE
    BY <1>7 DEF StartCommand, PublishStart, Wait, ProcessCompleted, ClearState, RunEnds, Output,
           PostLogSlice, ChildEnds
<1> QED BY <1>1, <1>2, <1>3, <1>4, <1>5, <1>6, <1>7
        DEF Next, Handler, Loop, RunChildProcess
-----------------------------------------------------------------------------
(* Theorems *)

LEMMA InitRun == Init => RunInv
<1> SUFFICES ASSUME Init PROVE RunInv
    OBVIOUS
<1>1. ChildrenOK /\ GoroutinesOK /\ DeathIsExplained
    BY DEF Init, ChildrenOK, GoroutinesOK, DeathIsExplained
<1>2. StateIsOwn
    BY DEF Init, StateIsOwn, Running
<1> QED BY <1>1, <1>2, InitTypes DEF RunInv

LEMMA StepRun == RunInv /\ OutputOK /\ [Next]_vars => RunInv'
<1> SUFFICES ASSUME RunInv, OutputOK, [Next]_vars PROVE RunInv'
    OBVIOUS
<1>1. TypeOK' /\ ChildrenOK' /\ GoroutinesOK' /\ DeathIsExplained'
    BY StepTypes, StepChildren, StepGoroutines, StepDeath DEF RunInv
<1>2. ~overlapped' => StateIsOwn'
    BY StepState DEF RunInv
<1> QED BY <1>1, <1>2 DEF RunInv

LEMMA InvAlways == Spec => []RunInv
BY InitTypes, InitRun, StepOutput, StepRun, PTL DEF Spec, RunInv

\* As long as no run was begun while another was under way or when launchy was about to end,
\* the state knows the one child, its end is reported under its own uid after all its output,
\* and no child outlives a launchy that ended because of its child: main, the loop, the
\* handler of signals and the runs share the state without a lock, and that they agree rests
\* on the order of their steps alone (launchy-controller.go, old-launchy-main.go RunChildProcess).
THEOREM OneRunOwnsTheState == Spec => []RunsAlone
<1>1. RunInv => RunsAlone
    BY DEF RunInv, RunsAlone, StateIsOwn, ChildrenOK, Waited, Running, TypeOK
<1> QED BY <1>1, InvAlways, PTL

\* With an RPC mailbox launchy panics only after a fault, an overlap of runs or the end of its
\* context: launchy's own request is there when a run asks for its working directory, the
\* child of a report is known, and the channel of signals is open (old-launchy-main.go,
\* launchy-controller.go SubmitChildProcessStart, SubmitChildProcessComplete).
THEOREM PanicsAreExplained == Spec => []DeathIsExplained
BY InvAlways, PTL DEF RunInv
=============================================================================
