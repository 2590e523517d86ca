-------------------------------- MODULE A8App --------------------------------
(***************************************************************************)
(* How the programs start and stop (a8/a8.go), seen with their users:      *)
(*                                                                         *)
(* "server"   RunServer of hermes, and AgentMain: sub-processes of the     *)
(*            global app, ended by a signal.  The http server submits the  *)
(*            reader of the rpc inbox; the grpc server ends gracefully.    *)
(* "command"  the a8 command: one sub-process that cancels the context.    *)
(* "multi"    RunMultiRoutineApp and RunApp: functions whose errors are    *)
(*            collected from a channel without a buffer.                   *)
(*                                                                         *)
(* Main waits for a signal or for the end of the context, and then for the *)
(* wait group, which every sub-process enters by itself.                   *)
(*                                                                         *)
(* The names of the specification begin with App, so that one module can   *)
(* be about the application and about what runs in it.                     *)
(***************************************************************************)
EXTENDS Naturals, FiniteSets

CONSTANTS
    SubProcess,   \* sub-processes, or the functions of a "multi" program
    Programs,     \* programs to look at
    Members,      \* the sub-processes of each program
    Grpc,         \* the sub-process of the grpc server
    Parent, Child,  \* the sub-process that submits another, and that one
    MaxStreams,   \* clients connected with the grpc server
    MaxSignals, MaxFaults

ASSUME AppAssumption ==
    /\ IsFiniteSet(SubProcess)
    /\ Programs \subseteq {"server", "command", "multi"} /\ Programs # {}
    /\ Members \in [Programs -> SUBSET SubProcess]
    /\ Parent \in SubProcess /\ Child \in SubProcess /\ Parent # Child /\ Grpc \notin {Parent, Child}
    /\ MaxStreams \in Nat /\ MaxSignals \in Nat /\ MaxFaults \in Nat

VARIABLES
    program,
    app,           \* the process: "up", "ended", or "dead" of a panic
    main,          \* how far main is
    shutdown,      \* signals in the channel, of size 1
    cancelled,     \* the parent context is done
    pc,            \* how far each sub-process is
    waitGroup,     \* the counter of the wait group
    streams, draining,  \* clients of the grpc server; GracefulStop was called
    combined, closed, complete, \* RunMultiRoutineApp: the collector, errorsChan closed, complete
    signals, faults

multi == <<combined, closed, complete>>
grpc == <<streams, draining>>
bounds == <<signals, faults>>
appVars == <<program, app, main, shutdown, cancelled, pc, waitGroup, grpc, multi, bounds>>

Member == Members[program]

\* What each variable holds.  The counter is the number of sub-processes that have entered
\* the wait group, or of functions that have not left it.
AppTypeOK ==
    /\ program \in Programs /\ app \in {"up", "ended", "dead"}
    /\ main \in {"submit", "select", "wait", "waiting", "released", "check", "await"}
    /\ shutdown \in 0..1 /\ cancelled \in BOOLEAN
    /\ pc \in [SubProcess -> {"none", "submitted", "running", "send", "ended", "done"}]
    /\ waitGroup = Cardinality({s \in SubProcess : pc[s] \in {"running", "send", "ended"}})
    /\ streams \in 0..MaxStreams /\ draining \in BOOLEAN
    /\ combined \in {"collect", "complete", "send", "sent"}
    /\ closed \in BOOLEAN /\ complete \in BOOLEAN
    /\ signals \in 0..MaxSignals /\ faults \in 0..MaxFaults

AppInit ==
    /\ program \in Programs
    /\ app = "up" /\ shutdown = 0 /\ cancelled = FALSE
    /\ main = IF program = "multi" THEN "select" ELSE "submit"
    /\ pc = [s \in SubProcess |->
                IF program = "multi" /\ s \in Member THEN "running" ELSE "none"]
    /\ waitGroup = IF program = "multi" THEN Cardinality(Member) ELSE 0
    /\ streams = 0 /\ draining = FALSE
    /\ combined = "collect" /\ closed = FALSE /\ complete = FALSE
    /\ signals = 0 /\ faults = 0

AppFails == faults < MaxFaults /\ faults' = faults + 1

At(s, here, next) == app = "up" /\ pc[s] = here /\ pc' = [pc EXCEPT ![s] = next]

Global == program # "multi"

\* The signal channel keeps one signal; nobody else handles it.
Signal ==
    /\ app = "up" /\ signals < MaxSignals /\ signals' = signals + 1 /\ shutdown' = 1
    /\ UNCHANGED <<program, app, main, cancelled, pc, waitGroup, grpc, multi, faults>>
-----------------------------------------------------------------------------
(* Main of the global app *)

\* What main submits itself; the goroutine enters the wait group later.
Submit(s) ==
    /\ main = "submit" /\ s \in Member \ {Child} /\ At(s, "none", "submitted")
    /\ UNCHANGED <<program, app, main, shutdown, cancelled, waitGroup, grpc, multi, bounds>>

Submitted ==
    /\ app = "up" /\ main = "submit" /\ \A s \in Member \ {Child} : pc[s] # "none"
    /\ main' = "select"
    /\ UNCHANGED <<program, app, shutdown, cancelled, pc, waitGroup, grpc, multi, bounds>>

\* WaitForCompletion takes one signal, or sees the end of the context.
WaitForCompletion ==
    /\ Global /\ app = "up" /\ main = "select" /\ main' = "wait"
    /\ \/ shutdown = 1 /\ shutdown' = 0 /\ cancelled' = TRUE
       \/ cancelled /\ UNCHANGED <<shutdown, cancelled>>
    /\ UNCHANGED <<program, app, pc, waitGroup, grpc, multi, bounds>>

\* WaitGroup.Wait returns at once when the counter is zero; the process ends with main.
Wait ==
    /\ Global /\ app = "up" /\ main = "wait"
    /\ IF waitGroup = 0 THEN app' = "ended" /\ UNCHANGED main
       ELSE main' = "waiting" /\ UNCHANGED app
    /\ UNCHANGED <<program, shutdown, cancelled, pc, waitGroup, grpc, multi, bounds>>

\* Main wakes up and looks at the counter again: a sub-process that entered in between is a
\* panic of the wait group.
WakeUp ==
    /\ app = "up" /\ main = "released"
    /\ app' = IF waitGroup = 0 THEN "ended" ELSE "dead"
    /\ UNCHANGED <<program, main, shutdown, cancelled, pc, waitGroup, grpc, multi, bounds>>
-----------------------------------------------------------------------------
(* Sub-processes of the global app *)

\* SubmitSubProcess: WaitGroup.Add is called by the goroutine.
Enter(s) ==
    /\ At(s, "submitted", "running") /\ waitGroup' = waitGroup + 1
    /\ UNCHANGED <<program, app, main, shutdown, cancelled, grpc, multi, bounds>>

\* BuildRpcCallHandler submits the reader of its inbox.
SubmitChild ==
    /\ Global /\ Child \in Member /\ pc[Parent] = "running" /\ At(Child, "none", "submitted")
    /\ UNCHANGED <<program, app, main, shutdown, cancelled, waitGroup, grpc, multi, bounds>>

\* The http server was built, with its reader, before it waits for its context.
HttpServerStops(s) == s = Parent /\ Child \in Member => pc[Child] # "none"

\* The grpc server returns when its clients are gone.
GrpcServerStops(s) == s = Grpc => draining /\ streams = 0

\* A sub-process ends when its context is done.  The reader of the inbox may end before.
EndOfContext(s) ==
    /\ program = "server" /\ (cancelled \/ s = Child) /\ At(s, "running", "ended")
    /\ HttpServerStops(s) /\ GrpcServerStops(s)
    /\ UNCHANGED <<program, app, main, shutdown, cancelled, waitGroup, grpc, multi, bounds>>

\* A sub-process may end with an error or a panic, which is logged.
EndInError(s) ==
    /\ Global /\ At(s, "running", "ended") /\ AppFails
    /\ UNCHANGED <<program, app, main, shutdown, cancelled, waitGroup, grpc, multi, signals>>

\* Wrong variant of EndOfCommand: the context is not cancelled.
EndOfCommandOnly(s) ==
    /\ program = "command" /\ At(s, "running", "ended")
    /\ UNCHANGED <<program, app, main, shutdown, cancelled, waitGroup, grpc, multi, bounds>>

\* The a8 command runs to its end, whatever becomes of its context, and cancels it.
EndOfCommand(s) ==
    /\ program = "command" /\ At(s, "running", "ended") /\ cancelled' = TRUE
    /\ UNCHANGED <<program, app, main, shutdown, waitGroup, grpc, multi, bounds>>

\* The deferred WaitGroup.Done; the last one releases main.
Done(s) ==
    /\ Global /\ At(s, "ended", "done") /\ waitGroup' = waitGroup - 1
    /\ main' = IF main = "waiting" /\ waitGroup' = 0 THEN "released" ELSE main
    /\ UNCHANGED <<program, app, shutdown, cancelled, grpc, multi, bounds>>

\* The clients of the grpc server come until it drains, and go when they like.
Join ==
    /\ app = "up" /\ pc[Grpc] = "running" /\ ~draining /\ streams < MaxStreams
    /\ streams' = streams + 1
    /\ UNCHANGED <<program, app, main, shutdown, cancelled, pc, waitGroup, draining, multi, bounds>>

LeaveGrpc ==
    /\ app = "up" /\ streams > 0 /\ streams' = streams - 1
    /\ UNCHANGED <<program, app, main, shutdown, cancelled, pc, waitGroup, draining, multi, bounds>>

\* Wrong variant of GracefulStop: the server is stopped when it has no clients.
GracefulStopIdle ==
    /\ app = "up" /\ pc[Grpc] = "running" /\ cancelled /\ ~draining /\ streams = 0
    /\ draining' = TRUE
    /\ UNCHANGED <<program, app, main, shutdown, cancelled, pc, waitGroup, streams, multi, bounds>>

GracefulStop ==
    /\ app = "up" /\ pc[Grpc] = "running" /\ cancelled /\ ~draining /\ draining' = TRUE
    /\ UNCHANGED <<program, app, main, shutdown, cancelled, pc, waitGroup, streams, multi, bounds>>
-----------------------------------------------------------------------------
(* RunMultiRoutineApp under RunApp *)

\* A function ends by itself or when its context is done, with an error or without.
EndOfFunction(s) ==
    /\ program = "multi"
    /\ \/ At(s, "running", "ended") /\ UNCHANGED faults
       \/ At(s, "running", "send") /\ AppFails
    /\ UNCHANGED <<program, app, main, shutdown, cancelled, waitGroup, grpc, multi, signals>>

\* The collector takes the error out of the function's hand.
SendError(s) ==
    /\ combined = "collect" /\ At(s, "send", "ended")
    /\ UNCHANGED <<program, app, main, shutdown, cancelled, waitGroup, grpc, multi, bounds>>

FunctionDone(s) ==
    /\ program = "multi" /\ At(s, "ended", "done") /\ waitGroup' = waitGroup - 1
    /\ UNCHANGED <<program, app, main, shutdown, cancelled, grpc, multi, bounds>>

CloseErrors ==
    /\ program = "multi" /\ app = "up" /\ waitGroup = 0 /\ ~closed /\ closed' = TRUE
    /\ UNCHANGED <<program, app, main, shutdown, cancelled, pc, waitGroup, grpc, combined, complete,
                   bounds>>

\* ChanToSlice ends with the channel; complete is set before the completion is sent.
Combine ==
    /\ app = "up"
    /\ \/ combined = "collect" /\ closed /\ combined' = "complete" /\ UNCHANGED complete
       \/ combined = "complete" /\ combined' = "send" /\ complete' = TRUE
    /\ UNCHANGED <<program, app, main, shutdown, cancelled, pc, waitGroup, grpc, closed, bounds>>

\* RunApp takes a signal, or the completion, after which it returns.
SelectSignal ==
    /\ program = "multi" /\ app = "up" /\ main = "select" /\ shutdown = 1 /\ shutdown' = 0
    /\ cancelled' = TRUE /\ main' = "check"
    /\ UNCHANGED <<program, app, pc, waitGroup, grpc, multi, bounds>>

Receive ==
    /\ program = "multi" /\ app = "up" /\ main \in {"select", "await"} /\ combined = "send"
    /\ combined' = "sent" /\ cancelled' = TRUE /\ app' = "ended"
    /\ UNCHANGED <<program, main, shutdown, pc, waitGroup, grpc, closed, complete, bounds>>

\* Wrong variant of CheckComplete: RunApp returns at once.
CheckCompleteNot ==
    /\ app = "up" /\ main = "check" /\ app' = "ended"
    /\ UNCHANGED <<program, main, shutdown, cancelled, pc, waitGroup, grpc, multi, bounds>>

\* complete is read without synchronisation: a value set by now may not be seen yet.
CheckComplete ==
    /\ app = "up" /\ main = "check"
    /\ \/ complete /\ app' = "ended" /\ UNCHANGED main
       \/ main' = "await" /\ UNCHANGED app
    /\ UNCHANGED <<program, shutdown, cancelled, pc, waitGroup, grpc, multi, bounds>>
-----------------------------------------------------------------------------
MainSteps ==
    \/ (\E s \in SubProcess : Submit(s)) \/ Submitted \/ WaitForCompletion \/ Wait \/ WakeUp
    \/ SelectSignal \/ Receive \/ CheckComplete

SubmitSubProcess(s) == Enter(s) \/ EndOfContext(s) \/ EndOfCommand(s) \/ Done(s)

RunMultiRoutineApp(s) == SendError(s) \/ FunctionDone(s)

AppNext ==
    \/ Signal \/ MainSteps \/ SubmitChild
    \/ \E s \in SubProcess :
          SubmitSubProcess(s) \/ EndInError(s) \/ EndOfFunction(s) \/ RunMultiRoutineApp(s)
    \/ Join \/ LeaveGrpc \/ GracefulStop
    \/ CloseErrors \/ Combine

AppSpec == AppInit /\ [][AppNext]_appVars

\* Goroutines run on, a command comes to its end, and functions heed their context.  Nothing is
\* asked of signals and of the clients of the grpc server.
AppFairSpec ==
    /\ AppSpec
    /\ WF_appVars(MainSteps) /\ WF_appVars(SubmitChild) /\ WF_appVars(GracefulStop)
    /\ WF_appVars(CloseErrors) /\ WF_appVars(Combine)
    /\ \A s \in SubProcess :
        /\ WF_appVars(SubmitSubProcess(s)) /\ WF_appVars(RunMultiRoutineApp(s))
        /\ WF_appVars(cancelled /\ EndOfFunction(s))
-----------------------------------------------------------------------------
(* Properties *)

\* A program does not end under a sub-process that has entered the wait group, or under a
\* function of RunMultiRoutineApp, and errorsChan is not closed before every function has sent
\* its error (a8.go WaitForCompletion, RunMultiRoutineApp, RunApp).
ExitWaits ==
    /\ app = "ended" => \A s \in SubProcess : pc[s] \notin {"running", "send", "ended"}
    /\ closed => \A s \in SubProcess : pc[s] # "send"

\* A signal ends the program, unless a client of the grpc server stays for ever: no second
\* signal is needed, and none would help (a8.go WaitForCompletion and RunApp, hermes-main.go
\* RunHttpServer and RunGrpcServer).
SignalEnds == (shutdown = 1 ~> app # "up") \/ <>[](streams > 0)

\* The a8 command ends by itself, unless it could not load its configuration or died of a
\* panic, after which nobody cancels the context (devops/a8/a8-main.go runSubCommand).
CommandEnds == program = "command" ~> app # "up" \/ faults > 0
=============================================================================
