------------------------------ MODULE Lifecycle ------------------------------
(***************************************************************************)
(* cmd/server/main.go: run() brings the process up and blocks in Serve,    *)
(* a goroutine waits for a signal and stops the gRPC server gracefully,    *)
(* another one serves metrics and health, and RPCs come and go meanwhile.  *)
(*                                                                         *)
(* The gRPC server and the Go runtime's signal handling are external: they *)
(* are modelled by what run() relies on. GracefulStop closes the listener, *)
(* then sends the connections away, then waits, without a limit, for the   *)
(* RPCs that are open; Serve returns nil only when that wait is over, and  *)
(* returns ErrServerStopped when the server was stopped before it.         *)
(***************************************************************************)
EXTENDS Integers

CONSTANTS Unary,       \* RunTestSuite calls
          Streams,     \* Health/Watch and reflection streams
          MaxSignals   \* bound on the signals sent to the process

ASSUME LifecycleAssumption == /\ Unary \cap Streams = {}
                              /\ MaxSignals \in Nat

Rpcs == Unary \cup Streams

VARIABLES
    main,        \* how far run() has come
    signaller,   \* the goroutine of main.go:87-98
    sigChan,     \* signals in the channel, of capacity 1
    ctxDone,     \* the context of run() is cancelled
    metricsSrv,  \* the HTTP server: "none", "serving" or "closed"
    grpc,        \* the gRPC server
    rpc,         \* every RPC: "new", "active", "answered", "closed", "lost"
    exit         \* "running", or how the process ended

\* History: signals sent, and whether Accept has failed.
VARIABLES signals, acceptFailed

serverVars == <<main, signaller, sigChan, ctxDone, metricsSrv, grpc>>
envVars == <<signals, acceptFailed>>
vars == <<serverVars, rpc, exit, envVars>>

Running == exit = "running"

Init == /\ main = "load" /\ signaller = "none"
        /\ sigChan = 0 /\ ctxDone = FALSE
        /\ metricsSrv = "none" /\ grpc = "none"
        /\ rpc = [r \in Rpcs |-> "new"]
        /\ exit = "running"
        /\ signals = 0 /\ acceptFailed = FALSE

-----------------------------------------------------------------------------
\* The process ends: what is still open is lost to its client.
Ends(how) == /\ exit' = how
             /\ rpc' = [r \in Rpcs |->
                          IF rpc[r] = "active" THEN "lost" ELSE rpc[r]]

GoesOn == UNCHANGED <<rpc, exit>>

\* run() up to Serve: configuration, the metrics listener and its server, the
\* gRPC listener, interceptors and server, the goroutine. Each step but the
\* last may fail, and run() then returns an error.
Startup(from, to) == Running /\ main = from /\ main' = to

LoadConfig == Startup("load", "listenMetrics")
              /\ UNCHANGED <<signaller, sigChan, ctxDone, metricsSrv, grpc>>

ListenMetrics == Startup("listenMetrics", "listenGrpc")
                 /\ metricsSrv' = "serving"
                 /\ UNCHANGED <<signaller, sigChan, ctxDone, grpc>>

ListenGrpc == Startup("listenGrpc", "build")
              /\ UNCHANGED <<signaller, sigChan, ctxDone, metricsSrv, grpc>>

BuildServer == Startup("build", "spawn")
               /\ grpc' = "created"
               /\ UNCHANGED <<signaller, sigChan, ctxDone, metricsSrv>>

SpawnSignaller == Startup("spawn", "serve")
                  /\ signaller' = "starting"
                  /\ UNCHANGED <<sigChan, ctxDone, metricsSrv, grpc>>

StartupFails == /\ Running
                /\ main \in {"load", "listenMetrics", "listenGrpc", "build"}
                /\ main' = "failing"
                /\ UNCHANGED <<signaller, sigChan, ctxDone, metricsSrv, grpc>>

\* Serve: it starts to accept, or finds the server stopped already.
Serve == /\ Running /\ main = "serve"
         /\ IF grpc = "created"
            THEN main' = "serving" /\ grpc' = "serving"
            ELSE main' = "failing" /\ grpc' = grpc
         /\ UNCHANGED <<signaller, sigChan, ctxDone, metricsSrv>>

\* Accept fails for good: Serve returns the error while RPCs may be open.
AcceptFails == /\ Running /\ main = "serving" /\ grpc = "serving"
               /\ main' = "failing" /\ grpc' = "abandoned"
               /\ acceptFailed' = TRUE
               /\ UNCHANGED <<signaller, sigChan, ctxDone, metricsSrv, signals>>

\* (Mutant: run() takes the end of a graceful stop for an error of Serve.)
AsAnError == "failing"

\* Serve has returned nil.
AfterServe == "returning"

ServeReturns == /\ Running /\ main = "serving" /\ grpc = "stopped"
                /\ main' = AfterServe
                /\ UNCHANGED <<signaller, sigChan, ctxDone, metricsSrv, grpc>>

\* The deferred calls of run(), last one first: cancel and, when there is a
\* metrics server, its Close.
RunDeferred ==
    /\ Running /\ main \in {"returning", "failing"}
    /\ main' = IF main = "returning" THEN "returned" ELSE "failed"
    /\ ctxDone' = (ctxDone \/ signaller # "none")
    /\ metricsSrv' = IF metricsSrv = "serving" THEN "closed" ELSE metricsSrv
    /\ UNCHANGED <<signaller, sigChan, grpc>>

\* (Mutant: main drops the error of run().)
ErrorDropped == "ok"

\* (Mutant: run() waits for the goroutine before it returns.)
ExitOnceDrained == /\ Running /\ main \in {"returned", "failed"}
                   /\ signaller \in {"none", "done"}
                   /\ Ends(IF main = "returned" THEN "ok" ELSE "error")
                   /\ UNCHANGED <<serverVars, envVars>>

\* main(): log.Fatal on an error, a normal return otherwise.
ExitStatus == IF main = "returned" THEN "ok" ELSE "error"

Exit == /\ Running /\ main \in {"returned", "failed"}
        /\ Ends(ExitStatus)
        /\ UNCHANGED <<serverVars, envVars>>

MainStep == \/ /\ \/ LoadConfig \/ ListenMetrics \/ ListenGrpc \/ BuildServer
                  \/ SpawnSignaller \/ StartupFails \/ Serve \/ ServeReturns
                  \/ RunDeferred
               /\ GoesOn /\ UNCHANGED envVars
            \/ Exit

-----------------------------------------------------------------------------
\* The signalling goroutine.
Notify == /\ Running /\ signaller = "starting"
          /\ signaller' = "waiting"
          /\ UNCHANGED <<main, sigChan, ctxDone, metricsSrv, grpc>>

\* (Mutant: the select has no case for the signal.)
WakeOnCancelOnly == /\ Running /\ signaller = "waiting" /\ ctxDone
                    /\ signaller' = "stopping"
                    /\ UNCHANGED <<main, sigChan, ctxDone, metricsSrv, grpc>>

Wake == /\ Running /\ signaller = "waiting"
        /\ \/ sigChan = 1 /\ sigChan' = 0
           \/ ctxDone /\ UNCHANGED sigChan
        /\ signaller' = "stopping"
        /\ UNCHANGED <<main, ctxDone, metricsSrv, grpc>>

\* GracefulStop: the listener is closed, so that Serve accepts no more.
CloseListener ==
    /\ Running /\ signaller = "stopping"
    /\ signaller' = "closed"
    /\ grpc' = IF grpc = "created" THEN "stoppedEarly" ELSE "closing"
    /\ UNCHANGED <<main, sigChan, ctxDone, metricsSrv>>

\* (Mutant: the metrics server is closed as soon as the shutdown starts.)
DrainAndCloseMetrics == /\ Running /\ signaller = "closed"
                        /\ signaller' = "draining"
                        /\ grpc' = IF grpc = "closing" THEN "draining" ELSE grpc
                        /\ metricsSrv' = "closed"
                        /\ UNCHANGED <<main, sigChan, ctxDone>>

\* Every connection is told to go away: from here no RPC can start.
Drain == /\ Running /\ signaller = "closed"
         /\ signaller' = "draining"
         /\ grpc' = IF grpc = "closing" THEN "draining" ELSE grpc
         /\ UNCHANGED <<main, sigChan, ctxDone, metricsSrv>>

\* (Mutant: Stop instead of GracefulStop.)
NoWait == TRUE

AllClosed == \A r \in Rpcs : rpc[r] # "active"

\* The wait is over; the goroutine cancels the context and ends.
Stopped == /\ Running /\ signaller = "draining" /\ AllClosed
           /\ signaller' = "done"
           /\ grpc' = IF grpc = "draining" THEN "stopped" ELSE grpc
           /\ ctxDone' = TRUE
           /\ UNCHANGED <<main, sigChan, metricsSrv>>

SignallerStep == /\ Notify \/ Wake \/ CloseListener \/ Drain \/ Stopped
                 /\ GoesOn /\ UNCHANGED envVars

-----------------------------------------------------------------------------
\* A signal. Before signal.Notify the runtime ends the process; after it the
\* signal is put into the channel, or dropped when the channel is full.
Notified == signaller \notin {"none", "starting"}

\* (Mutant: the channel grows with every signal.)
SendUnbounded(n) == n + 1

Send(n) == 1

Signal == /\ Running /\ signals < MaxSignals
          /\ signals' = signals + 1
          /\ IF Notified THEN sigChan' = Send(sigChan) /\ GoesOn
                         ELSE sigChan' = sigChan /\ Ends("signal")
          /\ UNCHANGED <<main, signaller, ctxDone, metricsSrv, grpc, acceptFailed>>

\* The metrics server's Serve fails: log.Fatal in its goroutine.
MetricsFails == /\ Running /\ metricsSrv = "serving"
                /\ Ends("metricsFatal")
                /\ UNCHANGED <<serverVars, envVars>>

\* RPCs start on a connection that is still served.
Accepting == grpc \in {"serving", "closing", "abandoned"}

StartRpc(r) == /\ Running /\ Accepting /\ rpc[r] = "new"
               /\ rpc' = [rpc EXCEPT ![r] = "active"]
               /\ UNCHANGED <<serverVars, exit, envVars>>

Answer(r) == /\ Running /\ rpc[r] = "active"
             /\ rpc' = [rpc EXCEPT ![r] = "answered"]
             /\ UNCHANGED <<serverVars, exit, envVars>>

\* A stream is open until its client closes it.
CloseStream(r) == /\ Running /\ rpc[r] = "active"
                  /\ rpc' = [rpc EXCEPT ![r] = "closed"]
                  /\ UNCHANGED <<serverVars, exit, envVars>>

\* A handler panics (see BerlekampMassey) and nothing recovers it.
PanicIn(r) == /\ Running /\ rpc[r] = "active"
              /\ Ends("panic")
              /\ UNCHANGED <<serverVars, envVars>>

Ended == ~ Running /\ UNCHANGED vars

Next == \/ MainStep
        \/ AcceptFails /\ GoesOn
        \/ SignallerStep
        \/ Signal \/ MetricsFails
        \/ \E r \in Rpcs : StartRpc(r)
        \/ \E r \in Unary : Answer(r) \/ PanicIn(r)
        \/ \E r \in Streams : CloseStream(r)
        \/ Ended

\* Goroutines that can run do run, and a statistical suite ends. No fairness
\* for signals, failures, new RPCs or clients that hold a stream.
Spec == /\ Init /\ [][Next]_vars
        /\ WF_vars(MainStep) /\ WF_vars(SignallerStep)
        /\ \A r \in Unary : WF_vars(Answer(r))

-----------------------------------------------------------------------------
\* Every variable keeps its type; the channel never holds two signals.
TypeOK ==
    /\ main \in {"load", "listenMetrics", "listenGrpc", "build", "spawn",
                 "serve", "serving", "returning", "failing", "returned", "failed"}
    /\ signaller \in {"none", "starting", "waiting", "stopping", "closed",
                      "draining", "done"}
    /\ sigChan \in 0..1 /\ ctxDone \in BOOLEAN
    /\ metricsSrv \in {"none", "serving", "closed"}
    /\ grpc \in {"none", "created", "serving", "closing", "draining", "stopped",
                 "stoppedEarly", "abandoned"}
    /\ rpc \in [Rpcs -> {"new", "active", "answered", "closed", "lost"}]
    /\ exit \in {"running", "ok", "error", "signal", "metricsFatal", "panic"}
    /\ signals \in 0..MaxSignals /\ acceptFailed \in BOOLEAN

\* main.go:4 "handles graceful shutdown": a process that leaves through run()
\* - stopped by a signal at any point, even before Serve, or failing to start -
\* has lost no RPC it had accepted, unless Accept itself had failed.
NoSilentLoss ==
    exit \in {"ok", "error"} /\ ~ acceptFailed =>
        \A r \in Rpcs : rpc[r] # "lost"

\* /metrics and /health are served for as long as RPCs are, through the whole
\* drain: the deferred Close (main.go:67) runs after Serve has returned.
MetricsOutliveRpcs ==
    (Running /\ ~ acceptFailed /\ \E r \in Rpcs : rpc[r] = "active")
        => metricsSrv = "serving"

\* main.go:42-44: run() "blocks until a termination signal is received": the
\* process reports success only after one, and after the goroutine has stopped
\* the server for it.
OkOnlyWhenAsked ==
    exit = "ok" => signals > 0 /\ signaller = "done" /\ grpc = "stopped"

\* The status 1 of a process that was asked to stop means what a supervisor takes
\* it for: Accept had failed, or the stop came before Serve (main.go:96, 104),
\* and then no RPC had been taken. Whoever has had one served sees status 0.
AskedExitStatus ==
    exit = "error" /\ signals > 0 /\ ~ acceptFailed =>
        grpc = "stoppedEarly" /\ \A r \in Rpcs : rpc[r] = "new"

\* Once a signal is in the channel the process ends, provided that streams do
\* not stay open for ever: Notify, Wake, the drain and the return of Serve
\* follow, whatever interleaves with them.
SignalLeadsToExit ==
    (<>[](\A r \in Streams : rpc[r] # "active"))
        => (sigChan = 1 ~> ~ Running)

\* An error of run() ends the process even while streams are open: the
\* goroutine that main's deferred cancel wakes is not waited for.
ErrorLeadsToExit == main = "failing" ~> ~ Running

-----------------------------------------------------------------------------
\* main.go:4: the process "handles graceful shutdown on SIGTERM and SIGINT" -
\* so a signal always ends it, once it has been received.
SignalAlwaysEnds == sigChan = 1 ~> ~ Running

\* main.go:4, for a signal at any moment: it costs no client its RPC.
SignalLosesNothing == exit = "signal" => \A r \in Rpcs : rpc[r] # "lost"
=============================================================================
