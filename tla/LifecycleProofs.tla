--------------------------- MODULE LifecycleProofs ---------------------------
(***************************************************************************)
(* Proofs about Lifecycle for any sets of calls and streams and any number *)
(* of signals. The safety properties relate what the process reports at    *)
(* its end to the RPCs of its clients; the inductive invariant ties the    *)
(* three threads of control to the state of the gRPC server between them.  *)
(***************************************************************************)
EXTENDS Lifecycle, TLAPS

\* Where run() stands tells which states the gRPC server can be in.
ServerPhase ==
    /\ main \in {"load", "listenMetrics", "listenGrpc", "build"} => grpc = "none"
    /\ main = "spawn" => grpc = "created"
    /\ main = "serve" => grpc \in {"created", "stoppedEarly"}
    /\ main = "serving" => grpc \in {"serving", "closing", "draining", "stopped"}
    /\ main \in {"returning", "returned"} => grpc = "stopped"
    /\ main \in {"failing", "failed"} /\ ~ acceptFailed
          => grpc \in {"none", "stoppedEarly"}
    /\ acceptFailed => main \in {"failing", "failed"}

\* So does the progress of the signalling goroutine.
SignallerPhase ==
    /\ main \in {"load", "listenMetrics", "listenGrpc", "build", "spawn"}
          => signaller = "none"
    /\ main = "serve" => signaller # "none"
    /\ signaller = "none" => grpc \in {"none", "created"}
    /\ signaller \in {"starting", "waiting", "stopping"}
          => grpc \in {"created", "serving", "abandoned"}
    /\ signaller = "closed" => grpc \in {"stoppedEarly", "closing"}
    /\ signaller = "draining" => grpc \in {"stoppedEarly", "draining"}
    /\ signaller = "done" => grpc \in {"stoppedEarly", "stopped"}

\* An RPC is open only at a server that still serves its connection, and a
\* server that never served has none.
OpenRpcs ==
    \A r \in Rpcs :
        /\ grpc \in {"none", "created", "stoppedEarly"} => rpc[r] = "new"
        /\ rpc[r] = "active" => /\ Running
                                /\ grpc \in {"serving", "closing", "draining",
                                             "abandoned"}
        /\ rpc[r] = "lost" => ~ Running

\* The shutdown has a cause: a signal, or an error of run(); and a signal that
\* did not end the process has found the goroutine ready.
Cause ==
    /\ signals > 0 => signaller \notin {"none", "starting"} \/ exit = "signal"
    /\ sigChan = 1 => signals > 0
    /\ ctxDone => main \in {"returned", "failed"} \/ signaller = "done"
    /\ signaller \in {"stopping", "closed", "draining", "done"}
          => signals > 0 \/ main = "failed"

\* The metrics server is up from its start to the deferred calls of run().
MetricsPhase ==
    main \in {"listenGrpc", "build", "spawn", "serve", "serving", "returning"}
        => metricsSrv = "serving"

\* The status the process reports is the one run() returned.
ExitPhase == /\ exit = "ok" => main = "returned"
             /\ exit = "error" => main = "failed"

IInv == /\ TypeOK /\ ServerPhase /\ SignallerPhase /\ OpenRpcs /\ Cause
        /\ MetricsPhase /\ ExitPhase /\ NoSilentLoss

USE DEF Running, Rpcs

LEMMA InitInv == Init => IInv
<1> SUFFICES ASSUME Init PROVE IInv
  OBVIOUS
<1>1. TypeOK
  <2>1. ctxDone \in BOOLEAN /\ acceptFailed \in BOOLEAN
    BY Zenon DEF Init
  <2> QED
    BY <2>1, LifecycleAssumption DEF Init, TypeOK
<1>2. ServerPhase /\ SignallerPhase /\ Cause /\ MetricsPhase /\ ExitPhase
  BY DEF Init, ServerPhase, SignallerPhase, Cause, MetricsPhase, ExitPhase
<1>3. OpenRpcs /\ NoSilentLoss
  BY DEF Init, OpenRpcs, NoSilentLoss
<1> QED
  BY <1>1, <1>2, <1>3 DEF IInv

\* The steps of run() keep the invariant.
LEMMA MainInv == IInv /\ MainStep => IInv'
<1> SUFFICES ASSUME IInv, MainStep PROVE IInv'
  OBVIOUS
<1> USE DEF IInv, TypeOK, ServerPhase, SignallerPhase, OpenRpcs, Cause,
            MetricsPhase, ExitPhase, NoSilentLoss, GoesOn, envVars
<1>1. CASE LoadConfig /\ GoesOn /\ UNCHANGED envVars
  BY <1>1 DEF LoadConfig, Startup
<1>2. CASE ListenMetrics /\ GoesOn /\ UNCHANGED envVars
  BY <1>2 DEF ListenMetrics, Startup
<1>3. CASE ListenGrpc /\ GoesOn /\ UNCHANGED envVars
  BY <1>3 DEF ListenGrpc, Startup
<1>4. CASE BuildServer /\ GoesOn /\ UNCHANGED envVars
  BY <1>4 DEF BuildServer, Startup
<1>5. CASE SpawnSignaller /\ GoesOn /\ UNCHANGED envVars
  BY <1>5 DEF SpawnSignaller, Startup
<1>6. CASE StartupFails /\ GoesOn /\ UNCHANGED envVars
  BY <1>6 DEF StartupFails
<1>7. CASE Serve /\ GoesOn /\ UNCHANGED envVars
  BY <1>7 DEF Serve
<1>8. CASE ServeReturns /\ GoesOn /\ UNCHANGED envVars
  BY <1>8 DEF ServeReturns, AfterServe
<1>9. CASE RunDeferred /\ GoesOn /\ UNCHANGED envVars
  BY <1>9 DEF RunDeferred
<1>10. CASE Exit
  BY <1>10 DEF Exit, ExitStatus, Ends, serverVars
<1> QED
  BY <1>1, <1>2, <1>3, <1>4, <1>5, <1>6, <1>7, <1>8, <1>9, <1>10
  DEF MainStep

\* The steps of the signalling goroutine keep the invariant.
LEMMA SignallerInv == IInv /\ SignallerStep => IInv'
<1> SUFFICES ASSUME IInv, SignallerStep PROVE IInv'
  OBVIOUS
<1> USE DEF IInv, TypeOK, ServerPhase, SignallerPhase, OpenRpcs, Cause,
            MetricsPhase, ExitPhase, NoSilentLoss, SignallerStep, GoesOn, envVars
<1>1. CASE Notify
  BY <1>1 DEF Notify
<1>2. CASE Wake
  BY <1>2 DEF Wake
<1>3. CASE CloseListener
  BY <1>3 DEF CloseListener
<1>4. CASE Drain
  BY <1>4 DEF Drain
<1>5. CASE Stopped
  BY <1>5 DEF Stopped, AllClosed
<1> QED
  BY <1>1, <1>2, <1>3, <1>4, <1>5

\* The environment - signals, failures, clients - keeps the invariant.
LEMMA EnvironmentInv ==
    ASSUME IInv,
           \/ AcceptFails /\ GoesOn
           \/ Signal
           \/ MetricsFails
           \/ \E r \in Rpcs : StartRpc(r)
           \/ \E r \in Unary : Answer(r) \/ PanicIn(r)
           \/ \E r \in Streams : CloseStream(r)
    PROVE  IInv'
<1> USE DEF IInv, TypeOK, ServerPhase, SignallerPhase, OpenRpcs, Cause,
            MetricsPhase, ExitPhase, NoSilentLoss, GoesOn, envVars, serverVars
<1>1. CASE AcceptFails /\ GoesOn
  BY <1>1 DEF AcceptFails
<1>2. CASE Signal
  BY <1>2, LifecycleAssumption DEF Signal, Notified, Send, Ends
<1>3. CASE MetricsFails
  BY <1>3 DEF MetricsFails, Ends
<1>4. ASSUME NEW r \in Rpcs, StartRpc(r) PROVE IInv'
  BY <1>4 DEF StartRpc, Accepting
<1>5. ASSUME NEW r \in Unary, Answer(r) PROVE IInv'
  BY <1>5 DEF Answer
<1>6. ASSUME NEW r \in Unary, PanicIn(r) PROVE IInv'
  BY <1>6 DEF PanicIn, Ends
<1>7. ASSUME NEW r \in Streams, CloseStream(r) PROVE IInv'
  BY <1>7 DEF CloseStream
<1> QED
  BY <1>1, <1>2, <1>3, <1>4, <1>5, <1>6, <1>7

\* The inductive invariant holds of every reachable state.
LEMMA InvariantHolds == Spec => []IInv
<1>1. IInv /\ [Next]_vars => IInv'
  <2> SUFFICES ASSUME IInv, [Next]_vars PROVE IInv'
    OBVIOUS
  <2>1. CASE UNCHANGED vars
    BY <2>1 DEF vars, serverVars, envVars, IInv, TypeOK, ServerPhase,
       SignallerPhase, OpenRpcs, Cause, MetricsPhase, ExitPhase, NoSilentLoss
  <2> QED
    BY <2>1, MainInv, SignallerInv, EnvironmentInv DEF Next, Ended
<1> QED
  BY <1>1, InitInv, PTL DEF Spec

\* The variables of the process keep their types, and its signal channel never
\* holds more than its capacity of one.
THEOREM TypeCorrect == Spec => []TypeOK
BY InvariantHolds, PTL DEF IInv

\* A process that leaves through run() - whatever the interleaving of startup,
\* signal, drain and RPCs - has lost no RPC, unless Accept had failed.
THEOREM GracefulExitLosesNothing == Spec => []NoSilentLoss
BY InvariantHolds, PTL DEF IInv

\* Metrics and health are served for as long as any RPC is.
THEOREM MetricsUntilLastRpc == Spec => []MetricsOutliveRpcs
<1>1. IInv => MetricsOutliveRpcs
  BY DEF IInv, TypeOK, ServerPhase, OpenRpcs, MetricsPhase, MetricsOutliveRpcs
<1> QED
  BY <1>1, InvariantHolds, PTL

\* The process reports success only after a signal and a finished shutdown.
THEOREM SuccessMeansStopped == Spec => []OkOnlyWhenAsked
<1>1. IInv => OkOnlyWhenAsked
  BY DEF IInv, TypeOK, ServerPhase, SignallerPhase, Cause, ExitPhase,
     OkOnlyWhenAsked
<1> QED
  BY <1>1, InvariantHolds, PTL

\* Asked to stop, the process reports an error only if Accept had failed or the
\* stop came before Serve and no RPC had been taken.
THEOREM ErrorMeansNothingServed == Spec => []AskedExitStatus
<1>1. IInv => AskedExitStatus
  BY DEF IInv, TypeOK, ServerPhase, SignallerPhase, OpenRpcs, Cause, ExitPhase,
     AskedExitStatus
<1> QED
  BY <1>1, InvariantHolds, PTL
=============================================================================
