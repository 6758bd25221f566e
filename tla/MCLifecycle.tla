----------------------------- MODULE MCLifecycle -----------------------------
(* Instances of Lifecycle for TLC: two calls, so that one can be open while   *)
(* the other ends, one stream, and a second signal during the shutdown.       *)
EXTENDS Lifecycle

CONSTANTS call1, call2, watch

MCUnary == {call1, call2}
MCStreams == {watch}
MCMaxSignals == 2
=============================================================================
