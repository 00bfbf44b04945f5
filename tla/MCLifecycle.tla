---------------------------- MODULE MCLifecycle -----------------------------
(* Lifecycle on two handlers and a small audit channel.                    *)
EXTENDS Lifecycle, TLC

CONSTANTS h1, h2, f1, main, api1

=============================================================================
