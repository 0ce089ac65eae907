---------------------------- MODULE MCIdempotency ----------------------------
\* The idempotency store on a small instance.
EXTENDS Idempotency, TLC

CONSTANTS f, g

\* Two requests that differ in their bodies, one twice as long.
MCSize == (f :> 1) @@ (g :> 2)
==============================================================================
