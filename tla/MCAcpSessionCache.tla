-------------------------- MODULE MCAcpSessionCache --------------------------
(* A small instance of the session cache for TLC. *)
EXTENDS AcpSessionCache, TLC

CONSTANTS t1, t2, t3, k1, k2, c1

MCAsks == (t1 :> {[key |-> k1, cwd |-> None]})
       @@ (t2 :> {[key |-> k1, cwd |-> c1]})
       @@ (t3 :> {[key |-> k1, cwd |-> None], [key |-> k2, cwd |-> None]})

\* Every turn on one key, one of them in a folder of its own.
MCAsksOneKey == [t \in Turn |-> {[key |-> k1, cwd |-> IF t = t2 THEN c1 ELSE None]}]
=============================================================================
