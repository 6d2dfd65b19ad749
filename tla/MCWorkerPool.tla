----------------------------- MODULE MCWorkerPool -----------------------------
(***************************************************************************)
(* A small instance of WorkerPool.                                         *)
(***************************************************************************)
EXTENDS WorkerPool

SmallBytes(r) == IF r \in {"u", "v", "w"} THEN 1 ELSE 2

MCBytes == [r \in Requests |-> SmallBytes(r)]

\* One account asks for two validations at a time; every other request has a
\* principal of its own.
MCPrincipal == [r \in Requests |-> IF r = "w" THEN "v" ELSE r]
=============================================================================
