--------------------------- MODULE MCWorkerRegistry ---------------------------
(* A small instance of WorkerRegistry for TLC: one node, which reconnects. *)
EXTENDS WorkerRegistry
CONSTANT n1
NodeOfConn == [k \in Conns |-> n1]
=============================================================================
