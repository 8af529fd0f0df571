------------------------------ MODULE MCWsPool ------------------------------
(* Small instances of WsPool; producers are interchangeable. *)
EXTENDS WsPool, TLC

ProducerSymmetry == Permutations(Producers)

=============================================================================
