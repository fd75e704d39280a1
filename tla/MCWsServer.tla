------------------------------ MODULE MCWsServer ------------------------------
(* Instances of WsServer for TLC.                                           *)
EXTENDS WsServer, TLC

(* BOUND: at most one client at a time has a ping to be answered.           *)
OnePing == Cardinality({c \in Clients : conn[c].ping \/ conn[c].pc = "ponging"}) <= 1

ClientSymmetry == Permutations(Clients)

=============================================================================
