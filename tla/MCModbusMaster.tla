-------------------------- MODULE MCModbusMaster --------------------------
(* The Modbus master for TLC: two tasks and the slaves they query.         *)
EXTENDS ModbusMaster

\* one slave for both tasks, and a broadcast
AnyQuery == {[task |-> "a", slave |-> 1], [task |-> "b", slave |-> 1],
             [task |-> "b", slave |-> 0]}

\* each task a slave of its own
OwnSlave == {[task |-> "a", slave |-> 1], [task |-> "b", slave |-> 2]}
=============================================================================
