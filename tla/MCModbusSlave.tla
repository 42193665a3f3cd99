--------------------------- MODULE MCModbusSlave ---------------------------
(* The Modbus slave for TLC: 130 registers, more than an answer can hold,  *)
(* and a handful of requests at the limits.                                *)
EXTENDS ModbusSlave

(* To this slave: write two registers, read one more than an answer holds, *)
(* and read two coils, the second in a register that does not exist.  To   *)
(* all: write one register, read one, and write past the end.  And a       *)
(* request to another slave.                                               *)
Requests ==
  {[to |-> 1, fct |-> 16, addr |-> 0, qty |-> 2],
   [to |-> 1, fct |-> 4, addr |-> 0, qty |-> 126],
   [to |-> 1, fct |-> 1, addr |-> 2079, qty |-> 2],
   [to |-> 0, fct |-> 6, addr |-> 1, qty |-> 0],
   [to |-> 0, fct |-> 3, addr |-> 0, qty |-> 1],
   [to |-> 0, fct |-> 16, addr |-> 129, qty |-> 2],
   [to |-> 2, fct |-> 6, addr |-> 0, qty |-> 0]}
=============================================================================
