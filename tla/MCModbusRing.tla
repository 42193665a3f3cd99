---------------------------- MODULE MCModbusRing ----------------------------
(* The Modbus receive buffer with a few bytes. *)
EXTENDS ModbusRing

TwoBytes == {0, 1}
=============================================================================
