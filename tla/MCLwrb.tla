------------------------------- MODULE MCLwrb -------------------------------
(* Instances of the ring buffer for TLC. *)
EXTENDS Lwrb

OneByte == {0}
TwoBytes == {0, 1}
=============================================================================
