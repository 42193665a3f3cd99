------------------------------- MODULE MCOta -------------------------------
(* The firmware update for TLC: two pieces, two slots. *)
EXTENDS Ota

TwoPieces == {1, 2}
Images == {<<1, 2, 1>>, <<2>>}

(* Two digests that start with a zero byte are equal for strncasecmp: let  *)
(* those of <<2, 1>> and <<2>> be such.                                    *)
Class(c) == IF c = <<2, 1>> THEN <<2>> ELSE c
SameDigest(c, d) == Class(c) = Class(d)
=============================================================================
