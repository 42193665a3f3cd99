--------------------------- MODULE MCMessageQueue ---------------------------
(* The message queue with the constants TLC checks it for. *)
EXTENDS MessageQueue

\* no bytes, the longest packet, and one enqueue turns down
Lengths == {0, 1, 2}
=============================================================================
