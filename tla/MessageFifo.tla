---------------------------- MODULE MessageFifo ----------------------------
(***************************************************************************)
(* What the message queue (components/message_queue) promises: a bounded   *)
(* first-in first-out queue.  The oldest message is handed to the          *)
(* application's callback and leaves the queue when the callback is done.  *)
(***************************************************************************)
EXTENDS Naturals, Sequences

CONSTANTS
  Message,   \* what can be queued
  Capacity   \* how many messages fit

VARIABLES
  queue,     \* the messages accepted and not yet removed, oldest first
  delivering \* the oldest message is with the callback

vars == <<queue, delivering>>

Init == queue = <<>> /\ delivering = FALSE

Accept(m) ==
  /\ Len(queue) < Capacity
  /\ queue' = Append(queue, m)
  /\ UNCHANGED delivering

Deliver == queue # <<>> /\ ~delivering /\ delivering' = TRUE /\ UNCHANGED queue

Remove == delivering /\ delivering' = FALSE /\ queue' = Tail(queue)

(* The queue is torn down and set up again. *)
Clear == ~delivering /\ queue' = <<>> /\ UNCHANGED delivering

Next == (\E m \in Message : Accept(m)) \/ Deliver \/ Remove \/ Clear

Spec == Init /\ [][Next]_vars
=============================================================================
