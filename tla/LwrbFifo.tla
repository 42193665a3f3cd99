------------------------------ MODULE LwrbFifo ------------------------------
(***************************************************************************)
(* What a lightweight ring buffer (components/lwrb) promises to an         *)
(* application with one write entry and one read exit: a bounded first-in  *)
(* first-out pipe of bytes.  Every operation of the API takes effect in    *)
(* one indivisible step, whatever the other side is doing.                 *)
(***************************************************************************)
EXTENDS Naturals, Sequences

CONSTANTS
  Byte,      \* the byte values the application stores
  Capacity   \* the number of bytes the pipe can hold

(* What one write operation can store: a non-empty run of bytes.           *)
Chunk == UNION {[1..n -> Byte] : n \in 1..Capacity}

VARIABLES
  fifo,      \* the bytes written and not yet read, oldest first
  accepted,  \* the bytes the last write operation has stored
  delivered  \* the bytes the last read or peek operation has returned

vars == <<fifo, accepted, delivered>>

Init == fifo = <<>> /\ accepted = <<>> /\ delivered = <<>>

(* lwrb_write and lwrb_advance: the bytes of one write become readable     *)
(* together and in order, and only as many as fit.                         *)
Put(d) ==
  /\ Len(fifo) + Len(d) =< Capacity
  /\ fifo' = fifo \o d
  /\ accepted' = d
  /\ UNCHANGED delivered

(* lwrb_read, and lwrb_skip of a block read in place: the n oldest bytes   *)
(* are returned and leave the pipe.                                        *)
Get(n) ==
  /\ n \in 1..Len(fifo)
  /\ delivered' = SubSeq(fifo, 1, n)
  /\ fifo' = SubSeq(fifo, n + 1, Len(fifo))
  /\ UNCHANGED accepted

(* lwrb_peek: n bytes are returned, s bytes after the oldest one, and the  *)
(* pipe keeps them.                                                        *)
Peek(s, n) ==
  /\ n \in 1..(Len(fifo) - s)
  /\ delivered' = SubSeq(fifo, s + 1, s + n)
  /\ UNCHANGED <<fifo, accepted>>

(* lwrb_skip: the n oldest bytes are dropped unread.                       *)
Skip(n) ==
  /\ n \in 1..Len(fifo)
  /\ fifo' = SubSeq(fifo, n + 1, Len(fifo))
  /\ UNCHANGED <<accepted, delivered>>

(* lwrb_reset: every byte is dropped.                                      *)
Reset == fifo' = <<>> /\ UNCHANGED <<accepted, delivered>>

Next ==
  \/ \E d \in Chunk : Put(d)
  \/ \E n \in 1..Len(fifo) : Get(n) \/ Skip(n)
  \/ \E s \in 0..Len(fifo), n \in 1..Len(fifo) : Peek(s, n)
  \/ Reset

Spec == Init /\ [][Next]_vars
=============================================================================
