---------------------------- MODULE MessageQueue ----------------------------
(***************************************************************************)
(* components/message_queue/messageQueue.c: a ring of slots a producer     *)
(* fills with MQEnqueue and PacketPoll empties, handing each packet to the *)
(* application's callback in place.                                        *)
(*                                                                         *)
(* PacketPoll runs in the main loop or a task, and its removal of a packet *)
(* is split into its stores: the producer may be an interrupt handler, so  *)
(* that a whole MQEnqueue happens between any two of them.  Burst is how   *)
(* many packets may arrive between the store that clears `ready` and the   *)
(* end of the removal, where the test for a full queue does not count the  *)
(* slot.  With Burst = 0 that never happens, as when both ends run in one  *)
(* context and the only overlapping call is one the callback makes.        *)
(***************************************************************************)
EXTENDS Naturals, Sequences, FiniteSets

CONSTANTS
  Id,          \* identities of the packets' contents and arguments
  Length,      \* the packet lengths producers use
  BufferSize,  \* buffer_size, the longest packet accepted
  Size,        \* mq_size, the number of slots
  Burst,       \* the most packets that arrive late in one removal
  NULL

ASSUME QueueAssumption ==
  /\ Size \in Nat \ {0} /\ BufferSize \in Nat
  /\ Length \subseteq Nat /\ Burst \in Nat
  /\ NULL \notin Id /\ "zero" \notin Id \cup {NULL}   \* "zero": a cleared buffer

Slot == 0..(Size - 1)
(* Each operator named ..._Bug is a fault the properties are to notice: it *)
(* stands before the definition it would replace.                          *)
NextIdx(i) == (i + 1) % Size

VARIABLES
  queuebuf,         \* the slots
  readIdx, writeIdx,
  use_fixed_buffer, \* slots own their memory, or it is allocated per packet
  blocks,           \* packet blocks taken from the heap and not returned
  pc,               \* where PacketPoll is
  packet,           \* the arguments the callback was given
  late              \* packets that arrived late in this removal

ring == <<readIdx, writeIdx>>
vars == <<queuebuf, ring, use_fixed_buffer, blocks, pc, packet, late>>

(* A slot after MQInit. A fixed buffer exists and holds nothing yet.       *)
FreshSlot(fixed) ==
  [data |-> IF fixed THEN "zero" ELSE NULL, len |-> 0, argv |-> NULL, ready |-> 0]

NoPacket == [data |-> NULL, len |-> 0, argv |-> NULL]
PacketIn(s) == [data |-> s.data, len |-> s.len, argv |-> s.argv]

Init ==
  /\ use_fixed_buffer \in BOOLEAN
  /\ queuebuf = [i \in Slot |-> FreshSlot(use_fixed_buffer)]
  /\ readIdx = 0 /\ writeIdx = 0
  /\ blocks = IF use_fixed_buffer THEN Size ELSE 0
  /\ pc = "idle" /\ packet = NoPacket /\ late = 0

-----------------------------------------------------------------------------
(* enqueue: each early return, then the packet. *)

(* The slot at readIdx is no longer ready and readIdx has not moved on.    *)
Removing == pc \in {"len", "argv", "advance"}

Arrival ==
  /\ Removing => late < Burst
  /\ late' = IF Removing THEN late + 1 ELSE late

(* The flag of the slot to be written is tested instead.                   *)
IsFull_Bug == NextIdx(writeIdx) = readIdx /\ queuebuf[writeIdx].ready = 1

IsFull == NextIdx(writeIdx) = readIdx /\ queuebuf[readIdx].ready = 1

(* A packet of that length is taken: not mqErrorOverflow, not              *)
(* mqStatusBuffFull.                                                       *)
Accepts(len) == len =< BufferSize /\ ~IsFull

(* A packet left in the slot's own block is freed first. *)
Reclaimed == IF ~use_fixed_buffer /\ queuebuf[writeIdx].data # NULL THEN 1 ELSE 0

Enqueue(id, len) ==
  /\ Arrival /\ Accepts(len)
  /\ queuebuf' = [queuebuf EXCEPT ![writeIdx] =
       [data |-> IF len > 0 THEN id
                 ELSE IF use_fixed_buffer THEN @.data ELSE NULL,
        len |-> len, argv |-> id, ready |-> 1]]
  /\ blocks' = blocks - Reclaimed
               + (IF ~use_fixed_buffer /\ len > 0 THEN 1 ELSE 0)
  /\ writeIdx' = NextIdx(writeIdx)
  /\ UNCHANGED <<readIdx, use_fixed_buffer, pc, packet>>

(* The failing path moves on like the other one.                           *)
EnqueueNoMemory_Bug(len) ==
  /\ Arrival /\ Accepts(len) /\ len > 0 /\ ~use_fixed_buffer
  /\ queuebuf' = [queuebuf EXCEPT ![writeIdx].len = len, ![writeIdx].data = NULL]
  /\ blocks' = blocks - Reclaimed
  /\ writeIdx' = NextIdx(writeIdx)
  /\ UNCHANGED <<readIdx, use_fixed_buffer, pc, packet>>

(* mq_malloc fails: mqErrorNotEnoughSpace, after the slot was touched.     *)
EnqueueNoMemory(len) ==
  /\ Arrival /\ Accepts(len) /\ len > 0 /\ ~use_fixed_buffer
  /\ queuebuf' = [queuebuf EXCEPT ![writeIdx].len = len, ![writeIdx].data = NULL]
  /\ blocks' = blocks - Reclaimed
  /\ UNCHANGED <<ring, use_fixed_buffer, pc, packet>>

-----------------------------------------------------------------------------
(* PacketPoll, that is MQRecvData. *)

IsEmpty == readIdx = writeIdx /\ queuebuf[readIdx].ready = 0

(* GetReadyChQueueBuf_NOT_alloc finds a packet and the callback is called  *)
(* with the slot's fields; the data stay where they are.                   *)
Poll ==
  /\ pc = "idle" /\ ~IsEmpty
  /\ queuebuf[readIdx].ready = 1 /\ queuebuf[readIdx].len =< BufferSize
  /\ pc' = "callback"
  /\ packet' = PacketIn(queuebuf[readIdx])
  /\ UNCHANGED <<queuebuf, ring, use_fixed_buffer, blocks, late>>

(* The memset of a fixed buffer is missing, or the free of a block.        *)
DeleteData_Bug ==
  /\ pc = "callback" /\ ~IsEmpty /\ pc' = "ready"
  /\ UNCHANGED <<queuebuf, ring, use_fixed_buffer, blocks, packet, late>>
DeleteDataLeak_Bug ==
  /\ pc = "callback" /\ ~IsEmpty /\ pc' = "ready"
  /\ queuebuf' = [queuebuf EXCEPT ![readIdx].data =
                    IF use_fixed_buffer THEN "zero" ELSE NULL]
  /\ UNCHANGED <<ring, use_fixed_buffer, blocks, packet, late>>

(* The callback returns and dequeue starts: deleteElement gives the block  *)
(* back or clears the buffer.                                              *)
DeleteData ==
  /\ pc = "callback" /\ ~IsEmpty
  /\ pc' = "ready"
  /\ queuebuf' = [queuebuf EXCEPT ![readIdx].data =
                    IF use_fixed_buffer THEN "zero" ELSE NULL]
  /\ blocks' = IF ~use_fixed_buffer /\ queuebuf[readIdx].data # NULL
               THEN blocks - 1 ELSE blocks
  /\ UNCHANGED <<ring, use_fixed_buffer, packet, late>>

(* One store of deleteElement to the slot being removed. *)
DeleteField(here, next, slot) ==
  /\ pc = here /\ pc' = next
  /\ queuebuf' = [queuebuf EXCEPT ![readIdx] = slot]
  /\ UNCHANGED <<ring, use_fixed_buffer, blocks, packet, late>>

DeleteReady == DeleteField("ready", "len", [queuebuf[readIdx] EXCEPT !.ready = 0])
DeleteLen == DeleteField("len", "argv", [queuebuf[readIdx] EXCEPT !.len = 0])
DeleteArgv == DeleteField("argv", "advance", [queuebuf[readIdx] EXCEPT !.argv = NULL])

(* The last store of dequeue. *)
Advance ==
  /\ pc = "advance"
  /\ readIdx' = NextIdx(readIdx)
  /\ pc' = "idle" /\ packet' = NoPacket /\ late' = 0
  /\ UNCHANGED <<queuebuf, writeIdx, use_fixed_buffer, blocks>>

(* MQDeInit frees every block; the application sets the queue up again     *)
(* before it uses it, with the memory scheme of its choice.                *)
Reinit ==
  /\ pc = "idle"
  /\ use_fixed_buffer' \in BOOLEAN
  /\ queuebuf' = [i \in Slot |-> FreshSlot(use_fixed_buffer')]
  /\ readIdx' = 0 /\ writeIdx' = 0
  /\ blocks' = blocks - Cardinality({i \in Slot : queuebuf[i].data # NULL})
               + (IF use_fixed_buffer' THEN Size ELSE 0)
  /\ UNCHANGED <<pc, packet, late>>

-----------------------------------------------------------------------------
Producer ==
  \/ \E id \in Id, len \in Length : Enqueue(id, len)
  \/ \E len \in Length : EnqueueNoMemory(len)

Consumer ==
  Poll \/ DeleteData \/ DeleteReady \/ DeleteLen \/ DeleteArgv \/ Advance

Next == Producer \/ Consumer \/ Reinit

Spec == Init /\ [][Next]_vars

(* The application keeps calling PacketPoll and its callback returns.      *)
FairSpec == Spec /\ WF_vars(Consumer)

-----------------------------------------------------------------------------
(* Properties. *)

Ready == {i \in Slot : queuebuf[i].ready = 1}

(* The first slot not removed. *)
Oldest == IF Removing THEN NextIdx(readIdx) ELSE readIdx

(* The values the variables take. *)
TypeOK ==
  /\ queuebuf \in [Slot -> [data : Id \cup {"zero", NULL}, len : Length \cup {0},
                           argv : Id \cup {NULL}, ready : {0, 1}]]
  /\ readIdx \in Slot /\ writeIdx \in Slot
  /\ use_fixed_buffer \in BOOLEAN /\ blocks \in Nat
  /\ pc \in {"idle", "callback", "ready", "len", "argv", "advance"}
  /\ packet \in [data : Id \cup {"zero", NULL}, len : Length \cup {0},
                 argv : Id \cup {NULL}]
  /\ late \in 0..Burst

(* The ready slots are exactly those from the oldest up to writeIdx: a gap *)
(* would stop PacketPoll at a slot that is not ready with packets behind   *)
(* it, and enqueue would write over one of them.                           *)
ReadyContiguous ==
  \E n \in 0..Size :
    /\ Ready = {(Oldest + k) % Size : k \in 0..(n - 1)}
    /\ writeIdx = (Oldest + n) % Size

(* Every block taken from the heap hangs on exactly one slot: neither the  *)
(* free in enqueue nor the one in deleteElement leaks or frees twice.      *)
(* (And every variable has its type.)                                      *)
BlocksOwned ==
  /\ TypeOK
  /\ blocks = Cardinality({i \in Slot : queuebuf[i].data # NULL})

(* While the callback runs, the buffer it was handed is the oldest slot's  *)
(* and no MQEnqueue has touched it; a packet of no bytes shows none of an  *)
(* earlier packet's.                                                       *)
PacketInPlace ==
  pc = "callback" =>
    /\ readIdx \in Ready /\ packet = PacketIn(queuebuf[readIdx])
    /\ packet.len = 0 => packet.data \notin Id

(* A packet that was taken does not stay in its slot for ever: PacketPoll  *)
(* never stops at a slot short of it.                                      *)
NoPacketStranded == \A i \in Slot : i \in Ready ~> i \notin Ready

(* What a packet is to the application: its argument and its bytes.        *)
Message ==
  {m \in [argv : Id, len : Length, bytes : Id \cup {NULL}] :
     m.len =< BufferSize /\ m.bytes = IF m.len = 0 THEN NULL ELSE m.argv}
AsMessage(p) ==
  [argv |-> p.argv, len |-> p.len, bytes |-> IF p.len = 0 THEN NULL ELSE p.data]

Delivering == pc \in {"callback", "ready"}
Queued ==
  [k \in 1..Cardinality(Ready) |->
     IF k = 1 /\ Delivering THEN AsMessage(packet)
     ELSE AsMessage(queuebuf[(Oldest + k - 1) % Size])]

Fifo == INSTANCE MessageFifo WITH
  Capacity <- IF Size = 1 THEN 1 ELSE Size - 1,
  queue <- Queued, delivering <- Delivering

(* The ring is a first-in first-out queue of Size - 1 packets: none is     *)
(* lost, delivered twice, out of order or with another one's bytes.        *)
ImplementsQueue == Fifo!Spec
=============================================================================
