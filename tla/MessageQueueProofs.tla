------------------------- MODULE MessageQueueProofs -------------------------
(***************************************************************************)
(* The message queue for every number of slots from two on, every set of   *)
(* packets and every length, as long as no more than one packet arrives    *)
(* between the stores of a removal: with two, the ring breaks.             *)
(*                                                                         *)
(* Everything follows from where the ready slots are: those less than      *)
(* Held away from the oldest (InRing), Held being the distance of          *)
(* writeIdx.  That one slot more stays free while a packet is removed      *)
(* (Room) is what keeps a late packet from reaching the slot that is       *)
(* being cleared.                                                          *)
(***************************************************************************)
EXTENDS MessageQueue, FiniteSetTheorems, SequenceTheorems, TLAPS

(* The ring has a slot to spare, and at most one packet arrives late.      *)
Spacious == Size >= 2 /\ Burst =< 1

Wrap(i, k) == IF i + k < Size THEN i + k ELSE i + k - Size

(* How far slot b is from slot a in the ring. *)
Distance(a, b) == IF b >= a THEN b - a ELSE b - a + Size

Held == Distance(Oldest, writeIdx)
Owned == {i \in Slot : queuebuf[i].data # NULL}

InRing ==
  \A i \in Slot : queuebuf[i].ready = 1 <=> Distance(Oldest, i) < Held

Room ==
  /\ ~Removing => late = 0
  /\ Removing /\ late = 0 => writeIdx # readIdx
  /\ Delivering => queuebuf[readIdx].ready = 1

(* Of what an earlier packet left, a packet without bytes shows nothing.   *)
Clean ==
  /\ \A i \in Slot :
       /\ use_fixed_buffer => queuebuf[i].data # NULL
       /\ use_fixed_buffer /\ queuebuf[i].ready = 0 => queuebuf[i].data = "zero"
       /\ queuebuf[i].ready = 1 /\ queuebuf[i].len = 0 => queuebuf[i].data \notin Id
  /\ pc = "callback" => packet = PacketIn(queuebuf[readIdx])
  /\ pc = "ready" /\ use_fixed_buffer => queuebuf[readIdx].data = "zero"

Counted ==
  /\ Cardinality(Ready) = Held
  /\ blocks = Cardinality(Owned)

IInv == TypeOK /\ InRing /\ Room /\ Clean /\ Counted

-----------------------------------------------------------------------------
(* The arithmetic of the ring.                                             *)

LEMMA WrapIsMod ==
  ASSUME NEW i \in Slot, NEW k \in 0..Size
  PROVE  /\ (i + k) % Size = Wrap(i, k)
         /\ Wrap(i, k) \in Slot
  <1>1. i \in Nat /\ i < Size /\ k \in Nat /\ k =< Size /\ Size \in Nat \ {0}
    BY QueueAssumption DEF Slot
  <1>2. CASE i + k < Size
    BY <1>1, <1>2 DEF Wrap, Slot
  <1>3. CASE i + k >= Size
    <2>1. i + k = 1 * Size + (i + k - Size) /\ i + k - Size \in 0..(Size - 1)
      BY <1>1, <1>3
    <2>2. (i + k) % Size = i + k - Size
      BY <1>1, <2>1
    <2> QED
      BY <1>1, <1>3, <2>1, <2>2 DEF Wrap, Slot
  <1> QED
    BY <1>1, <1>2, <1>3

LEMMA NextWraps ==
  ASSUME NEW i \in Slot
  PROVE  NextIdx(i) = Wrap(i, 1) /\ NextIdx(i) \in Slot
  <1>1. 1 \in 0..Size
    BY QueueAssumption
  <1> QED
    BY <1>1, WrapIsMod DEF NextIdx

(* A distance is less than the number of slots, and leads to the slot.     *)
LEMMA DistanceLeads ==
  ASSUME NEW a \in Slot, NEW b \in Slot
  PROVE  /\ Distance(a, b) \in 0..(Size - 1)
         /\ Wrap(a, Distance(a, b)) = b
         /\ Distance(a, b) = 0 <=> a = b
         /\ \A k \in 0..(Size - 1) : Distance(a, Wrap(a, k)) = k
  BY QueueAssumption DEF Slot, Distance, Wrap

(* writeIdx moves on.                                                      *)
LEMMA DistanceGrows ==
  ASSUME NEW a \in Slot, NEW b \in Slot, Distance(a, b) < Size - 1
  PROVE  /\ Distance(a, NextIdx(b)) = Distance(a, b) + 1
         /\ \A i \in Slot : Distance(a, i) < Distance(a, b) + 1
                              <=> Distance(a, i) < Distance(a, b) \/ i = b
  BY NextWraps, QueueAssumption DEF Slot, Distance, Wrap

(* The oldest slot is given up.                                            *)
LEMMA DistanceShrinks ==
  ASSUME NEW a \in Slot, NEW b \in Slot, a # b
  PROVE  /\ Distance(NextIdx(a), b) = Distance(a, b) - 1
         /\ \A i \in Slot : Distance(NextIdx(a), i) < Distance(a, b) - 1
                              <=> Distance(a, i) < Distance(a, b) /\ i # a
  BY NextWraps, QueueAssumption DEF Slot, Distance, Wrap

(* The slot before the oldest is the farthest.                             *)
LEMMA Farthest ==
  ASSUME NEW a \in Slot, NEW b \in Slot
  PROVE  /\ Distance(NextIdx(a), b) = Size - 1 <=> a = b
         /\ Distance(a, b) = Size - 1 <=> NextIdx(b) = a
  BY NextWraps, QueueAssumption DEF Slot, Distance, Wrap

-----------------------------------------------------------------------------
(* Facts about a state of the invariant.                                   *)

LEMMA Places ==
  ASSUME TypeOK
  PROVE  /\ readIdx \in Slot /\ writeIdx \in Slot /\ Oldest \in Slot
         /\ Held \in 0..(Size - 1) /\ Held \in Nat
  <1>1. readIdx \in Slot /\ writeIdx \in Slot
    BY DEF TypeOK
  <1>2. Oldest \in Slot
    BY <1>1, NextWraps DEF Oldest
  <1>3. Held \in 0..(Size - 1)
    BY <1>1, <1>2, DistanceLeads DEF Held
  <1> QED
    BY <1>1, <1>2, <1>3

LEMMA SlotsFinite ==
  ASSUME NEW S \in SUBSET Slot
  PROVE  IsFiniteSet(S) /\ Cardinality(S) \in Nat
  <1>1. IsFiniteSet(Slot)
    BY FS_Interval, QueueAssumption DEF Slot
  <1> QED
    BY <1>1, FS_Subset, FS_CardinalityType

(* A packet that is taken goes to a slot that is free, and is not the one  *)
(* being removed.                                                          *)
LEMMA RoomForOne ==
  ASSUME IInv, Spacious, Arrival, ~IsFull
  PROVE  /\ Held < Size - 1
         /\ queuebuf[writeIdx].ready = 0
         /\ pc # "idle" => writeIdx # readIdx
  <1> USE DEF IInv
  <1>1. /\ readIdx \in Slot /\ writeIdx \in Slot /\ Oldest \in Slot
        /\ Held \in 0..(Size - 1) /\ Size \in Nat /\ Size >= 2
    BY Places, QueueAssumption DEF Spacious
  <1>2. queuebuf[writeIdx].ready = 0
    <2>1. ~(Distance(Oldest, writeIdx) < Held)
      BY <1>1 DEF Held
    <2>2. queuebuf[writeIdx].ready # 1
      BY <1>1, <2>1 DEF InRing
    <2> QED
      BY <1>1, <2>2 DEF TypeOK
  <1>3. Held < Size - 1 /\ (pc # "idle" => writeIdx # readIdx)
    <2>1. CASE Removing
      <3>1. late = 0
        BY <2>1, QueueAssumption DEF Arrival, TypeOK, Spacious
      <3>2. writeIdx # readIdx
        BY <2>1, <3>1 DEF Room
      <3>3. Held # Size - 1
        BY <1>1, <2>1, <3>2, Farthest DEF Held, Oldest
      <3> QED
        BY <1>1, <3>2, <3>3
    <2>2. CASE ~Removing
      <3>1. Oldest = readIdx
        BY <2>2 DEF Oldest
      <3>2. Held = Size - 1 => queuebuf[readIdx].ready # 1
        BY <1>1, <3>1, Farthest DEF Held, IsFull
      <3>3. queuebuf[readIdx].ready # 1 => Held = 0
        BY <1>1, <3>1, DistanceLeads DEF InRing, Held
      <3>4. Held < Size - 1
        BY <1>1, <3>2, <3>3
      <3>5. pc # "idle" => Delivering
        BY <2>2 DEF TypeOK, Removing, Delivering
      <3> QED
        BY <1>2, <3>4, <3>5 DEF Room
    <2> QED
      BY <2>1, <2>2
  <1> QED
    BY <1>2, <1>3

-----------------------------------------------------------------------------
(* The inductive invariant.                                                *)

LEMMA InitInv == Init => IInv
  <1> SUFFICES ASSUME Init PROVE IInv
    OBVIOUS
  <1> USE DEF Init
  <1>1. TypeOK
    BY QueueAssumption DEF TypeOK, FreshSlot, NoPacket, Slot
  <1>2. Held = 0
    BY DEF Held, Oldest, Removing, Distance
  <1>3. InRing
    BY <1>1, <1>2, Places, DistanceLeads DEF InRing, FreshSlot
  <1>4. Room
    BY DEF Room, Removing, Delivering
  <1>5. Clean
    BY QueueAssumption DEF Clean, FreshSlot
  <1>6. Counted
    <2>1. Ready = {}
      BY DEF Ready, FreshSlot
    <2>2. Owned = IF use_fixed_buffer THEN Slot ELSE {}
      BY QueueAssumption DEF Owned, FreshSlot
    <2>3. Cardinality(Slot) = Size
      BY FS_Interval, QueueAssumption DEF Slot
    <2> QED
      BY <1>2, <2>1, <2>2, <2>3, FS_EmptySet DEF Counted
  <1> QED
    BY <1>1, <1>3, <1>4, <1>5, <1>6 DEF IInv

(* A packet is stored behind the last one.                                 *)
LEMMA EnqueueInv ==
  ASSUME IInv, Spacious, NEW id \in Id, NEW len \in Length, Enqueue(id, len)
  PROVE  IInv'
  <1> USE DEF IInv
  <1>1. /\ Held < Size - 1 /\ queuebuf[writeIdx].ready = 0
        /\ pc # "idle" => writeIdx # readIdx
    BY RoomForOne DEF Enqueue, Accepts
  <1>2. /\ readIdx \in Slot /\ writeIdx \in Slot /\ Oldest \in Slot
        /\ Held \in Nat
    BY Places
  <1>3. /\ queuebuf'[writeIdx].ready = 1 /\ queuebuf'[writeIdx].len = len
        /\ queuebuf'[writeIdx].data =
             IF len > 0 THEN id
             ELSE IF use_fixed_buffer THEN queuebuf[writeIdx].data ELSE NULL
        /\ \A i \in Slot : i # writeIdx => queuebuf'[i] = queuebuf[i]
    BY <1>2 DEF Enqueue, TypeOK
  <1>4. /\ readIdx' = readIdx /\ writeIdx' = NextIdx(writeIdx)
        /\ use_fixed_buffer' = use_fixed_buffer /\ pc' = pc /\ packet' = packet
        /\ Oldest' = Oldest
    BY DEF Enqueue, Oldest, Removing
  <1>5. Held' = Held + 1
    BY <1>1, <1>2, <1>4, DistanceGrows DEF Held
  <1>6. InRing'
    <2>1. \A i \in Slot : Distance(Oldest, i) < Held + 1
                             <=> Distance(Oldest, i) < Held \/ i = writeIdx
      BY <1>1, <1>2, DistanceGrows DEF Held
    <2>2. \A i \in Slot : queuebuf'[i].ready = 1 <=> queuebuf[i].ready = 1 \/ i = writeIdx
      BY <1>3
    <2> QED
      BY <1>4, <1>5, <2>1, <2>2 DEF InRing
  <1>7. Room'
    BY <1>1, <1>2, <1>3, <1>4 DEF Room, Removing, Delivering, Enqueue, Arrival, TypeOK
  <1>8. Clean'
    <2>1. \A i \in Slot : i # writeIdx =>
            /\ use_fixed_buffer' => queuebuf'[i].data # NULL
            /\ use_fixed_buffer' /\ queuebuf'[i].ready = 0 => queuebuf'[i].data = "zero"
            /\ queuebuf'[i].ready = 1 /\ queuebuf'[i].len = 0 => queuebuf'[i].data \notin Id
      BY <1>3, <1>4 DEF Clean
    <2>2. /\ use_fixed_buffer' => queuebuf'[writeIdx].data # NULL
          /\ queuebuf'[writeIdx].len = 0 => queuebuf'[writeIdx].data \notin Id
      BY <1>1, <1>2, <1>3, <1>4, QueueAssumption DEF Clean
    <2>3. /\ (pc = "callback" => packet = PacketIn(queuebuf[readIdx]))'
          /\ (pc = "ready" /\ use_fixed_buffer => queuebuf[readIdx].data = "zero")'
      BY <1>1, <1>2, <1>3, <1>4 DEF Clean, PacketIn
    <2> QED
      BY <1>3, <2>1, <2>2, <2>3 DEF Clean
  <1>9. Counted'
    <2>1. Cardinality(Ready') = Cardinality(Ready) + 1
      <3>1. Ready' = Ready \cup {writeIdx} /\ writeIdx \notin Ready
        BY <1>1, <1>2, <1>3 DEF Ready
      <3> QED
        BY <3>1, SlotsFinite, FS_AddElement DEF Ready
    <2>2. Cardinality(Owned') = Cardinality(Owned) - Reclaimed
                                 + (IF ~use_fixed_buffer /\ len > 0 THEN 1 ELSE 0)
      <3>1. Owned' = IF use_fixed_buffer \/ len > 0 THEN Owned \cup {writeIdx}
                     ELSE Owned \ {writeIdx}
        BY <1>2, <1>3, <1>4, QueueAssumption DEF Owned, Clean
      <3>2. writeIdx \in Owned <=> queuebuf[writeIdx].data # NULL
        BY <1>2 DEF Owned
      <3>3. use_fixed_buffer => writeIdx \in Owned
        BY <1>2 DEF Owned, Clean
      <3>4. /\ Cardinality(Owned \cup {writeIdx}) =
                  IF writeIdx \in Owned THEN Cardinality(Owned) ELSE Cardinality(Owned) + 1
            /\ Cardinality(Owned \ {writeIdx}) =
                  IF writeIdx \in Owned THEN Cardinality(Owned) - 1 ELSE Cardinality(Owned)
            /\ Cardinality(Owned) \in Nat
        BY SlotsFinite, FS_AddElement, FS_RemoveElement DEF Owned
      <3> QED
        BY <3>1, <3>2, <3>3, <3>4 DEF Reclaimed
    <2> QED
      BY <1>5, <2>1, <2>2 DEF Counted, Enqueue
  <1>10. TypeOK'
    <2>1. (queuebuf \in [Slot -> [data : Id \cup {"zero", NULL}, len : Length \cup {0},
                                   argv : Id \cup {NULL}, ready : {0, 1}]])'
      BY <1>2, Zenon DEF Enqueue, TypeOK
    <2>2. blocks' \in Nat
      BY <1>9, SlotsFinite DEF Counted, Owned
    <2>3. writeIdx' \in Slot
      BY <1>2, <1>4, NextWraps
    <2>4. late' \in 0..Burst
      BY QueueAssumption DEF Enqueue, Arrival, TypeOK
    <2> QED
      BY <1>4, <2>1, <2>2, <2>3, <2>4 DEF TypeOK
  <1> QED
    BY <1>6, <1>7, <1>8, <1>9, <1>10

(* No memory for the packet: the free slot is left without a block.        *)
LEMMA EnqueueNoMemoryInv ==
  ASSUME IInv, Spacious, NEW len \in Length, EnqueueNoMemory(len)
  PROVE  IInv'
  <1> USE DEF IInv
  <1>1. queuebuf[writeIdx].ready = 0 /\ (pc # "idle" => writeIdx # readIdx)
    BY RoomForOne DEF EnqueueNoMemory, Accepts
  <1>2. readIdx \in Slot /\ writeIdx \in Slot
    BY Places
  <1>3. /\ queuebuf'[writeIdx].ready = queuebuf[writeIdx].ready
        /\ queuebuf'[writeIdx].data = NULL
        /\ \A i \in Slot : i # writeIdx => queuebuf'[i] = queuebuf[i]
        /\ \A i \in Slot : queuebuf'[i].ready = queuebuf[i].ready
    BY <1>2 DEF EnqueueNoMemory, TypeOK
  <1>4. /\ readIdx' = readIdx /\ writeIdx' = writeIdx
        /\ use_fixed_buffer' = use_fixed_buffer /\ ~use_fixed_buffer
        /\ pc' = pc /\ packet' = packet /\ Oldest' = Oldest /\ Held' = Held
    BY DEF EnqueueNoMemory, ring, Oldest, Held, Removing
  <1>5. InRing'
    BY <1>3, <1>4 DEF InRing
  <1>6. Room'
    BY <1>1, <1>2, <1>3, <1>4
    DEF Room, Removing, Delivering, EnqueueNoMemory, Arrival, TypeOK
  <1>7. Clean'
    BY <1>1, <1>2, <1>3, <1>4 DEF Clean, PacketIn
  <1>8. Counted'
    <2>1. Ready' = Ready
      BY <1>3 DEF Ready
    <2>2. Owned' = Owned \ {writeIdx}
      BY <1>2, <1>3 DEF Owned
    <2>3. Cardinality(Owned \ {writeIdx}) =
            IF writeIdx \in Owned THEN Cardinality(Owned) - 1 ELSE Cardinality(Owned)
      BY SlotsFinite, FS_RemoveElement DEF Owned
    <2>4. writeIdx \in Owned <=> queuebuf[writeIdx].data # NULL
      BY <1>2 DEF Owned
    <2>5. Cardinality(Owned) \in Nat
      BY SlotsFinite DEF Owned
    <2> QED
      BY <1>4, <2>1, <2>2, <2>3, <2>4, <2>5 DEF Counted, EnqueueNoMemory, Reclaimed
  <1>9. TypeOK'
    <2>1. (queuebuf \in [Slot -> [data : Id \cup {"zero", NULL}, len : Length \cup {0},
                                   argv : Id \cup {NULL}, ready : {0, 1}]])'
      <3> DEFINE slot == [queuebuf[writeIdx] EXCEPT !.len = len, !.data = NULL]
      <3>1. slot \in [data : Id \cup {"zero", NULL}, len : Length \cup {0},
                      argv : Id \cup {NULL}, ready : {0, 1}]
        BY <1>2 DEF TypeOK
      <3>2. queuebuf' = [queuebuf EXCEPT ![writeIdx] = slot]
        BY <1>2 DEF EnqueueNoMemory, TypeOK
      <3> HIDE DEF slot
      <3> QED
        BY <1>2, <3>1, <3>2 DEF TypeOK
    <2>2. blocks' \in Nat
      BY <1>8, SlotsFinite DEF Counted, Owned
    <2>3. late' \in 0..Burst
      BY QueueAssumption DEF EnqueueNoMemory, Arrival, TypeOK
    <2> QED
      BY <1>4, <2>1, <2>2, <2>3 DEF TypeOK
  <1> QED
    BY <1>5, <1>6, <1>7, <1>8, <1>9

(* The callback is called with the oldest slot. *)
LEMMA PollInv ==
  ASSUME IInv, Poll
  PROVE  IInv'
  <1> USE DEF IInv, Poll
  <1>1. Oldest' = Oldest /\ Held' = Held
    BY DEF ring, Oldest, Held, Removing
  <1>2. InRing'
    BY <1>1 DEF InRing
  <1>3. Room'
    BY DEF Room, Removing, Delivering, ring
  <1>4. Clean'
    BY DEF Clean, PacketIn, ring
  <1>5. Counted'
    BY <1>1 DEF Counted, Ready, Owned
  <1>6. TypeOK'
    BY Places DEF TypeOK, ring, PacketIn
  <1> QED
    BY <1>2, <1>3, <1>4, <1>5, <1>6

(* The callback has returned and the slot's block is given back or its     *)
(* buffer cleared.                                                         *)
LEMMA DeleteDataInv ==
  ASSUME IInv, DeleteData
  PROVE  IInv'
  <1> USE DEF IInv
  <1>1. readIdx \in Slot
    BY Places
  <1>2. /\ queuebuf'[readIdx].data = IF use_fixed_buffer THEN "zero" ELSE NULL
        /\ \A i \in Slot : i # readIdx => queuebuf'[i] = queuebuf[i]
        /\ \A i \in Slot : queuebuf'[i].ready = queuebuf[i].ready
    BY <1>1 DEF DeleteData, TypeOK
  <1>3. /\ readIdx' = readIdx /\ writeIdx' = writeIdx /\ late' = late
        /\ use_fixed_buffer' = use_fixed_buffer /\ packet' = packet
        /\ pc = "callback" /\ pc' = "ready"
    BY DEF DeleteData, ring
  <1>4. Oldest' = Oldest /\ Held' = Held
    BY <1>3 DEF Oldest, Held, Removing
  <1>5. InRing'
    BY <1>2, <1>4 DEF InRing
  <1>6. Room'
    BY <1>1, <1>2, <1>3 DEF Room, Removing, Delivering
  <1>7. Clean'
    BY <1>2, <1>3, QueueAssumption DEF Clean
  <1>8. Counted'
    <2>1. Ready' = Ready
      BY <1>2 DEF Ready
    <2>2. Owned' = IF use_fixed_buffer THEN Owned ELSE Owned \ {readIdx}
      BY <1>1, <1>2, QueueAssumption DEF Owned, Clean
    <2>3. Cardinality(Owned \ {readIdx}) =
            IF readIdx \in Owned THEN Cardinality(Owned) - 1 ELSE Cardinality(Owned)
      BY SlotsFinite, FS_RemoveElement DEF Owned
    <2>4. readIdx \in Owned <=> queuebuf[readIdx].data # NULL
      BY <1>1 DEF Owned
    <2> QED
      BY <1>4, <2>1, <2>2, <2>3, <2>4 DEF Counted, DeleteData
  <1>9. TypeOK'
    <2>1. (queuebuf \in [Slot -> [data : Id \cup {"zero", NULL}, len : Length \cup {0},
                                   argv : Id \cup {NULL}, ready : {0, 1}]])'
      BY <1>1 DEF DeleteData, TypeOK
    <2>2. blocks' \in Nat
      BY <1>8, SlotsFinite DEF Counted, Owned
    <2> QED
      BY <1>3, <2>1, <2>2 DEF TypeOK
  <1> QED
    BY <1>5, <1>6, <1>7, <1>8, <1>9

(* The oldest slot is ready no more: the slot after it is the oldest.      *)
LEMMA DeleteReadyInv ==
  ASSUME IInv, DeleteReady
  PROVE  IInv'
  <1> USE DEF IInv
  <1>1. readIdx \in Slot /\ writeIdx \in Slot /\ Held \in Nat
    BY Places
  <1>2. /\ queuebuf'[readIdx].ready = 0
        /\ queuebuf'[readIdx].data = queuebuf[readIdx].data
        /\ \A i \in Slot : i # readIdx => queuebuf'[i] = queuebuf[i]
        /\ \A i \in Slot : queuebuf'[i].data = queuebuf[i].data
    BY <1>1 DEF DeleteReady, DeleteField, TypeOK
  <1>3. /\ readIdx' = readIdx /\ writeIdx' = writeIdx /\ late' = late
        /\ use_fixed_buffer' = use_fixed_buffer /\ packet' = packet /\ blocks' = blocks
        /\ pc = "ready" /\ pc' = "len"
    BY DEF DeleteReady, DeleteField, ring
  <1>4. queuebuf[readIdx].ready = 1 /\ Oldest = readIdx /\ readIdx # writeIdx
    <2>1. queuebuf[readIdx].ready = 1 /\ Oldest = readIdx
      BY <1>3 DEF Room, Delivering, Oldest, Removing
    <2>2. Distance(readIdx, readIdx) < Distance(readIdx, writeIdx)
      BY <1>1, <2>1 DEF InRing, Held
    <2>3. readIdx # writeIdx
      BY <1>1, <2>2, DistanceLeads
    <2> QED
      BY <2>1, <2>3
  <1>5. Oldest' = NextIdx(readIdx) /\ Held' = Held - 1
    BY <1>1, <1>3, <1>4, DistanceShrinks DEF Oldest, Held, Removing
  <1>6. InRing'
    <2>1. \A i \in Slot : Distance(NextIdx(readIdx), i) < Held - 1
                             <=> Distance(readIdx, i) < Held /\ i # readIdx
      BY <1>1, <1>4, DistanceShrinks DEF Held
    <2>2. \A i \in Slot : queuebuf'[i].ready = 1 <=> queuebuf[i].ready = 1 /\ i # readIdx
      BY <1>2
    <2> QED
      BY <1>4, <1>5, <2>1, <2>2 DEF InRing
  <1>7. Room'
    BY <1>3, <1>4 DEF Room, Removing, Delivering
  <1>8. Clean'
    <2>1. use_fixed_buffer => queuebuf[readIdx].data = "zero"
      BY <1>3 DEF Clean
    <2> QED
      BY <1>1, <1>2, <1>3, <2>1 DEF Clean
  <1>9. Counted'
    <2>1. Ready' = Ready \ {readIdx} /\ readIdx \in Ready
      BY <1>1, <1>2, <1>4 DEF Ready
    <2>2. Cardinality(Ready') = Cardinality(Ready) - 1
      BY <2>1, SlotsFinite, FS_RemoveElement DEF Ready
    <2>3. Owned' = Owned
      BY <1>2 DEF Owned
    <2> QED
      BY <1>3, <1>5, <2>2, <2>3 DEF Counted
  <1>10. TypeOK'
    BY <1>1, <1>3 DEF TypeOK, DeleteReady, DeleteField
  <1> QED
    BY <1>6, <1>7, <1>8, <1>9, <1>10

(* The length or the argument of the slot is cleared: it is not ready.     *)
LEMMA ClearInv ==
  ASSUME IInv, DeleteLen \/ DeleteArgv
  PROVE  IInv'
  <1> USE DEF IInv
  <1>1. readIdx \in Slot /\ writeIdx \in Slot /\ Held \in 0..(Size - 1)
    BY Places
  <1>2. /\ queuebuf'[readIdx].ready = queuebuf[readIdx].ready
        /\ queuebuf'[readIdx].data = queuebuf[readIdx].data
        /\ \A i \in Slot : i # readIdx => queuebuf'[i] = queuebuf[i]
        /\ \A i \in Slot : /\ queuebuf'[i].ready = queuebuf[i].ready
                           /\ queuebuf'[i].data = queuebuf[i].data
    BY <1>1 DEF DeleteLen, DeleteArgv, DeleteField, TypeOK
  <1>3. /\ readIdx' = readIdx /\ writeIdx' = writeIdx /\ late' = late
        /\ use_fixed_buffer' = use_fixed_buffer /\ packet' = packet /\ blocks' = blocks
        /\ pc \in {"len", "argv"} /\ pc' \in {"argv", "advance"}
    BY DEF DeleteLen, DeleteArgv, DeleteField, ring
  <1>4. Oldest = NextIdx(readIdx) /\ Oldest' = Oldest /\ Held' = Held
    BY <1>3 DEF Oldest, Held, Removing
  <1>5. InRing'
    BY <1>2, <1>4 DEF InRing
  <1>6. Room'
    BY <1>3 DEF Room, Removing, Delivering
  <1>7. Clean'
    <2>1. queuebuf[readIdx].ready # 1
      <3>1. Distance(NextIdx(readIdx), readIdx) = Size - 1
        BY <1>1, Farthest
      <3> QED
        BY <1>1, <1>4, <3>1, QueueAssumption DEF InRing
    <2> QED
      BY <1>1, <1>2, <1>3, <2>1 DEF Clean
  <1>8. Counted'
    BY <1>2, <1>3, <1>4 DEF Counted, Ready, Owned
  <1>9. TypeOK'
    <2>1. (queuebuf \in [Slot -> [data : Id \cup {"zero", NULL}, len : Length \cup {0},
                                   argv : Id \cup {NULL}, ready : {0, 1}]])'
      BY <1>1 DEF DeleteLen, DeleteArgv, DeleteField, TypeOK
    <2> QED
      BY <1>3, <2>1 DEF TypeOK
  <1> QED
    BY <1>5, <1>6, <1>7, <1>8, <1>9

(* readIdx moves on to the oldest slot. *)
LEMMA AdvanceInv ==
  ASSUME IInv, Advance
  PROVE  IInv'
  <1> USE DEF IInv, Advance
  <1>1. NextIdx(readIdx) \in Slot
    BY Places, NextWraps
  <1>2. Oldest' = Oldest /\ Held' = Held
    BY DEF Oldest, Held, Removing
  <1>3. InRing'
    BY <1>2 DEF InRing
  <1>4. Room'
    BY DEF Room, Removing, Delivering
  <1>5. Clean'
    BY DEF Clean
  <1>6. Counted'
    BY <1>2 DEF Counted, Ready, Owned
  <1>7. TypeOK'
    BY <1>1, QueueAssumption DEF TypeOK, NoPacket
  <1> QED
    BY <1>3, <1>4, <1>5, <1>6, <1>7

(* Every block is freed and the queue set up as at first.                  *)
LEMMA ReinitInv ==
  ASSUME IInv, Reinit
  PROVE  IInv'
  <1> USE DEF IInv, Reinit
  <1>1. /\ \A i \in Slot : queuebuf'[i] = FreshSlot(use_fixed_buffer')
        /\ use_fixed_buffer' \in BOOLEAN
    OBVIOUS
  <1>2. 0 \in Slot /\ Distance(0, 0) = 0
    BY QueueAssumption DEF Slot, Distance
  <1>3. Oldest' = 0 /\ Held' = 0
    BY <1>2 DEF Oldest, Held, Removing
  <1>4. InRing'
    BY <1>1, <1>2, <1>3, DistanceLeads DEF InRing, FreshSlot
  <1>5. Room'
    BY DEF Room, Removing, Delivering
  <1>6. Clean'
    BY <1>1, QueueAssumption DEF Clean, FreshSlot
  <1>7. Counted'
    <2>1. Ready' = {}
      BY <1>1 DEF Ready, FreshSlot
    <2>2. Owned' = IF use_fixed_buffer' THEN Slot ELSE {}
      BY <1>1, QueueAssumption DEF Owned, FreshSlot
    <2>3. Cardinality(Slot) = Size
      BY FS_Interval, QueueAssumption DEF Slot
    <2>4. blocks' = IF use_fixed_buffer' THEN Size ELSE 0
      BY SlotsFinite, QueueAssumption DEF Counted, Owned
    <2> QED
      BY <1>3, <2>1, <2>2, <2>3, <2>4, FS_EmptySet DEF Counted
  <1>8. TypeOK'
    <2>1. FreshSlot(use_fixed_buffer') \in
            [data : Id \cup {"zero", NULL}, len : Length \cup {0},
             argv : Id \cup {NULL}, ready : {0, 1}]
      BY <1>1 DEF FreshSlot
    <2>2. blocks' \in Nat
      BY <1>7, SlotsFinite DEF Counted, Owned
    <2> QED
      BY <1>1, <1>2, <2>1, <2>2 DEF TypeOK
  <1> QED
    BY <1>4, <1>5, <1>6, <1>7, <1>8

LEMMA StutterInv == IInv /\ UNCHANGED vars => IInv'
  BY DEF IInv, TypeOK, InRing, Room, Clean, Counted, Held, Owned, Ready, Oldest,
         Removing, Delivering, PacketIn, vars, ring

LEMMA NextInv == Spacious /\ IInv /\ [Next]_vars => IInv'
  <1> SUFFICES ASSUME Spacious, IInv, [Next]_vars PROVE IInv'
    OBVIOUS
  <1>1. CASE Producer
    BY <1>1, EnqueueInv, EnqueueNoMemoryInv DEF Producer
  <1>2. CASE Consumer
    BY <1>2, PollInv, DeleteDataInv, DeleteReadyInv, ClearInv, AdvanceInv DEF Consumer
  <1>3. CASE Reinit
    BY <1>3, ReinitInv
  <1>4. CASE UNCHANGED vars
    BY <1>4, StutterInv
  <1> QED
    BY <1>1, <1>2, <1>3, <1>4 DEF Next

(* The inductive invariant of the ring: for every number of slots, every   *)
(* set of packets and every length.                                        *)
THEOREM Invariance ==
  ASSUME Spacious
  PROVE  Spec => []IInv
  BY Spacious, InitInv, NextInv, PTL DEF Spec

-----------------------------------------------------------------------------
(* The properties. *)

(* enqueue and dequeue leave no gap among the ready slots, whatever        *)
(* happens between the stores of a removal.                                *)
THEOREM NoGap ==
  ASSUME Spacious
  PROVE  Spec => []ReadyContiguous
  <1>1. IInv => ReadyContiguous
    <2> SUFFICES ASSUME IInv PROVE ReadyContiguous
      OBVIOUS
    <2>1. /\ Oldest \in Slot /\ writeIdx \in Slot /\ Held \in 0..(Size - 1)
          /\ Held \in 0..Size /\ Held \in Nat /\ Size \in Nat
      BY Places, QueueAssumption DEF IInv
    <2>2. writeIdx = (Oldest + Held) % Size
      BY <2>1, DistanceLeads, WrapIsMod DEF Held
    <2>3. ASSUME NEW i \in Ready
          PROVE  \E k \in 0..(Held - 1) : i = (Oldest + k) % Size
      <3> DEFINE k == Distance(Oldest, i)
      <3>1. i \in Slot /\ k \in 0..(Size - 1) /\ k < Held /\ Wrap(Oldest, k) = i
        BY <2>1, DistanceLeads DEF Ready, IInv, InRing
      <3> HIDE DEF k
      <3>2. k \in 0..Size /\ k \in 0..(Held - 1)
        BY <2>1, <3>1
      <3> QED
        BY <2>1, <3>1, <3>2, WrapIsMod
    <2>4. ASSUME NEW k \in 0..(Held - 1)
          PROVE  (Oldest + k) % Size \in Ready
      <3>1. k \in 0..Size /\ k \in 0..(Size - 1) /\ k < Held
        BY <2>1
      <3>2. Wrap(Oldest, k) \in Slot /\ Distance(Oldest, Wrap(Oldest, k)) = k
        BY <2>1, <3>1, WrapIsMod, DistanceLeads
      <3>3. (Oldest + k) % Size = Wrap(Oldest, k)
        BY <2>1, <3>1, WrapIsMod
      <3> QED
        BY <3>1, <3>2, <3>3 DEF Ready, IInv, InRing
    <2>5. Ready = {(Oldest + k) % Size : k \in 0..(Held - 1)}
      BY <2>3, <2>4
    <2> QED
      BY <2>1, <2>2, <2>5 DEF ReadyContiguous
  <1> QED
    BY <1>1, Invariance, PTL

(* mq_malloc and mq_free balance: no block leaks, none is freed twice.     *)
THEOREM BlocksAccounted ==
  ASSUME Spacious
  PROVE  Spec => []BlocksOwned
  <1>1. IInv => BlocksOwned
    BY DEF IInv, Counted, BlocksOwned, Owned
  <1> QED
    BY <1>1, Invariance, PTL

(* The buffer the callback of PacketPoll is handed stays as it is until    *)
(* the callback returns.                                                   *)
THEOREM CallbackSafe ==
  ASSUME Spacious
  PROVE  Spec => []PacketInPlace
  <1>1. IInv => PacketInPlace
    BY Places DEF IInv, Room, Clean, PacketInPlace, Delivering, Ready, PacketIn
  <1> QED
    BY <1>1, Invariance, PTL

-----------------------------------------------------------------------------
(* The first-in first-out queue. *)

(* What PacketPoll has still to hand out, by its place behind the oldest.  *)
Entry(k) == IF k = 1 /\ Delivering THEN AsMessage(packet)
            ELSE AsMessage(queuebuf[Wrap(Oldest, k - 1)])

Shown == [argv : Id \cup {NULL}, len : Length \cup {0}, bytes : Id \cup {"zero", NULL}]

LEMMA MessageShown ==
  ASSUME NEW p, p.argv \in Id \cup {NULL}, p.len \in Length \cup {0},
         p.data \in Id \cup {"zero", NULL}
  PROVE  AsMessage(p) \in Shown
  BY DEF AsMessage, Shown

(* How the queue is read off the slots. *)
Form == Queued = [k \in 1..Held |-> Entry(k)]

LEMMA QueuedIs ==
  ASSUME IInv
  PROVE  /\ Form
         /\ \A k \in 1..Held : Wrap(Oldest, k - 1) \in Slot /\ Entry(k) \in Shown
         /\ Queued \in Seq(Shown) /\ Len(Queued) = Held
  <1>1. /\ Oldest \in Slot /\ Held \in 0..(Size - 1) /\ Held \in Nat /\ Size \in Nat
        /\ Cardinality(Ready) = Held
    BY Places, QueueAssumption DEF IInv, Counted
  <1>2. ASSUME NEW k \in 1..Held
        PROVE  /\ (Oldest + k - 1) % Size = Wrap(Oldest, k - 1)
               /\ Wrap(Oldest, k - 1) \in Slot
    <2>1. k - 1 \in 0..Size /\ Oldest + k - 1 = Oldest + (k - 1)
      BY <1>1 DEF Slot
    <2> QED
      BY <1>1, <2>1, WrapIsMod
  <1>3. Queued = [k \in 1..Held |-> Entry(k)]
    BY <1>1, <1>2 DEF Queued, Entry
  <1>4. ASSUME NEW k \in 1..Held
        PROVE  Entry(k) \in Shown
    <2>1. AsMessage(packet) \in Shown
      BY MessageShown DEF IInv, TypeOK
    <2>2. AsMessage(queuebuf[Wrap(Oldest, k - 1)]) \in Shown
      BY <1>2, MessageShown DEF IInv, TypeOK
    <2> QED
      BY <2>1, <2>2 DEF Entry
  <1>5. Queued \in Seq(Shown) /\ Len(Queued) = Held
    BY <1>1, <1>3, <1>4
  <1> QED
    BY <1>2, <1>3, <1>4, <1>5 DEF Form

LEMMA FormKept == IInv => Form
  BY QueuedIs

LEMMA InitEmpty == Init => Fifo!Init
  <1> SUFFICES ASSUME Init PROVE Fifo!Init
    OBVIOUS
  <1>1. Held = 0
    BY DEF Init, Held, Oldest, Removing, Distance
  <1>2. Queued = <<>>
    BY <1>1, InitInv, QueuedIs, EmptySeq
  <1>3. Delivering = FALSE
    BY DEF Init, Delivering
  <1> QED
    BY <1>2, <1>3 DEF Fifo!Init

(* A packet that is taken is appended. *)
LEMMA EnqueueAccepts ==
  ASSUME IInv, Spacious, NEW id \in Id, NEW len \in Length, Enqueue(id, len)
  PROVE  Fifo!Next
  <1> DEFINE m == AsMessage(queuebuf'[writeIdx])
  <1>1. /\ Held < Size - 1 /\ queuebuf[writeIdx].ready = 0
        /\ pc # "idle" => writeIdx # readIdx
    BY RoomForOne DEF Enqueue, Accepts
  <1>2. /\ writeIdx \in Slot /\ Oldest \in Slot /\ Held \in Nat
        /\ Size \in Nat /\ Size >= 2
    BY Places, QueueAssumption DEF IInv, Spacious
  <1>3. /\ queuebuf'[writeIdx].len = len /\ queuebuf'[writeIdx].argv = id
        /\ len > 0 => queuebuf'[writeIdx].data = id
        /\ \A i \in Slot : i # writeIdx => queuebuf'[i] = queuebuf[i]
    BY <1>2 DEF Enqueue, IInv, TypeOK
  <1>4. m \in Message /\ m \in Shown
    <2>1. len \in Nat /\ len =< BufferSize /\ (len > 0 <=> len # 0)
      BY QueueAssumption DEF Enqueue, Accepts
    <2> QED
      BY <1>3, <2>1 DEF AsMessage, Message, Shown
  <1>5. /\ Oldest' = Oldest /\ Held' = Held + 1 /\ packet' = packet /\ pc' = pc
    BY <1>1, <1>2, DistanceGrows DEF Enqueue, Oldest, Held, Removing
  <1>6. IInv'
    BY EnqueueInv
  <1>7. Queued' = [k \in 1..(Held + 1) |-> Entry(k)']
    <2>1. Form'
      BY <1>6, FormKept, PTL
    <2> QED
      BY <1>5, <2>1 DEF Form
  <1>8. \A k \in 1..Held : Entry(k)' = Entry(k)
    <2> SUFFICES ASSUME NEW k \in 1..Held PROVE Entry(k)' = Entry(k)
      OBVIOUS
    <2>1. k - 1 \in 0..(Size - 1) /\ k - 1 < Held
      BY <1>1, <1>2
    <2>2. Wrap(Oldest, k - 1) # writeIdx /\ Wrap(Oldest, k - 1) \in Slot
      BY <1>2, <2>1, DistanceLeads, QueuedIs DEF Held
    <2> QED
      BY <1>3, <1>5, <2>2 DEF Entry, Delivering
  <1>9. \A k : k = Held + 1 => Entry(k)' = m
    <2> SUFFICES ASSUME NEW k, k = Held + 1 PROVE Entry(k)' = m
      OBVIOUS
    <2>1. Wrap(Oldest, Held) = writeIdx
      BY <1>2, DistanceLeads DEF Held
    <2>2. Delivering => Held # 0
      <3>1. Delivering => Oldest = readIdx /\ readIdx # writeIdx
        BY <1>1 DEF Delivering, Oldest, Removing
      <3> QED
        BY <1>2, <3>1, DistanceLeads DEF Held
    <2> QED
      BY <1>2, <1>5, <2>1, <2>2 DEF Entry, Delivering
  <1>10. Queued' = Append(Queued, m)
    <2> HIDE DEF m
    <2>1. /\ Queued = [k \in 1..Held |-> Entry(k)] /\ Len(Queued) = Held
          /\ Queued \in Seq(Shown)
      BY QueuedIs DEF Form
    <2>2. Append(Queued, m) =
            [k \in 1..(Held + 1) |-> IF k = Held + 1 THEN m ELSE Queued[k]]
      BY <1>2, <1>4, <2>1, AppendProperties
    <2>3. \A k \in 1..(Held + 1) : Entry(k)' = IF k = Held + 1 THEN m ELSE Queued[k]
      BY <1>2, <1>8, <1>9, <2>1
    <2> QED
      BY <1>7, <2>2, <2>3
  <1>11. Len(Queued) < IF Size = 1 THEN 1 ELSE Size - 1
    BY <1>1, <1>2, QueuedIs
  <1>12. Delivering' = Delivering
    BY <1>5 DEF Delivering
  <1> HIDE DEF m
  <1> QED
    BY <1>4, <1>10, <1>11, <1>12 DEF Fifo!Next, Fifo!Accept

(* A step that leaves the places and what they show leaves the queue.      *)
LEMMA QueueStays ==
  ASSUME IInv, IInv', Oldest' = Oldest, Held' = Held,
         \A k \in 1..Held : Entry(k)' = Entry(k)
  PROVE  Queued' = Queued
  <1>1. Form /\ Form'
    BY FormKept, PTL
  <1> QED
    BY <1>1 DEF Form

LEMMA PollDelivers ==
  ASSUME IInv, Poll
  PROVE  Fifo!Deliver
  <1> USE DEF Poll
  <1>1. readIdx \in Slot /\ Held \in Nat /\ Held # 0
    <2>1. Distance(Oldest, readIdx) < Held /\ readIdx \in Slot /\ Oldest \in Slot
      BY Places DEF IInv, InRing
    <2> QED
      BY <2>1, Places, DistanceLeads DEF IInv
  <1>2. Oldest = readIdx /\ Oldest' = Oldest /\ Held' = Held /\ queuebuf' = queuebuf
    BY DEF ring, Oldest, Held, Removing
  <1>3. \A k \in 1..Held : Entry(k)' = Entry(k)
    <2> SUFFICES ASSUME NEW k \in 1..Held PROVE Entry(k)' = Entry(k)
      OBVIOUS
    <2>1. CASE k = 1
      <3>1. Wrap(Oldest, k - 1) = readIdx
        BY <1>1, <1>2, <2>1, QueueAssumption DEF Wrap, Slot
      <3>2. AsMessage(packet') = AsMessage(queuebuf[readIdx])
        BY DEF AsMessage, PacketIn
      <3> QED
        BY <1>2, <2>1, <3>1, <3>2 DEF Entry, Delivering
    <2>2. CASE k # 1
      BY <1>2, <2>2 DEF Entry
    <2> QED
      BY <2>1, <2>2
  <1>4. Queued' = Queued
    BY <1>2, <1>3, PollInv, QueueStays
  <1>5. Queued # <<>>
    BY <1>1, QueuedIs, EmptySeq
  <1>6. ~Delivering /\ Delivering' = TRUE
    BY DEF Delivering
  <1> QED
    BY <1>4, <1>5, <1>6 DEF Fifo!Deliver

(* The slots but the oldest, which is with the callback, are as they were. *)
LEMMA OthersStay ==
  ASSUME IInv, IInv', Oldest' = Oldest, Held' = Held, packet' = packet,
         Delivering' = Delivering,
         \A i \in Slot : queuebuf[i].ready = 1 /\ (i = Oldest => ~Delivering)
                           => queuebuf'[i] = queuebuf[i]
  PROVE  UNCHANGED Fifo!vars
  <1>1. Oldest \in Slot /\ Held \in 0..(Size - 1) /\ Size \in Nat
    BY Places, QueueAssumption DEF IInv
  <1>2. \A k \in 1..Held : Entry(k)' = Entry(k)
    <2> SUFFICES ASSUME NEW k \in 1..Held PROVE Entry(k)' = Entry(k)
      OBVIOUS
    <2> DEFINE i == Wrap(Oldest, k - 1)
    <2>1. k - 1 \in 0..(Size - 1) /\ k - 1 < Held /\ (k # 1 => k - 1 # 0)
      BY <1>1
    <2>2. i \in Slot /\ Distance(Oldest, i) = k - 1
      BY <1>1, <2>1, QueuedIs, DistanceLeads
    <2>3. queuebuf[i].ready = 1 /\ (k # 1 => i # Oldest)
      BY <1>1, <2>1, <2>2, DistanceLeads DEF IInv, InRing
    <2>4. ~(k = 1 /\ Delivering) => queuebuf'[i] = queuebuf[i]
      BY <2>2, <2>3
    <2> QED
      BY <2>4 DEF Entry
  <1>3. Queued' = Queued
    BY <1>2, QueueStays
  <1> QED
    BY <1>3 DEF Fifo!vars

LEMMA DeleteDataStutters ==
  ASSUME IInv, DeleteData
  PROVE  UNCHANGED Fifo!vars
  <1>1. Oldest' = Oldest /\ Held' = Held /\ packet' = packet /\ Oldest = readIdx
        /\ Delivering = TRUE /\ Delivering' = TRUE
    BY DEF DeleteData, ring, Oldest, Held, Removing, Delivering
  <1>2. \A i \in Slot : i # readIdx => queuebuf'[i] = queuebuf[i]
    BY DEF DeleteData, IInv, TypeOK
  <1> QED
    BY <1>1, <1>2, DeleteDataInv, OthersStay

LEMMA ClearStutters ==
  ASSUME IInv, DeleteLen \/ DeleteArgv
  PROVE  UNCHANGED Fifo!vars
  <1>1. /\ Oldest' = Oldest /\ Held' = Held /\ packet' = packet
        /\ Oldest = NextIdx(readIdx) /\ Delivering = FALSE /\ Delivering' = FALSE
    BY DEF DeleteLen, DeleteArgv, DeleteField, ring, Oldest, Held, Removing, Delivering
  <1>2. \A i \in Slot : i # readIdx => queuebuf'[i] = queuebuf[i]
    BY DEF DeleteLen, DeleteArgv, DeleteField, IInv, TypeOK
  <1>3. queuebuf[readIdx].ready # 1
    <2>1. readIdx \in Slot /\ Held \in 0..(Size - 1)
      BY Places DEF IInv
    <2> QED
      BY <1>1, <2>1, Farthest, QueueAssumption DEF IInv, InRing
  <1> QED
    BY <1>1, <1>2, <1>3, ClearInv, OthersStay

LEMMA AdvanceStutters ==
  ASSUME IInv, Advance
  PROVE  UNCHANGED Fifo!vars
  <1>1. Oldest' = Oldest /\ Held' = Held /\ queuebuf' = queuebuf
        /\ Delivering = FALSE /\ Delivering' = FALSE
    BY DEF Advance, Oldest, Held, Removing, Delivering
  <1>2. \A k \in 1..Held : Entry(k)' = Entry(k)
    BY <1>1 DEF Entry
  <1>3. Queued' = Queued
    BY <1>1, <1>2, AdvanceInv, QueueStays
  <1>4. Delivering' = Delivering
    BY <1>1
  <1> QED
    BY <1>3, <1>4 DEF Fifo!vars

LEMMA NoMemoryStutters ==
  ASSUME IInv, Spacious, NEW len \in Length, EnqueueNoMemory(len)
  PROVE  UNCHANGED Fifo!vars
  <1>1. Oldest' = Oldest /\ Held' = Held /\ packet' = packet /\ pc' = pc
    BY DEF EnqueueNoMemory, ring, Oldest, Held, Removing
  <1>2. Delivering' = Delivering
    BY <1>1 DEF Delivering
  <1>3. queuebuf[writeIdx].ready = 0
    BY RoomForOne DEF EnqueueNoMemory, Accepts
  <1>4. \A i \in Slot : i # writeIdx => queuebuf'[i] = queuebuf[i]
    BY DEF EnqueueNoMemory, IInv, TypeOK
  <1> QED
    BY <1>1, <1>2, <1>3, <1>4, EnqueueNoMemoryInv, OthersStay

LEMMA SequenceIsFunction ==
  ASSUME NEW S, NEW s \in Seq(S), NEW n, Len(s) = n
  PROVE  s = [k \in 1..n |-> s[k]]
  OBVIOUS

(* The oldest packet leaves the queue when its slot is no longer ready.    *)
LEMMA DeleteReadyRemoves ==
  ASSUME IInv, DeleteReady
  PROVE  Fifo!Remove
  <1>1. readIdx \in Slot /\ writeIdx \in Slot /\ Held \in 0..(Size - 1) /\ Size \in Nat
    BY Places, QueueAssumption DEF IInv
  <1>2. /\ readIdx' = readIdx /\ writeIdx' = writeIdx /\ pc = "ready" /\ pc' = "len"
        /\ \A i \in Slot : i # readIdx => queuebuf'[i] = queuebuf[i]
    BY DEF DeleteReady, DeleteField, ring, IInv, TypeOK
  <1>3. Oldest = readIdx /\ Oldest' = NextIdx(readIdx) /\ readIdx # writeIdx
    <2>1. Oldest = readIdx /\ Oldest' = NextIdx(readIdx) /\ queuebuf[readIdx].ready = 1
      BY <1>2 DEF IInv, Room, Delivering, Oldest, Removing
    <2>2. Distance(readIdx, readIdx) < Distance(readIdx, writeIdx)
      BY <1>1, <2>1 DEF IInv, InRing, Held
    <2> QED
      BY <1>1, <2>1, <2>2, DistanceLeads
  <1>4. Held' = Held - 1 /\ Held >= 1
    <2>1. Held # 0
      BY <1>1, <1>3, DistanceLeads DEF Held
    <2>2. Held' = Held - 1
      BY <1>1, <1>2, <1>3, DistanceShrinks DEF Held
    <2> QED
      BY <1>1, <2>1, <2>2
  <1>5. \A k \in 1..(Held - 1) : Entry(k)' = Queued[k + 1]
    <2> SUFFICES ASSUME NEW k \in 1..(Held - 1) PROVE Entry(k)' = Queued[k + 1]
      OBVIOUS
    <2>1. k + 1 \in 1..Held /\ (k + 1) - 1 = k /\ k + 1 # 1
          /\ k \in 0..(Size - 1) /\ k \in 0..Size /\ k # 0
      BY <1>1
    <2>2. Wrap(NextIdx(readIdx), k - 1) = Wrap(readIdx, k)
      BY <1>1, <2>1, NextWraps, QueueAssumption DEF Wrap, Slot
    <2>3. Wrap(readIdx, k) \in Slot /\ Wrap(readIdx, k) # readIdx
      <3>1. Wrap(readIdx, k) \in Slot /\ Distance(readIdx, Wrap(readIdx, k)) = k
        BY <1>1, <2>1, DistanceLeads, WrapIsMod
      <3>2. Distance(readIdx, readIdx) = 0
        BY <1>1, DistanceLeads
      <3> QED
        BY <2>1, <3>1, <3>2
    <2>4. Entry(k + 1) = AsMessage(queuebuf[Wrap(readIdx, k)])
      BY <1>3, <2>1 DEF Entry
    <2>5. Entry(k)' = AsMessage(queuebuf'[Wrap(NextIdx(readIdx), k - 1)])
      BY <1>2, <1>3 DEF Entry, Delivering
    <2>6. Queued[k + 1] = Entry(k + 1)
      BY <2>1, QueuedIs DEF Form
    <2> QED
      BY <1>2, <2>2, <2>3, <2>4, <2>5, <2>6
  <1>6. Queued' = Tail(Queued)
    <2>1. Queued \in Seq(Shown) /\ Len(Queued) = Held /\ Queued # <<>>
      BY <1>1, <1>4, QueuedIs, EmptySeq
    <2>2. Form'
      BY DeleteReadyInv, FormKept, PTL
    <2>3. Queued' = [k \in 1..(Held - 1) |-> Queued[k + 1]]
      BY <1>4, <1>5, <2>2 DEF Form
    <2>4. Tail(Queued) = [k \in 1..(Held - 1) |-> Queued[k + 1]]
      <3>1. /\ Tail(Queued) \in Seq(Shown) /\ Len(Tail(Queued)) = Held - 1
            /\ \A k \in 1..(Held - 1) : Tail(Queued)[k] = Queued[k + 1]
        BY <2>1, HeadTailProperties
      <3>2. Tail(Queued) = [k \in 1..(Held - 1) |-> Tail(Queued)[k]]
        BY <3>1, SequenceIsFunction
      <3> QED
        BY <3>1, <3>2
    <2> QED
      BY <2>3, <2>4
  <1>7. Delivering /\ Delivering' = FALSE
    BY <1>2 DEF Delivering
  <1> QED
    BY <1>6, <1>7 DEF Fifo!Remove

LEMMA ReinitClears ==
  ASSUME IInv, Reinit
  PROVE  Fifo!Clear
  <1>1. Held' = 0
    BY DEF Reinit, Held, Oldest, Removing, Distance
  <1>2. Queued' = <<>>
    <2>1. (IInv => Len(Queued) = Held /\ Queued \in Seq(Shown))'
      BY QueuedIs, PTL
    <2> QED
      BY <1>1, <2>1, ReinitInv, EmptySeq
  <1>3. Delivering = FALSE /\ Delivering' = FALSE
    BY DEF Reinit, Delivering
  <1>4. Delivering' = Delivering
    BY <1>3
  <1> QED
    BY <1>2, <1>3, <1>4 DEF Fifo!Clear

LEMMA StepImplements ==
  ASSUME Spacious
  PROVE  IInv /\ [Next]_vars => [Fifo!Next]_(Fifo!vars)
  <1> SUFFICES ASSUME IInv, [Next]_vars PROVE [Fifo!Next]_(Fifo!vars)
    OBVIOUS
  <1>1. CASE Producer
    BY <1>1, EnqueueAccepts, NoMemoryStutters DEF Producer
  <1>2. CASE Consumer
    BY <1>2, PollDelivers, DeleteDataStutters, DeleteReadyRemoves, ClearStutters,
       AdvanceStutters DEF Consumer, Fifo!Next
  <1>3. CASE Reinit
    BY <1>3, ReinitClears DEF Fifo!Next
  <1>4. CASE UNCHANGED vars
    <2>1. UNCHANGED <<Queued, Delivering>>
      BY <1>4 DEF vars, ring, Queued, Ready, Delivering, Oldest, Removing
    <2> QED
      BY <2>1 DEF Fifo!vars
  <1> QED
    BY <1>1, <1>2, <1>3, <1>4 DEF Next

(* MQEnqueue and PacketPoll, however their steps fall, are the two ends of *)
(* a bounded first-in first-out queue.                                     *)
THEOREM Refinement ==
  ASSUME Spacious
  PROVE  Spec => ImplementsQueue
  BY Spacious, InitEmpty, StepImplements, Invariance, PTL
     DEF Spec, ImplementsQueue, Fifo!Spec
=============================================================================
