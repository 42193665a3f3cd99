----------------------------- MODULE LwrbProofs -----------------------------
(***************************************************************************)
(* Proofs about the ring buffer for every memory size and every set of     *)
(* bytes: the type invariant, the separation of the two sides, and that    *)
(* the buffer implements the bounded FIFO.                                 *)
(***************************************************************************)
EXTENDS Lwrb, SequenceTheorems, TLAPS

(***************************************************************************)
(* The index arithmetic of lwrb.c.                                         *)
(***************************************************************************)

(* Advancing an index of the memory by at most its size stays inside it.   *)
LEMMA WrapAddSlot ==
  ASSUME NEW i \in Slot, NEW n \in 0..Size
  PROVE  WrapAdd(i, n) \in Slot
  BY SizeAssumption DEF Slot, WrapAdd

(* The free space is what the stored bytes leave, less the one slot that   *)
(* tells a full buffer from an empty one.                                  *)
LEMMA FullFree ==
  ASSUME NEW ri \in Slot, NEW wi \in Slot
  PROVE  /\ Full(ri, wi) \in Slot
         /\ Free(ri, wi) \in Slot
         /\ Full(ri, wi) + Free(ri, wi) = Size - 1
  BY SizeAssumption DEF Slot, Full, Free

(* Storing n bytes adds n to the full size; taking n bytes subtracts n.    *)
LEMMA FullAfterStore ==
  ASSUME NEW ri \in Slot, NEW wi \in Slot, NEW n \in 0..Free(ri, wi)
  PROVE  Full(ri, WrapAdd(wi, n)) = Full(ri, wi) + n
  BY SizeAssumption DEF Slot, Full, Free, WrapAdd

(* Taking n bytes subtracts n from the full size.                          *)
LEMMA FullAfterTake ==
  ASSUME NEW ri \in Slot, NEW wi \in Slot, NEW n \in 0..Full(ri, wi)
  PROVE  Full(WrapAdd(ri, n), wi) = Full(ri, wi) - n
  BY SizeAssumption DEF Slot, Full, WrapAdd

(* Fewer than Size successive slots are different slots.                   *)
LEMMA WrapAddInjective ==
  ASSUME NEW i \in Slot, NEW a \in Slot, NEW b \in Slot,
         WrapAdd(i, a) = WrapAdd(i, b)
  PROVE  a = b
  BY SizeAssumption DEF Slot, WrapAdd

(* Going on from a slot already advanced.                                  *)
LEMMA WrapAddAdd ==
  ASSUME NEW i \in Slot, NEW a \in Nat, NEW b \in Nat, a + b < Size
  PROVE  WrapAdd(WrapAdd(i, a), b) = WrapAdd(i, a + b)
  BY SizeAssumption DEF Slot, WrapAdd

(* The free slots start where the stored bytes end.                        *)
LEMMA FreeFollowsFull ==
  ASSUME NEW ri \in Slot, NEW wi \in Slot, NEW i \in 0..Free(ri, wi)
  PROVE  WrapAdd(ri, Full(ri, wi) + i) = WrapAdd(wi, i)
  BY SizeAssumption DEF Slot, Full, Free, WrapAdd

(* A free slot holds no stored byte.                                       *)
LEMMA FreeNotUnread ==
  ASSUME NEW ri \in Slot, NEW wi \in Slot,
         NEW i \in Nat, i < Free(ri, wi), NEW j \in Nat, j < Full(ri, wi)
  PROVE  WrapAdd(wi, i) # WrapAdd(ri, j)
  BY SizeAssumption DEF Slot, Full, Free, WrapAdd

(* A chunk is a sequence of bytes that fits in the buffer.                 *)
LEMMA ChunkIsSeq ==
  \A c : c \in Chunk <=> c \in Seq(Byte) /\ Len(c) =< Size - 1
<1>1. ASSUME NEW c \in Chunk PROVE c \in Seq(Byte) /\ Len(c) =< Size - 1
  <2>1. PICK n \in 0..(Size - 1) : c \in [1..n -> Byte]
    BY DEF Chunk
  <2>2. n \in Nat
    BY <2>1, SizeAssumption
  <2>3. c \in Seq(Byte)
    BY <2>1, <2>2, SeqDef
  <2>4. Len(c) = n
    BY <2>1, <2>2, <2>3, LenProperties
  <2> QED BY <2>1, <2>3, <2>4, SizeAssumption
<1>2. ASSUME NEW c \in Seq(Byte), Len(c) =< Size - 1 PROVE c \in Chunk
  <2>1. c \in [1..Len(c) -> Byte] /\ Len(c) \in 0..(Size - 1)
    BY <1>2, LenProperties, SizeAssumption
  <2> QED BY <2>1 DEF Chunk
<1> QED BY <1>1, <1>2

(* The head of a chunk is a chunk. *)
LEMMA ChunkPrefix ==
  ASSUME NEW c \in Chunk, NEW n \in 0..Len(c)
  PROVE  /\ SubSeq(c, 1, n) \in Chunk
         /\ Len(SubSeq(c, 1, n)) = n
         /\ \A i \in 1..n : SubSeq(c, 1, n)[i] = c[i]
<1>1. c \in Seq(Byte) /\ Len(c) =< Size - 1 /\ Len(c) \in Nat
  BY ChunkIsSeq, LenProperties
<1>2. /\ SubSeq(c, 1, n) \in Seq(Byte)
      /\ Len(SubSeq(c, 1, n)) = n
      /\ \A i \in 1..n : SubSeq(c, 1, n)[i] = c[i]
  <2>1. \A i \in 1..n : c[i] \in Byte
    BY <1>1, ElementOfSeq
  <2> QED BY <1>1, <2>1
<1>3. SubSeq(c, 1, n) \in Seq(Byte) /\ Len(SubSeq(c, 1, n)) =< Size - 1
  BY <1>1, <1>2, SizeAssumption
<1>4. SubSeq(c, 1, n) \in Chunk
  BY <1>3, ChunkIsSeq
<1> QED BY <1>2, <1>4

-----------------------------------------------------------------------------
(***************************************************************************)
(* The inductive invariant.                                                *)
(***************************************************************************)

(* Each side has claimed no more than the other side's index lets it have, *)
(* whatever the index is by now.                                           *)
Claims == Len(wdata) =< Free(r, w) /\ roff + rlen =< Full(r, w)

(* The locals of a call, by the point it has reached. *)
WriteLocals ==
  /\ wop = "idle" => wdata = <<>> /\ wdone = 0
  /\ wop = "linear" => w + Len(wdata) =< Size
  /\ wop = "advance" => wdone = Len(wdata)
  /\ wop # "idle" => wdata # <<>>
ReadLocals ==
  /\ Len(rgot) =< rlen
  /\ rop = "idle" => roff = 0 /\ rlen = 0
  /\ rop # "peek" => roff = 0
  /\ rop = "linear" => r + rlen =< Size
  /\ rop = "skip" => Len(rgot) \in {0, rlen}
  /\ rop \in {"read", "peek", "linear"} => rlen > 0

(* What has been copied so far is what should have been. *)
Written == \A i \in 1..wdone : buff[WrapAdd(w, i - 1)] = wdata[i]
Got == \A i \in 1..Len(rgot) : rgot[i] = buff[WrapAdd(r, roff + (i - 1))]

IInv ==
  /\ TypeOK /\ Claims /\ WriteLocals /\ ReadLocals /\ Written /\ Got
  /\ ~valid => Quiescent

-----------------------------------------------------------------------------
(***************************************************************************)
(* It holds initially and every step preserves it.                         *)
(***************************************************************************)

(* The empty sequence is a chunk: what a read that has not begun holds.    *)
LEMMA EmptyChunk == <<>> \in Chunk /\ Len(<<>>) = 0
<1>1. <<>> \in Seq(Byte) /\ Len(<<>>) =< Size - 1
  BY SizeAssumption
<1> QED BY <1>1, ChunkIsSeq

(* The buffer that lwrb_init leaves satisfies the inductive invariant.     *)
LEMMA InitInv == Init => IInv
<1> SUFFICES ASSUME Init PROVE IInv
  OBVIOUS
<1> USE DEF Init
<1>1. r \in Slot /\ w \in Slot /\ 0 \in Slot
  BY SizeAssumption DEF Slot
<1>2. TypeOK
  BY <1>1, EmptyChunk DEF TypeOK
<1>3. Claims
  BY <1>1, EmptyChunk, FullFree DEF Claims, Slot
<1>4. WriteLocals /\ ReadLocals /\ Written /\ Got
  BY EmptyChunk DEF WriteLocals, ReadLocals, Written, Got
<1> QED BY <1>2, <1>3, <1>4 DEF IInv, Quiescent

(* What a call may claim when it starts. *)
LEMMA LinearLengths ==
  ASSUME NEW ri \in Slot, NEW wi \in Slot
  PROVE  /\ LinearReadLength(ri, wi) \in Nat
         /\ LinearWriteLength(ri, wi) \in Nat
         /\ LinearReadLength(ri, wi) =< Full(ri, wi)
         /\ ri + LinearReadLength(ri, wi) =< Size
         /\ LinearWriteLength(ri, wi) =< Free(ri, wi)
         /\ wi + LinearWriteLength(ri, wi) =< Size
  BY SizeAssumption
  DEF Slot, LinearReadLength, LinearWriteLength, Full, Free

(* A chunk has as many bytes as its length says, all of them bytes.        *)
LEMMA ChunkLen ==
  ASSUME NEW c \in Chunk
  PROVE  Len(c) \in Slot /\ \A i \in 1..Len(c) : c[i] \in Byte
<1>1. c \in Seq(Byte) /\ Len(c) =< Size - 1
  BY ChunkIsSeq
<1>2. Len(c) \in Nat
  BY <1>1, LenProperties
<1> QED BY <1>1, <1>2, ElementOfSeq, SizeAssumption DEF Slot

(* lwrb_write keeps the invariant when it reads the indices and claims     *)
(* free slots.                                                             *)
LEMMA WriteLoadInv == ASSUME IInv, NEW d \in Chunk, WriteLoad(d) PROVE IInv'
<1> DEFINE n == Min2(Free(r, w), Len(d))
<1>1. /\ d # <<>> /\ Free(r, w) > 0 /\ valid
      /\ wop = "idle" /\ wop' = "write" /\ wdata' = SubSeq(d, 1, n)
      /\ UNCHANGED <<buff, r, w, valid, wdone, rvars, accepted, delivered>>
  BY DEF WriteLoad
<1> TypeOK /\ r \in Slot /\ w \in Slot /\ wdone = 0
  BY <1>1 DEF IInv, TypeOK, WriteLocals
<1>2. Free(r, w) \in Slot /\ Len(d) \in Slot
  BY FullFree, ChunkLen
<1>3. n \in 0..Len(d) /\ n =< Free(r, w) /\ n \in Slot
  BY <1>2, SizeAssumption DEF Min2, Slot
<1>4. wdata' \in Chunk /\ Len(wdata') = n
  BY <1>1, <1>3, ChunkPrefix
<1>5. Len(d) # 0
  BY <1>1, ChunkIsSeq, EmptySeq
<1>6. n > 0
  BY <1>1, <1>2, <1>5 DEF Min2, Slot
<1>7. wdata' # <<>>
  BY <1>4, <1>6, EmptyChunk
<1>8. TypeOK'
  BY <1>1, <1>3, <1>4 DEF TypeOK, rvars, Slot
<1>9. Claims'
  BY <1>1, <1>3, <1>4 DEF Claims, IInv, rvars
<1>10. WriteLocals' /\ Written'
  BY <1>1, <1>7 DEF WriteLocals, Written
<1>11. ReadLocals' /\ Got' /\ valid'
  BY <1>1 DEF IInv, ReadLocals, Got, rvars
<1> QED BY <1>8, <1>9, <1>10, <1>11 DEF IInv

(* So does asking for a linear block to write to.                          *)
LEMMA LinearWriteLoadInv ==
  ASSUME IInv, NEW d \in Chunk, LinearWriteLoad(d) PROVE IInv'
<1>1. /\ Len(d) \in 1..LinearWriteLength(r, w) /\ valid
      /\ wop = "idle" /\ wop' = "linear" /\ wdata' = d
      /\ UNCHANGED <<buff, r, w, valid, wdone, rvars, accepted, delivered>>
  BY DEF LinearWriteLoad
<1> TypeOK /\ r \in Slot /\ w \in Slot /\ wdone = 0
  BY <1>1 DEF IInv, TypeOK, WriteLocals
<1>2. Len(d) =< Free(r, w) /\ w + Len(d) =< Size
  <2>1. Free(r, w) \in Nat /\ Size \in Nat /\ w \in Nat
    BY FullFree, SizeAssumption DEF Slot
  <2>2. /\ LinearWriteLength(r, w) \in Nat
        /\ LinearWriteLength(r, w) =< Free(r, w)
        /\ w + LinearWriteLength(r, w) =< Size
    BY LinearLengths
  <2> QED BY <1>1, <2>1, <2>2
<1>3. d # <<>>
  BY <1>1, EmptyChunk
<1>4. TypeOK'
  BY <1>1 DEF TypeOK, rvars
<1>5. Claims'
  BY <1>1, <1>2 DEF Claims, IInv, rvars
<1>6. WriteLocals' /\ Written'
  BY <1>1, <1>2, <1>3 DEF WriteLocals, Written
<1>7. ReadLocals' /\ Got' /\ valid'
  BY <1>1 DEF IInv, ReadLocals, Got, rvars
<1> QED BY <1>4, <1>5, <1>6, <1>7 DEF IInv

(* The slot a write in progress stores its next byte in. *)
LEMMA WriteSlotIs ==
  ASSUME IInv, wop \in {"write", "linear"}, wdone < Len(wdata)
  PROVE  /\ WriteSlot = WrapAdd(w, wdone)
         /\ WriteSlot \in Slot
         /\ wdone \in Nat /\ wdone < Free(r, w)
<1>1. /\ r \in Slot /\ w \in Slot /\ wdata \in Chunk /\ wdone \in 0..Len(wdata)
      /\ Len(wdata) =< Free(r, w)
      /\ wop = "linear" => w + Len(wdata) =< Size
  BY DEF IInv, TypeOK, Claims, WriteLocals
<1>2. Len(wdata) \in Slot /\ Free(r, w) \in Slot
  BY <1>1, ChunkLen, FullFree
<1>3. wdone \in Nat /\ wdone < Free(r, w) /\ wdone \in 0..Size
  BY <1>1, <1>2, SizeAssumption DEF Slot
<1>4. WriteSlot = WrapAdd(w, wdone)
  BY <1>1, <1>2, <1>3, SizeAssumption DEF WriteSlot, WrapAdd, Slot
<1> QED BY <1>1, <1>3, <1>4, WrapAddSlot

(* Copying a byte into a claimed slot keeps the invariant: the slot is     *)
(* free, so that no unread byte changes.                                   *)
LEMMA WriteByteInv == ASSUME IInv, WriteByte PROVE IInv'
<1>1. /\ wop \in {"write", "linear"} /\ wdone < Len(wdata)
      /\ buff' = [buff EXCEPT ![WriteSlot] = wdata[wdone + 1]]
      /\ wdone' = wdone + 1
      /\ UNCHANGED <<r, w, valid, wop, wdata, rvars, accepted, delivered>>
  BY DEF WriteByte
<1>2. /\ TypeOK /\ Claims /\ WriteLocals /\ ReadLocals /\ Written /\ Got
      /\ ~valid => Quiescent
  BY DEF IInv
<1>3. /\ buff \in [Slot -> Byte] /\ r \in Slot /\ w \in Slot
      /\ wdata \in Chunk /\ wdone \in 0..Len(wdata) /\ rgot \in Chunk
      /\ roff \in Slot /\ rlen \in Slot
  BY <1>2 DEF TypeOK
<1>4. /\ WriteSlot = WrapAdd(w, wdone) /\ WriteSlot \in Slot
      /\ wdone \in Nat /\ wdone < Free(r, w)
  BY <1>1, WriteSlotIs
<1>5. Len(wdata) \in Slot /\ Len(rgot) \in Slot /\ Free(r, w) \in Slot
      /\ Full(r, w) \in Slot /\ Full(r, w) + Free(r, w) = Size - 1
  BY <1>3, ChunkLen, FullFree
<1>6. wdata[wdone + 1] \in Byte
  <2>1. wdone + 1 \in 1..Len(wdata)
    BY <1>1, <1>3, <1>5 DEF Slot
  <2> QED BY <2>1, <1>3, ChunkLen
<1>7. TypeOK'
  BY <1>1, <1>2, <1>3, <1>4, <1>5, <1>6 DEF TypeOK, rvars, Slot
<1>8. Claims'
  BY <1>1, <1>2 DEF Claims, rvars
<1>9. WriteLocals' /\ ReadLocals' /\ (~valid => Quiescent)'
  BY <1>1, <1>2 DEF WriteLocals, ReadLocals, rvars, Quiescent
<1>10. Written'
  <2> SUFFICES ASSUME NEW i \in 1..(wdone + 1)
               PROVE  buff'[WrapAdd(w, i - 1)] = wdata[i]
    BY <1>1 DEF Written, WrapAdd
  <2>1. i - 1 \in Slot /\ wdone \in Slot /\ i - 1 \in 0..Size
    BY <1>1, <1>4, <1>5, SizeAssumption DEF Slot
  <2>2. WrapAdd(w, i - 1) \in Slot
    BY <2>1, <1>3, WrapAddSlot
  <2>3. CASE i = wdone + 1
    BY <2>2, <2>3, <1>1, <1>3, <1>4
  <2>4. CASE i # wdone + 1
    <3>1. i \in 1..wdone /\ i - 1 # wdone
      BY <2>4, <1>4
    <3>2. WrapAdd(w, i - 1) # WriteSlot
      BY <3>1, <2>1, <1>3, <1>4, WrapAddInjective
    <3> QED BY <3>1, <3>2, <2>2, <1>1, <1>2, <1>3 DEF Written
  <2> QED BY <2>3, <2>4
<1>11. Got'
  <2> SUFFICES ASSUME NEW i \in 1..Len(rgot)
               PROVE  rgot[i] = buff'[WrapAdd(r, roff + (i - 1))]
    BY <1>1 DEF Got, WrapAdd, rvars
  <2>1. roff + (i - 1) \in Nat /\ roff + (i - 1) < Full(r, w)
    BY <1>2, <1>3, <1>5 DEF Claims, ReadLocals, Slot
  <2>2. WrapAdd(w, wdone) # WrapAdd(r, roff + (i - 1))
    BY <2>1, <1>3, <1>4, FreeNotUnread
  <2>3. roff + (i - 1) \in 0..Size
    BY <2>1, <1>5, SizeAssumption DEF Slot
  <2>4. WrapAdd(r, roff + (i - 1)) \in Slot
    BY <2>3, <1>3, WrapAddSlot
  <2> QED BY <2>2, <2>4, <1>1, <1>2, <1>3, <1>4 DEF Got
<1> QED BY <1>7, <1>8, <1>9, <1>10, <1>11 DEF IInv

(* lwrb_advance keeps the invariant when it reads the indices, and does    *)
(* not clip what it was given.                                             *)
LEMMA AdvanceLoadInv == ASSUME IInv, AdvanceLoad PROVE IInv' /\ wdata' = wdata
<1>1. /\ wop = "linear" /\ wop' = "advance" /\ wdone = Len(wdata)
      /\ wdata' = SubSeq(wdata, 1, Min2(Len(wdata), Free(r, w)))
      /\ UNCHANGED <<buff, r, w, valid, wdone, rvars, accepted, delivered>>
  BY DEF AdvanceLoad
<1>2. wdata \in Chunk /\ Len(wdata) =< Free(r, w) /\ r \in Slot /\ w \in Slot
  BY DEF IInv, TypeOK, Claims
<1>3. wdata' = wdata
  <2>1. Len(wdata) \in Slot /\ Free(r, w) \in Slot
    BY <1>2, ChunkLen, FullFree
  <2>2. Min2(Len(wdata), Free(r, w)) = Len(wdata)
    BY <1>2, <2>1 DEF Min2, Slot
  <2> QED BY <1>1, <1>2, <2>2, ChunkIsSeq, SubSeqFull
<1>4. TypeOK' /\ Claims' /\ WriteLocals' /\ ReadLocals'
  BY <1>1, <1>3
  DEF IInv, TypeOK, Claims, WriteLocals, ReadLocals, rvars
<1>5. Written' /\ Got' /\ (~valid => Quiescent)'
  BY <1>1, <1>3 DEF IInv, Written, Got, rvars, Quiescent
<1> QED BY <1>3, <1>4, <1>5 DEF IInv

(* Publishing the written bytes by storing w keeps the invariant.          *)
LEMMA WriteStoreInv ==
  ASSUME IInv, WriteStore
  PROVE  /\ IInv'
         /\ wdone = Len(wdata) /\ wdata # <<>> /\ valid
         /\ Full(r, w') = Full(r, w) + Len(wdata)
<1>1. /\ w' = WrapAdd(w, Len(wdata))
      /\ accepted' = wdata
      /\ wop' = "idle" /\ wdata' = <<>> /\ wdone' = 0
      /\ UNCHANGED <<buff, r, valid, rvars, delivered>>
  BY DEF WriteStore
<1>2. wop # "idle" /\ wdone = Len(wdata) /\ wdata # <<>> /\ valid
  BY DEF IInv, WriteLocals, WriteStore, Quiescent
<1>3. /\ r \in Slot /\ w \in Slot /\ wdata \in Chunk /\ Len(wdata) =< Free(r, w)
      /\ rlen \in Slot /\ roff \in Slot /\ roff + rlen =< Full(r, w)
  BY DEF IInv, TypeOK, Claims
<1>4. /\ Len(wdata) \in 0..Free(r, w) /\ Len(wdata) \in 0..Size
      /\ Full(r, w) \in Nat /\ Len(wdata) \in Nat
  BY <1>3, ChunkLen, FullFree, SizeAssumption DEF Slot
<1>5. w' \in Slot /\ Full(r, w') = Full(r, w) + Len(wdata)
  BY <1>1, <1>3, <1>4, WrapAddSlot, FullAfterStore
<1>6. TypeOK'
  BY <1>1, <1>3, <1>5, EmptyChunk DEF TypeOK, IInv, rvars
<1>7. Claims'
  <2>1. Free(r', w') \in Nat
    BY <1>1, <1>3, <1>5, FullFree DEF Slot
  <2>2. roff + rlen =< Full(r, w')
    BY <1>3, <1>4, <1>5 DEF Slot
  <2> QED BY <1>1, <2>1, <2>2, EmptyChunk DEF Claims, rvars
<1>8. WriteLocals' /\ ReadLocals' /\ Written' /\ Got' /\ valid'
  BY <1>1, <1>2
  DEF IInv, WriteLocals, ReadLocals, Written, Got, rvars, WrapAdd
<1> QED BY <1>1, <1>2, <1>5, <1>6, <1>7, <1>8 DEF IInv

(* A call of the reader that claims no more than is stored keeps the       *)
(* invariant.                                                              *)
LEMMA BeginReadInv ==
  ASSUME IInv, NEW op \in {"read", "peek", "linear", "skip"},
         NEW s \in Nat, NEW n \in Nat, BeginRead(op, s, n),
         s + n =< Full(r, w), op # "peek" => s = 0, op # "skip" => n > 0,
         op = "linear" => r + n =< Size
  PROVE  IInv'
<1>1. /\ valid /\ rop = "idle" /\ rop' = op /\ roff' = s /\ rlen' = n
      /\ UNCHANGED <<buff, r, w, valid, wvars, rgot, accepted, delivered>>
  BY DEF BeginRead
<1>2. r \in Slot /\ w \in Slot /\ rgot \in Chunk /\ Full(r, w) \in Slot
  BY FullFree DEF IInv, TypeOK
<1>3. Len(rgot) = 0 /\ rgot = <<>>
  <2>1. Len(rgot) \in Nat /\ Len(rgot) =< 0
    BY <1>1, <1>2, ChunkLen DEF IInv, ReadLocals, Slot
  <2> QED BY <2>1, <1>2, ChunkIsSeq, EmptySeq
<1>4. s \in Slot /\ n \in Slot
  BY <1>2, SizeAssumption DEF Slot
<1>5. TypeOK'
  BY <1>1, <1>4 DEF IInv, TypeOK, wvars
<1>6. Claims' /\ WriteLocals' /\ Written'
  BY <1>1 DEF IInv, Claims, WriteLocals, Written, wvars
<1>7. ReadLocals' /\ Got'
  BY <1>1, <1>3 DEF ReadLocals, Got
<1> QED BY <1>1, <1>5, <1>6, <1>7 DEF IInv

(* lwrb_read, lwrb_skip and the linear block of the reader claim no more   *)
(* than is stored.                                                         *)
LEMMA ReadLoadInv ==
  ASSUME IInv, NEW k \in 1..Size,
         ReadLoad(k) \/ LinearReadLoad(k) \/ SkipLoad(k)
  PROVE  IInv'
<1>0. r \in Slot /\ w \in Slot
  BY DEF IInv, TypeOK
<1>1. Full(r, w) \in Nat /\ k \in Nat /\ k > 0
  BY <1>0, FullFree, SizeAssumption DEF Slot
<1>2. CASE ReadLoad(k)
  <2>1. Min2(Full(r, w), k) \in Nat /\ Min2(Full(r, w), k) > 0
        /\ 0 + Min2(Full(r, w), k) =< Full(r, w)
    BY <1>1, <1>2 DEF Min2, ReadLoad
  <2> QED BY <2>1, <1>2, BeginReadInv DEF ReadLoad
<1>3. CASE LinearReadLoad(k)
  <2>1. 0 + k =< Full(r, w) /\ r + k =< Size
    <3>1. k =< LinearReadLength(r, w) /\ r \in Nat /\ Size \in Nat
      BY <1>0, <1>3, SizeAssumption DEF LinearReadLoad, Slot
    <3>2. /\ LinearReadLength(r, w) \in Nat
          /\ LinearReadLength(r, w) =< Full(r, w)
          /\ r + LinearReadLength(r, w) =< Size
      BY <1>0, LinearLengths
    <3> QED BY <3>1, <3>2, <1>1
  <2> QED BY <1>1, <2>1, <1>3, BeginReadInv DEF LinearReadLoad
<1>4. CASE SkipLoad(k)
  <2>1. Min2(k, Full(r, w)) \in Nat /\ 0 + Min2(k, Full(r, w)) =< Full(r, w)
    BY <1>1 DEF Min2
  <2> QED BY <2>1, <1>4, BeginReadInv DEF SkipLoad
<1> QED BY <1>2, <1>3, <1>4

(* lwrb_peek claims no more than is stored behind the bytes it skips.      *)
LEMMA PeekLoadInv ==
  ASSUME IInv, NEW s \in 0..Size, NEW k \in 1..Size, PeekLoad(s, k)
  PROVE  IInv'
<1>1. r \in Slot /\ w \in Slot /\ Full(r, w) \in Nat
  BY FullFree DEF IInv, TypeOK, Slot
<1>2. s \in Nat /\ k \in Nat /\ k > 0 /\ s < Full(r, w)
  BY SizeAssumption DEF PeekLoad
<1>3. /\ Min2(Full(r, w) - s, k) \in Nat /\ Min2(Full(r, w) - s, k) > 0
      /\ s + Min2(Full(r, w) - s, k) =< Full(r, w)
  BY <1>1, <1>2 DEF Min2
<1> QED BY <1>2, <1>3, BeginReadInv DEF PeekLoad

(* The slot a read in progress takes its next byte from. *)
LEMMA ReadSlotIs ==
  ASSUME IInv, rop \in {"read", "peek", "linear"}, Len(rgot) < rlen
  PROVE  /\ ReadSlot = WrapAdd(r, roff + Len(rgot))
         /\ ReadSlot \in Slot
<1>1. /\ r \in Slot /\ w \in Slot /\ roff \in Slot /\ rlen \in Slot /\ rgot \in Chunk
      /\ roff + rlen =< Full(r, w)
      /\ rop = "linear" => r + rlen =< Size /\ roff = 0
  BY DEF IInv, TypeOK, Claims, ReadLocals
<1>2. Len(rgot) \in Nat /\ Full(r, w) \in Slot
  BY <1>1, ChunkLen, FullFree DEF Slot
<1>3. roff + Len(rgot) \in 0..Size
  BY <1>1, <1>2, SizeAssumption DEF Slot
<1>4. ReadSlot = WrapAdd(r, roff + Len(rgot))
  BY <1>1, <1>2, SizeAssumption DEF ReadSlot, WrapAdd, Slot
<1> QED BY <1>1, <1>3, <1>4, WrapAddSlot

(* Copying out a claimed byte keeps the invariant.                         *)
LEMMA ReadByteInv == ASSUME IInv, ReadByte PROVE IInv'
<1>1. /\ rop \in {"read", "peek", "linear"} /\ Len(rgot) < rlen
      /\ rgot' = Append(rgot, buff[ReadSlot])
      /\ UNCHANGED <<buff, r, w, valid, wvars, rop, roff, rlen, accepted, delivered>>
  BY DEF ReadByte
<1>2. /\ buff \in [Slot -> Byte] /\ rlen \in Slot /\ rgot \in Chunk /\ Got /\ valid
      /\ TypeOK /\ ReadLocals
  BY <1>1 DEF IInv, TypeOK, Quiescent
<1>3. ReadSlot = WrapAdd(r, roff + Len(rgot)) /\ buff[ReadSlot] \in Byte
  BY <1>1, <1>2, ReadSlotIs
<1>4. rgot \in Seq(Byte) /\ Len(rgot) \in Slot
  BY <1>2, ChunkIsSeq, ChunkLen
<1>5. /\ rgot' \in Seq(Byte) /\ Len(rgot') = Len(rgot) + 1
      /\ rgot'[Len(rgot) + 1] = buff[ReadSlot]
      /\ \A i \in 1..Len(rgot) : rgot'[i] = rgot[i]
  BY <1>1, <1>3, <1>4, AppendProperties
<1>6. Len(rgot') \in Nat /\ Len(rgot') =< rlen /\ Len(rgot') =< Size - 1
  BY <1>1, <1>2, <1>4, <1>5, SizeAssumption DEF Slot
<1>7. TypeOK'
  BY <1>1, <1>2, <1>5, <1>6, ChunkIsSeq DEF TypeOK, wvars
<1>8. Claims' /\ WriteLocals' /\ Written'
  BY <1>1 DEF IInv, Claims, WriteLocals, Written, wvars
<1>9. ReadLocals'
  BY <1>1, <1>2, <1>6 DEF ReadLocals
<1>10. Got'
  <2> SUFFICES ASSUME NEW i \in 1..(Len(rgot) + 1)
               PROVE  rgot'[i] = buff[WrapAdd(r, roff + (i - 1))]
    BY <1>1, <1>5 DEF Got, WrapAdd
  <2>1. CASE i = Len(rgot) + 1
    <3>1. i - 1 = Len(rgot)
      BY <2>1, <1>4 DEF Slot
    <3> QED BY <2>1, <3>1, <1>3, <1>5
  <2>2. CASE i # Len(rgot) + 1
    <3>1. i \in 1..Len(rgot)
      BY <2>2, <1>4 DEF Slot
    <3> QED BY <3>1, <1>2, <1>5 DEF Got
  <2> QED BY <2>1, <2>2
<1> QED BY <1>1, <1>2, <1>7, <1>8, <1>9, <1>10 DEF IInv

(* lwrb_skip after reading in place keeps the invariant and does not clip  *)
(* its length.                                                             *)
LEMMA LinearSkipLoadInv == ASSUME IInv, LinearSkipLoad PROVE IInv' /\ rlen' = rlen
<1>1. /\ rop = "linear" /\ Len(rgot) = rlen
      /\ rop' = "skip" /\ rlen' = Min2(rlen, Full(r, w))
      /\ UNCHANGED <<buff, r, w, valid, wvars, roff, rgot, accepted, delivered>>
  BY DEF LinearSkipLoad
<1>2. /\ r \in Slot /\ w \in Slot /\ rlen \in Slot /\ roff = 0 /\ roff + rlen =< Full(r, w)
  BY <1>1 DEF IInv, TypeOK, Claims, ReadLocals
<1>3. rlen' = rlen
  BY <1>1, <1>2, FullFree DEF Min2, Slot
<1>4. TypeOK' /\ Claims' /\ WriteLocals' /\ Written'
  BY <1>1, <1>3 DEF IInv, TypeOK, Claims, WriteLocals, Written, wvars
<1>5. ReadLocals' /\ Got' /\ (~valid => Quiescent)'
  BY <1>1, <1>2, <1>3 DEF IInv, ReadLocals, Got, Quiescent
<1> QED BY <1>3, <1>4, <1>5 DEF IInv

(* A call of the reader that ends by moving r over what it claimed keeps   *)
(* the invariant.                                                          *)
LEMMA EndReadInv ==
  ASSUME IInv, rop # "idle", EndRead, NEW n \in 0..rlen,
         r' = WrapAdd(r, n)
  PROVE  IInv' /\ valid /\ Full(r', w) = Full(r, w) - n
<1>1. /\ rop' = "idle" /\ roff' = 0 /\ rlen' = 0 /\ rgot' = <<>>
      /\ delivered' = IF rgot = <<>> THEN delivered ELSE rgot
      /\ UNCHANGED <<buff, w, valid, wvars, accepted>>
  BY DEF EndRead
<1>2. /\ r \in Slot /\ w \in Slot /\ wdata \in Chunk /\ Len(wdata) =< Free(r, w)
      /\ rlen \in Slot /\ roff \in Slot /\ roff + rlen =< Full(r, w)
      /\ rgot \in Chunk /\ delivered \in Chunk /\ valid
  BY DEF IInv, TypeOK, Claims, Quiescent
<1>3. Full(r, w) \in Nat /\ Free(r, w) \in Nat /\ Full(r, w) + Free(r, w) = Size - 1
  BY <1>2, FullFree DEF Slot
<1>4. n \in 0..Full(r, w) /\ n \in 0..Size
  BY <1>2, <1>3, SizeAssumption DEF Slot
<1>5. r' \in Slot /\ Full(r', w) = Full(r, w) - n
  BY <1>2, <1>4, WrapAddSlot, FullAfterTake
<1>6. Full(r', w) \in Nat /\ Free(r', w) \in Nat /\ Full(r', w) + Free(r', w) = Size - 1
  BY <1>2, <1>5, FullFree DEF Slot
<1>7. TypeOK'
  BY <1>1, <1>2, <1>5, EmptyChunk, SizeAssumption DEF IInv, TypeOK, wvars, Slot
<1>8. Claims'
  <2>1. Len(wdata) \in Nat
    BY <1>2, ChunkLen DEF Slot
  <2>2. Len(wdata) =< Free(r', w)
    BY <2>1, <1>2, <1>3, <1>4, <1>5, <1>6, SizeAssumption
  <2> QED BY <1>1, <1>6, <2>2 DEF Claims, wvars
<1>9. WriteLocals' /\ Written'
  BY <1>1 DEF IInv, WriteLocals, Written, WrapAdd, wvars
<1>10. ReadLocals' /\ Got'
  BY <1>1, EmptyChunk DEF ReadLocals, Got
<1> QED BY <1>1, <1>2, <1>5, <1>7, <1>8, <1>9, <1>10 DEF IInv

(* lwrb_read and lwrb_skip end so, moving r over all of it.                *)
LEMMA ReadStoreInv ==
  ASSUME IInv, ReadStore
  PROVE  IInv' /\ valid /\ Full(r', w) = Full(r, w) - rlen
<1>1. rlen \in 0..rlen /\ rop # "idle" /\ r' = WrapAdd(r, rlen) /\ EndRead
  BY DEF ReadStore, IInv, TypeOK, Slot
<1> QED BY <1>1, EndReadInv

(* lwrb_peek ends without moving r.                                        *)
LEMMA PeekReturnInv == ASSUME IInv, PeekReturn PROVE IInv'
<1>1. rop = "peek" /\ r' = r /\ EndRead /\ rlen \in Slot /\ r \in Slot
  BY DEF PeekReturn, IInv, TypeOK
<1>2. 0 \in 0..rlen /\ r' = WrapAdd(r, 0)
  BY <1>1, SizeAssumption DEF WrapAdd, Slot
<1> QED BY <1>1, <1>2, EndReadInv

(* lwrb_init, lwrb_reset and lwrb_free keep the invariant when no call is  *)
(* in progress.                                                            *)
LEMMA HandleInv ==
  ASSUME IInv, Reset \/ FreeHandle \/ InitHandle PROVE IInv'
<1>1. /\ wop = "idle" /\ rop = "idle" /\ UNCHANGED <<buff, wvars, rvars, accepted, delivered>>
      /\ valid' \in BOOLEAN
      /\ (r' = 0 /\ w' = 0) \/ UNCHANGED <<r, w>>
  BY DEF Reset, FreeHandle, InitHandle, Quiescent, IInv, TypeOK
<1>2. /\ wdata = <<>> /\ wdone = 0 /\ roff = 0 /\ rlen = 0 /\ Len(rgot) =< 0
      /\ rgot \in Chunk
  BY <1>1 DEF IInv, WriteLocals, ReadLocals, TypeOK
<1>3. Len(rgot) = 0
  BY <1>2, ChunkLen DEF Slot
<1>4. r' \in Slot /\ w' \in Slot
  BY <1>1, SizeAssumption DEF IInv, TypeOK, Slot
<1>5. TypeOK'
  BY <1>1, <1>4 DEF IInv, TypeOK, wvars, rvars
<1>6. Claims'
  BY <1>1, <1>2, <1>4, EmptyChunk, FullFree DEF Claims, wvars, rvars, Slot
<1>7. WriteLocals' /\ ReadLocals' /\ Written' /\ Got' /\ Quiescent'
  BY <1>1, <1>2, <1>3
  DEF IInv, WriteLocals, ReadLocals, Written, Got, Quiescent, wvars, rvars
<1> QED BY <1>5, <1>6, <1>7 DEF IInv

(* Every step keeps the inductive invariant.                               *)
LEMMA NextInv == IInv /\ [Next]_vars => IInv'
<1> SUFFICES ASSUME IInv, [Next]_vars PROVE IInv'
  OBVIOUS
<1>1. CASE WriteSide
  BY <1>1, WriteLoadInv, LinearWriteLoadInv, WriteByteInv, AdvanceLoadInv,
     WriteStoreInv DEF WriteSide
<1>2. CASE ReadSide
  BY <1>2, ReadLoadInv, PeekLoadInv, ReadByteInv, LinearSkipLoadInv,
     ReadStoreInv, PeekReturnInv DEF ReadSide
<1>3. CASE Reset \/ FreeHandle \/ InitHandle
  BY <1>3, HandleInv
<1>4. CASE UNCHANGED vars
  BY <1>4
  DEF vars, wvars, rvars, IInv, TypeOK, Claims, WriteLocals, ReadLocals,
      Written, Got, Quiescent, Full, Free, WrapAdd
<1> QED BY <1>1, <1>2, <1>3, <1>4 DEF Next

(* The inductive invariant holds in every reachable state. *)
THEOREM Invariance == Spec => []IInv
  BY InitInv, NextInv, PTL DEF Spec

-----------------------------------------------------------------------------
(***************************************************************************)
(* The safety properties.                                                  *)
(***************************************************************************)

(* Both indices stay inside the memory and every call's block inside the   *)
(* buffer, whatever the two sides do.                                      *)
THEOREM TypeCorrect == Spec => []TypeOK
<1>1. IInv => TypeOK
  BY DEF IInv
<1> QED BY <1>1, Invariance, PTL

(* The inductive invariant implies the three safety properties that say    *)
(* how the two sides stay apart.                                           *)
LEMMA InvSeparates == IInv => UnreadUntouched /\ ReadsPublished /\ LinearInBounds
<1> SUFFICES ASSUME IInv
             PROVE  UnreadUntouched /\ ReadsPublished /\ LinearInBounds
  OBVIOUS
<1>1. /\ r \in Slot /\ w \in Slot /\ wdata \in Chunk /\ roff \in Slot /\ rlen \in Slot
      /\ Len(wdata) =< Free(r, w) /\ roff + rlen =< Full(r, w)
  BY DEF IInv, TypeOK, Claims
<1>2. Full(r, w) \in Slot /\ Free(r, w) \in Slot /\ Len(wdata) \in Nat
  BY <1>1, FullFree, ChunkLen DEF Slot
<1>3. UnreadUntouched
  <2> SUFFICES ASSUME NEW i \in 0..(Len(wdata) - 1), NEW j \in 0..(Full(r, w) - 1)
               PROVE  WrapAdd(w, i) # WrapAdd(r, j)
    BY DEF UnreadUntouched, WriterSlots, Unread, Claimed
  <2>1. i \in Nat /\ j \in Nat /\ i < Free(r, w) /\ j < Full(r, w)
    BY <1>1, <1>2 DEF Slot
  <2> QED BY <2>1, <1>1, FreeNotUnread
<1>4. ReadsPublished
  <2> SUFFICES ASSUME NEW i \in 0..(rlen - 1)
               PROVE  \E j \in 0..(Full(r, w) - 1) :
                        WrapAdd(WrapAdd(r, roff), i) = WrapAdd(r, j)
    BY DEF ReadsPublished, ReaderSlots, Unread, Claimed
  <2>1. /\ i \in Nat /\ roff \in Nat /\ roff + i < Size
        /\ roff + i \in 0..(Full(r, w) - 1)
    BY <1>1, <1>2, SizeAssumption DEF Slot
  <2>2. WrapAdd(WrapAdd(r, roff), i) = WrapAdd(r, roff + i)
    BY <2>1, <1>1, WrapAddAdd
  <2> QED BY <2>1, <2>2
<1>5. LinearInBounds
  <2>1. rop = "linear" => r + rlen =< Size
    BY DEF IInv, ReadLocals
  <2>2. wop = "linear" => w + Len(wdata) =< Size
    BY DEF IInv, WriteLocals
  <2> QED BY <2>1, <2>2 DEF LinearInBounds
<1> QED BY <1>3, <1>4, <1>5

(* A write in progress never touches an unread byte. *)
THEOREM WriterSafe == Spec => []UnreadUntouched
  BY Invariance, InvSeparates, PTL

(* A read in progress only takes published bytes. *)
THEOREM ReaderSafe == Spec => []ReadsPublished
  BY Invariance, InvSeparates, PTL

(* In-place blocks stay inside the memory. *)
THEOREM LinearSafe == Spec => []LinearInBounds
  BY Invariance, InvSeparates, PTL

(* lwrb_advance and lwrb_skip never clip what was transferred in place.    *)
THEOREM NeverClipped == Spec => InPlaceNeverClipped
<1> DEFINE A == /\ wop = "linear" /\ wop' # wop => wdata' = wdata
                /\ rop = "linear" /\ rop' # rop => rlen' = rlen
<1>1. IInv /\ [Next]_vars => [A]_vars
  <2> SUFFICES ASSUME IInv, Next PROVE A
    BY DEF vars
  <2>1. CASE WriteSide
    <3>1. UNCHANGED rop
      BY <2>1 DEF WriteSide, WriteLoad, LinearWriteLoad, WriteByte,
         AdvanceLoad, WriteStore, rvars
    <3>2. CASE AdvanceLoad
      BY <3>1, <3>2, AdvanceLoadInv
    <3>3. CASE ~AdvanceLoad
      BY <2>1, <3>1, <3>3
      DEF WriteSide, WriteLoad, LinearWriteLoad, WriteByte, WriteStore
    <3> QED BY <3>2, <3>3
  <2>2. CASE ReadSide
    <3>1. UNCHANGED wop
      BY <2>2 DEF ReadSide, ReadLoad, LinearReadLoad, SkipLoad, PeekLoad,
         BeginRead, ReadByte, LinearSkipLoad, ReadStore, PeekReturn, EndRead,
         wvars
    <3>2. CASE LinearSkipLoad
      BY <3>1, <3>2, LinearSkipLoadInv
    <3>3. CASE ~LinearSkipLoad
      BY <2>2, <3>1, <3>3
      DEF ReadSide, ReadLoad, LinearReadLoad, SkipLoad, PeekLoad, BeginRead,
          ReadByte, ReadStore, PeekReturn, EndRead
    <3> QED BY <3>2, <3>3
  <2>3. CASE Reset \/ FreeHandle \/ InitHandle
    BY <2>3 DEF Reset, FreeHandle, InitHandle, wvars, rvars
  <2> QED BY <2>1, <2>2, <2>3 DEF Next
<1> QED BY <1>1, Invariance, PTL DEF Spec, InPlaceNeverClipped

-----------------------------------------------------------------------------
(***************************************************************************)
(* The buffer implements the bounded FIFO.                                 *)
(***************************************************************************)

(* The published bytes are a sequence as long as the full size. *)
ContentsAreSeq ==
  /\ Contents \in Seq(Byte)
  /\ Len(Contents) = Full(r, w)
  /\ \A i \in 1..Full(r, w) : Contents[i] = buff[WrapAdd(r, i - 1)]
  /\ Full(r, w) \in Slot

(* The contents of the buffer are a sequence of as many bytes as its full  *)
(* size.                                                                   *)
LEMMA ContentsSeq == IInv => ContentsAreSeq
<1> SUFFICES ASSUME IInv PROVE ContentsAreSeq
  OBVIOUS
<1>1. buff \in [Slot -> Byte] /\ r \in Slot /\ w \in Slot
  BY DEF IInv, TypeOK
<1>2. Full(r, w) \in Slot /\ Full(r, w) \in Nat
  BY <1>1, FullFree DEF Slot
<1>3. ASSUME NEW i \in 1..Full(r, w) PROVE buff[WrapAdd(r, i - 1)] \in Byte
  <2>1. i - 1 \in 0..Size
    BY <1>2, SizeAssumption DEF Slot
  <2> QED BY <2>1, <1>1, WrapAddSlot
<1>4. Contents \in [1..Full(r, w) -> Byte]
  BY <1>3 DEF Contents
<1>5. Contents \in Seq(Byte)
  BY <1>2, <1>4, SeqDef
<1>6. Len(Contents) = Full(r, w)
  BY <1>2, <1>4, <1>5, LenProperties
<1> QED BY <1>2, <1>5, <1>6 DEF Contents, ContentsAreSeq

(* A chunk that is not empty is one the abstract writer may put. *)
LEMMA ChunkIsFifoChunk ==
  ASSUME NEW c \in Chunk, c # <<>>
  PROVE  c \in Fifo!Chunk
<1>1. c \in Seq(Byte) /\ Len(c) \in Slot /\ Len(c) # 0
  BY ChunkIsSeq, ChunkLen, EmptySeq
<1>2. Len(c) \in 1..(Size - 1) /\ c \in [1..Len(c) -> Byte]
  BY <1>1, LenProperties, SizeAssumption DEF Slot
<1> QED BY <1>2 DEF Fifo!Chunk

(* A byte copied and not yet published changes nothing the specification   *)
(* of the FIFO sees.                                                       *)
LEMMA WriteByteStutters == ASSUME IInv, WriteByte PROVE UNCHANGED Fifo!vars
<1>1. /\ buff' = [buff EXCEPT ![WriteSlot] = wdata[wdone + 1]]
      /\ UNCHANGED <<r, w, valid, accepted, delivered>>
      /\ wop \in {"write", "linear"} /\ wdone < Len(wdata)
  BY DEF WriteByte
<1>2. /\ buff \in [Slot -> Byte] /\ r \in Slot /\ w \in Slot
      /\ WriteSlot = WrapAdd(w, wdone) /\ wdone \in Nat /\ wdone < Free(r, w)
      /\ Full(r, w) \in Slot
  BY <1>1, WriteSlotIs, ContentsSeq DEF IInv, TypeOK, ContentsAreSeq
<1>3. ASSUME NEW i \in 1..Full(r, w)
      PROVE  buff'[WrapAdd(r, i - 1)] = buff[WrapAdd(r, i - 1)]
  <2>1. i - 1 \in Nat /\ i - 1 < Full(r, w) /\ i - 1 \in 0..Size
    BY <1>2, SizeAssumption DEF Slot
  <2>2. WrapAdd(r, i - 1) \in Slot
    BY <2>1, <1>2, WrapAddSlot
  <2>3. WrapAdd(w, wdone) # WrapAdd(r, i - 1)
    BY <2>1, <1>2, FreeNotUnread
  <2> QED BY <2>2, <2>3, <1>1, <1>2
<1>4. Contents' = Contents
  BY <1>1, <1>3 DEF Contents, Full, WrapAdd
<1> QED BY <1>1, <1>4 DEF Fifo!vars, Pipe

(* Storing w puts the whole written chunk at the end of the FIFO, as one   *)
(* step.                                                                   *)
LEMMA WriteStorePuts == ASSUME IInv, WriteStore PROVE Fifo!Put(wdata)
<1>1. /\ w' = WrapAdd(w, Len(wdata)) /\ accepted' = wdata
      /\ UNCHANGED <<buff, r, valid, delivered>>
  BY DEF WriteStore
<1>2. /\ wdone = Len(wdata) /\ valid /\ IInv'
      /\ Full(r, w') = Full(r, w) + Len(wdata)
  BY WriteStoreInv
<1>3. /\ r \in Slot /\ w \in Slot /\ wdata \in Chunk /\ Len(wdata) =< Free(r, w)
      /\ Written
  BY DEF IInv, TypeOK, Claims
<1>4. /\ wdata \in Seq(Byte) /\ Len(wdata) \in Nat
      /\ Full(r, w) \in Nat /\ Free(r, w) \in Nat
      /\ Full(r, w) + Free(r, w) = Size - 1
  BY <1>3, ChunkIsSeq, ChunkLen, FullFree DEF Slot
<1>5. /\ Contents \in Seq(Byte) /\ Len(Contents) = Full(r, w)
      /\ \A i \in 1..Full(r, w) : Contents[i] = buff[WrapAdd(r, i - 1)]
  BY ContentsSeq DEF ContentsAreSeq
<1>6. /\ Contents' \in Seq(Byte) /\ Len(Contents') = Full(r, w')
      /\ \A i \in 1..Full(r, w') : Contents'[i] = buff[WrapAdd(r, i - 1)]
  <2>1. ContentsAreSeq'
    BY <1>2, ContentsSeq, PTL
  <2> QED BY <1>1, <2>1 DEF ContentsAreSeq, WrapAdd, Full
<1>7. Contents' = Contents \o wdata
  <2> DEFINE c == Contents \o wdata
  <2>1. /\ c \in Seq(Byte) /\ Len(c) = Full(r, w) + Len(wdata)
        /\ \A i \in 1..(Full(r, w) + Len(wdata)) :
              c[i] = IF i =< Full(r, w) THEN Contents[i] ELSE wdata[i - Full(r, w)]
    BY <1>4, <1>5, ConcatProperties
  <2> HIDE DEF c
  <2>2. ASSUME NEW i \in 1..(Full(r, w) + Len(wdata)) PROVE Contents'[i] = c[i]
    <3>1. CASE i =< Full(r, w)
      <4>1. i \in 1..Full(r, w) /\ i \in 1..Full(r, w')
        BY <3>1, <1>2, <1>4
      <4>2. Contents'[i] = Contents[i]
        BY <4>1, <1>5, <1>6
      <4>3. c[i] = Contents[i]
        BY <2>1, <3>1
      <4> QED BY <4>2, <4>3
    <3>2. CASE i > Full(r, w)
      <4> DEFINE j == i - Full(r, w)
      <4>1. /\ j \in 1..Len(wdata) /\ j - 1 \in 0..Free(r, w)
            /\ i - 1 = Full(r, w) + (j - 1)
        BY <3>2, <1>3, <1>4
      <4>2. WrapAdd(r, i - 1) = WrapAdd(w, j - 1)
        BY <4>1, <1>3, FreeFollowsFull
      <4>3. buff[WrapAdd(w, j - 1)] = wdata[j]
        BY <4>1, <1>2, <1>3 DEF Written
      <4>4. c[i] = wdata[j]
        BY <3>2, <2>1, <1>4
      <4>5. Contents'[i] = buff[WrapAdd(r, i - 1)]
        BY <1>2, <1>6
      <4> QED BY <4>2, <4>3, <4>4, <4>5
    <3> QED BY <3>1, <3>2, <1>4
  <2>3. Len(Contents') = Len(c)
    BY <2>1, <1>2, <1>6
  <2>4. Contents' = c
    BY <2>1, <2>2, <2>3, <1>6, SeqEqual
  <2> QED BY <2>4 DEF c
<1>8. Pipe = Contents /\ Pipe' = Contents'
  BY <1>1, <1>2 DEF Pipe
<1>9. Len(Pipe) + Len(wdata) =< Size - 1
  BY <1>3, <1>4, <1>5, <1>8
<1> QED BY <1>1, <1>7, <1>8, <1>9 DEF Fifo!Put

(* What a read takes is the front of the pipe, and the rest stays.         *)
LEMMA TakeFront ==
  ASSUME IInv, IInv', UNCHANGED <<buff, w>>, NEW n \in 0..rlen, rop # "peek",
         r' = WrapAdd(r, n), Full(r', w) = Full(r, w) - n
  PROVE  Contents' = SubSeq(Contents, n + 1, Len(Contents))
<1> DEFINE t == SubSeq(Contents, n + 1, Len(Contents))
<1>1. /\ r \in Slot /\ rlen \in Slot /\ roff \in Slot /\ roff + rlen =< Full(r, w)
  BY DEF IInv, TypeOK, Claims
<1>2. ContentsAreSeq /\ ContentsAreSeq'
  BY ContentsSeq, PTL
<1>3. /\ n \in Nat /\ Full(r, w) \in Nat /\ Full(r, w) < Size /\ n =< Full(r, w)
  BY <1>1, <1>2, SizeAssumption DEF ContentsAreSeq, Slot
<1>4. /\ t \in Seq(Byte) /\ Len(t) = Full(r, w) - n
      /\ \A i \in 1..(Full(r, w) - n) : t[i] = Contents[n + i]
  <2>1. \A i \in (n + 1)..Len(Contents) : Contents[i] \in Byte
    BY <1>2, <1>3, ElementOfSeq DEF ContentsAreSeq
  <2>2. Len(Contents) = Full(r, w)
    BY <1>2 DEF ContentsAreSeq
  <2> QED BY <2>1, <2>2, <1>3, SubSeqProperties
<1>5. /\ Contents' \in Seq(Byte) /\ Len(Contents') = Full(r, w) - n
      /\ \A i \in 1..(Full(r, w) - n) : Contents'[i] = buff[WrapAdd(r', i - 1)]
  BY <1>2 DEF ContentsAreSeq, WrapAdd, Full
<1> HIDE DEF t
<1>6. ASSUME NEW i \in 1..(Full(r, w) - n) PROVE Contents'[i] = t[i]
  <2>1. i - 1 \in Nat /\ n + (i - 1) < Size /\ n + i \in 1..Full(r, w)
        /\ n + (i - 1) = (n + i) - 1
    BY <1>3, SizeAssumption
  <2>2. WrapAdd(r', i - 1) = WrapAdd(r, (n + i) - 1)
    BY <2>1, <1>1, <1>3, WrapAddAdd
  <2>3. Contents[n + i] = buff[WrapAdd(r, (n + i) - 1)]
    BY <2>1, <1>2 DEF ContentsAreSeq
  <2> QED BY <2>2, <2>3, <1>4, <1>5
<1>7. Contents' = t
  BY <1>4, <1>5, <1>6, SeqEqual
<1> QED BY <1>7 DEF t

(* What a read has copied out is the block of the pipe it asked for.       *)
LEMMA GotBlock ==
  ASSUME IInv, Len(rgot) = rlen
  PROVE  rgot = SubSeq(Contents, roff + 1, roff + rlen)
<1> DEFINE t == SubSeq(Contents, roff + 1, roff + rlen)
<1>1. /\ roff \in Slot /\ rlen \in Slot /\ roff + rlen =< Full(r, w) /\ Got
      /\ rgot \in Seq(Byte) /\ ContentsAreSeq
  BY ChunkIsSeq, ContentsSeq DEF IInv, TypeOK, Claims
<1>2. roff \in Nat /\ rlen \in Nat /\ Full(r, w) \in Nat
  BY <1>1, SizeAssumption DEF ContentsAreSeq, Slot
<1>3. /\ t \in Seq(Byte) /\ Len(t) = rlen
      /\ \A i \in 1..rlen : t[i] = Contents[roff + i]
  <2>1. \A i \in (roff + 1)..(roff + rlen) : Contents[i] \in Byte
    BY <1>1, <1>2, ElementOfSeq DEF ContentsAreSeq
  <2> QED BY <2>1, <1>2, SubSeqProperties
<1> HIDE DEF t
<1>4. ASSUME NEW i \in 1..rlen PROVE rgot[i] = t[i]
  <2>1. roff + i \in 1..Full(r, w) /\ (roff + i) - 1 = roff + (i - 1)
    BY <1>1, <1>2
  <2>2. Contents[roff + i] = buff[WrapAdd(r, roff + (i - 1))]
    BY <2>1, <1>1 DEF ContentsAreSeq
  <2> QED BY <2>2, <1>1, <1>3 DEF Got
<1>5. rgot = t
  BY <1>1, <1>3, <1>4, SeqEqual
<1> QED BY <1>5 DEF t

(* Moving r at the end of lwrb_read or lwrb_skip takes what was read, or   *)
(* skipped, off the front of the FIFO, as one step.                        *)
LEMMA ReadStoreGets ==
  ASSUME IInv, ReadStore
  PROVE  Fifo!Get(rlen) \/ Fifo!Skip(rlen) \/ UNCHANGED Fifo!vars
<1>1. /\ r' = WrapAdd(r, rlen) /\ rop \in {"read", "skip"}
      /\ delivered' = IF rgot = <<>> THEN delivered ELSE rgot
      /\ UNCHANGED <<buff, w, valid, accepted>>
  BY DEF ReadStore, EndRead
<1>2. /\ IInv' /\ valid /\ Full(r', w) = Full(r, w) - rlen
  BY ReadStoreInv
<1>3. /\ rlen \in Nat /\ roff = 0 /\ rlen =< Full(r, w)
      /\ rgot \in Seq(Byte) /\ ContentsAreSeq /\ Full(r, w) \in Nat
  BY <1>1, ContentsSeq, ChunkIsSeq
  DEF IInv, TypeOK, Claims, ReadLocals, Slot, ContentsAreSeq
<1>4. /\ Pipe = Contents /\ Pipe' = Contents'
      /\ Len(Pipe) = Full(r, w)
  BY <1>1, <1>2, <1>3 DEF Pipe, ContentsAreSeq
<1>5. Contents' = SubSeq(Contents, rlen + 1, Len(Contents))
  BY <1>1, <1>2, <1>3, TakeFront
<1>6. CASE rlen = 0
  <2>1. Len(rgot) = 0
    BY <1>3, <1>6, LenProperties DEF IInv, ReadLocals
  <2>2. rgot = <<>>
    BY <2>1, <1>3, EmptySeq
  <2>3. SubSeq(Contents, 1, Len(Contents)) = Contents
    BY <1>3, SubSeqFull DEF ContentsAreSeq
  <2> QED BY <2>2, <2>3, <1>1, <1>4, <1>5, <1>6 DEF Fifo!vars
<1>7. CASE rlen # 0 /\ rgot = <<>>
  <2>1. rlen \in 1..Len(Pipe)
    BY <1>3, <1>4, <1>7
  <2> QED BY <2>1, <1>1, <1>4, <1>5, <1>7 DEF Fifo!Skip
<1>8. CASE rlen # 0 /\ rgot # <<>>
  <2>1. rlen \in 1..Len(Pipe)
    BY <1>3, <1>4, <1>8
  <2>2. Len(rgot) = rlen
    <3>1. Len(rgot) # 0
      BY <1>3, <1>8, EmptySeq
    <3> QED BY <3>1 DEF ReadStore, IInv, ReadLocals
  <2>3. rgot = SubSeq(Contents, 0 + 1, 0 + rlen)
    BY <2>2, <1>3, GotBlock
  <2>4. rgot = SubSeq(Contents, 1, rlen)
    BY <2>3, <1>3
  <2> QED BY <2>1, <2>4, <1>1, <1>4, <1>5, <1>8 DEF Fifo!Get
<1> QED BY <1>6, <1>7, <1>8

(* lwrb_peek returns a block of the FIFO and leaves the FIFO as it is.     *)
LEMMA PeekReturnPeeks == ASSUME IInv, PeekReturn PROVE Fifo!Peek(roff, rlen)
<1>1. /\ rop = "peek" /\ Len(rgot) = rlen
      /\ delivered' = IF rgot = <<>> THEN delivered ELSE rgot
      /\ UNCHANGED <<buff, r, w, valid, accepted>>
  BY DEF PeekReturn, EndRead
<1>2. /\ rlen \in Nat /\ rlen > 0 /\ roff \in Nat /\ roff + rlen =< Full(r, w)
      /\ ContentsAreSeq /\ Full(r, w) \in Nat /\ valid
  BY <1>1, ContentsSeq
  DEF IInv, TypeOK, Claims, ReadLocals, Slot, ContentsAreSeq, Quiescent
<1>3. rgot # <<>>
  BY <1>1, <1>2, EmptyChunk
<1>4. rgot = SubSeq(Contents, roff + 1, roff + rlen)
  BY <1>1, GotBlock
<1>5. Pipe = Contents /\ Pipe' = Contents /\ Len(Pipe) = Full(r, w)
  BY <1>1, <1>2 DEF Pipe, Contents, ContentsAreSeq, Full, WrapAdd
<1>6. rlen \in 1..(Len(Pipe) - roff)
  BY <1>2, <1>5
<1> QED BY <1>1, <1>3, <1>4, <1>5, <1>6 DEF Fifo!Peek

(* An empty buffer, whatever the handle's state. *)
LEMMA EmptyPipe == r = 0 /\ w = 0 => Pipe = <<>>
  BY DEF Pipe, Contents, Full

(* lwrb_init, lwrb_reset and lwrb_free empty the FIFO or leave it alone.   *)
LEMMA HandleResets ==
  ASSUME IInv, Reset \/ FreeHandle \/ InitHandle PROVE Fifo!Reset
<1>1. UNCHANGED <<accepted, delivered>>
  BY DEF Reset, FreeHandle, InitHandle
<1>2. CASE Reset \/ InitHandle
  <2>1. r' = 0 /\ w' = 0
    BY <1>2 DEF Reset, InitHandle
  <2>2. Pipe' = <<>>
    BY <2>1 DEF Pipe, Contents, Full
  <2> QED BY <2>2, <1>1 DEF Fifo!Reset
<1>3. CASE FreeHandle
  <2>1. Pipe' = <<>>
    BY <1>3 DEF FreeHandle, Pipe
  <2> QED BY <2>1, <1>1 DEF Fifo!Reset
<1> QED BY <1>2, <1>3

(* Every step of the buffer is one step of the pipe, or none.              *)
LEMMA StepImplements == IInv /\ [Next]_vars => [Fifo!Next]_(Fifo!vars)
<1> SUFFICES ASSUME IInv, [Next]_vars PROVE [Fifo!Next]_(Fifo!vars)
  OBVIOUS
<1> DEFINE Stays == UNCHANGED <<buff, r, w, valid, accepted, delivered>>
<1>1. ASSUME Stays PROVE UNCHANGED Fifo!vars
  BY <1>1 DEF Fifo!vars, Pipe, Contents, Full, WrapAdd
<1>2. CASE WriteSide
  <2>1. CASE WriteByte
    BY <2>1, WriteByteStutters
  <2>2. CASE WriteStore
    <3>1. wdata \in Fifo!Chunk
      BY <2>2, WriteStoreInv, ChunkIsFifoChunk DEF IInv, TypeOK
    <3> QED BY <3>1, <2>2, WriteStorePuts DEF Fifo!Next
  <2>3. CASE ~WriteByte /\ ~WriteStore
    <3>1. Stays
      BY <1>2, <2>3 DEF WriteSide, WriteLoad, LinearWriteLoad, AdvanceLoad
    <3> QED BY <3>1, <1>1
  <2> QED BY <2>1, <2>2, <2>3
<1>3. CASE ReadSide
  <2>1. CASE ReadStore
    <3>1. Fifo!Get(rlen) => rlen \in 1..Len(Pipe)
      BY DEF Fifo!Get
    <3>2. Fifo!Skip(rlen) => rlen \in 1..Len(Pipe)
      BY DEF Fifo!Skip
    <3> QED BY <3>1, <3>2, <2>1, ReadStoreGets DEF Fifo!Next
  <2>2. CASE PeekReturn
    <3>1. /\ roff \in 0..Len(Pipe) /\ rlen \in 1..Len(Pipe)
      <4>1. rlen \in 1..(Len(Pipe) - roff)
        BY <2>2, PeekReturnPeeks DEF Fifo!Peek
      <4>2. roff \in Nat /\ rlen \in Nat /\ valid /\ Full(r, w) \in Nat
            /\ ContentsAreSeq
        BY <2>2, ContentsSeq
        DEF IInv, TypeOK, Slot, PeekReturn, Quiescent, ContentsAreSeq
      <4>3. Len(Pipe) = Full(r, w)
        BY <4>2 DEF Pipe, ContentsAreSeq
      <4> QED BY <4>1, <4>2, <4>3
    <3> QED BY <3>1, <2>2, PeekReturnPeeks DEF Fifo!Next
  <2>3. CASE ~ReadStore /\ ~PeekReturn
    <3>1. Stays
      BY <1>3, <2>3
      DEF ReadSide, ReadLoad, LinearReadLoad, SkipLoad, PeekLoad, BeginRead,
          ReadByte, LinearSkipLoad
    <3> QED BY <3>1, <1>1
  <2> QED BY <2>1, <2>2, <2>3
<1>4. CASE Reset \/ FreeHandle \/ InitHandle
  BY <1>4, HandleResets DEF Fifo!Next
<1>5. CASE UNCHANGED vars
  BY <1>1, <1>5 DEF vars
<1> QED BY <1>2, <1>3, <1>4, <1>5 DEF Next

(* One writer and one reader, however they interleave, see a bounded FIFO  *)
(* of Size - 1 bytes whose operations are indivisible.                     *)
THEOREM Refinement == Spec => ImplementsFifo
<1>1. Init => Fifo!Init
  BY EmptyPipe DEF Init, Fifo!Init
<1> QED BY <1>1, StepImplements, Invariance, PTL
        DEF Spec, ImplementsFifo, Fifo!Spec
=============================================================================
