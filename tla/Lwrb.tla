-------------------------------- MODULE Lwrb --------------------------------
(***************************************************************************)
(* The lightweight ring buffer, components/lwrb/lwrb/src/lwrb/lwrb.c, used *)
(* the way its documentation prescribes: one write entry (a task or an     *)
(* interrupt handler) and one read exit, which run concurrently and share  *)
(* the memory and the two indices without a lock.                          *)
(*                                                                         *)
(* A step is what one side does between two accesses to memory the other   *)
(* side also accesses: the load of the other side's index, the transfer of *)
(* one byte, the store of its own index.  An index is a word of the        *)
(* machine (lwrb.h defines LWRB_DISABLE_ATOMIC: an unsigned long), read    *)
(* and written whole.                                                      *)
(***************************************************************************)
EXTENDS Naturals, Sequences

CONSTANTS
  Byte,  \* the byte values the application stores
  Size   \* the bytes of memory given to lwrb_init

ASSUME SizeAssumption == Size \in Nat \ {0}

Slot == 0..(Size - 1)
Chunk == UNION {[1..n -> Byte] : n \in 0..(Size - 1)}
Min2(a, b) == IF a < b THEN a ELSE b

VARIABLES
  buff,       \* the memory, one byte per slot
  r, w,       \* the next slot to read and the next slot to write
  valid,      \* the handle holds memory (BUF_IS_VALID)
  wop,        \* the write-side call in progress
  wdata,      \* the bytes that call stores
  wdone,      \* how many of them are in memory
  rop,        \* the read-side call in progress
  roff, rlen, \* the block it takes: its distance from r and its length
  rgot,       \* the bytes it has copied out
  accepted, delivered  \* history: the last bytes written, the last returned

wvars == <<wop, wdata, wdone>>
rvars == <<rop, roff, rlen, rgot>>
vars == <<buff, r, w, valid, wvars, rvars, accepted, delivered>>

-----------------------------------------------------------------------------
(* Arithmetic on the indices.                                              *)

(* Each operator named ..._Bug is a fault the properties are to notice: it *)
(* stands before the definition it would replace.                          *)

WrapAdd_Bug(i, n) == IF i + n > Size THEN i + n - Size ELSE i + n

(* An index advanced by n, set back at the end of the memory.              *)
WrapAdd(i, n) == IF i + n >= Size THEN i + n - Size ELSE i + n

(* The memory is filled to the last byte, and then looks empty.            *)
Free_Bug(ri, wi) ==
  IF wi = ri THEN Size ELSE IF ri > wi THEN ri - wi ELSE Size - (wi - ri)
(* The stored bytes are taken for the free ones.                           *)
FreeSwapped_Bug(ri, wi) ==
  (IF wi = ri THEN Size ELSE IF ri > wi THEN ri - wi ELSE wi - ri) - 1

(* lwrb_get_full and lwrb_get_free, on the indices they have loaded.       *)
Full(ri, wi) == IF wi >= ri THEN wi - ri ELSE Size - (ri - wi)
Free(ri, wi) == (IF wi = ri THEN Size
                 ELSE IF ri > wi THEN ri - wi ELSE Size - (wi - ri)) - 1

(* The part behind the wrap is counted in.                                 *)
LinearReadLength_Bug(ri, wi) == Full(ri, wi)
(* With r = 0 the last slot is given away too.                             *)
LinearWriteLength_Bug(ri, wi) == IF wi >= ri THEN Size - wi ELSE ri - wi - 1

(* The blocks a caller may access in place, up to the end of the memory.   *)
LinearReadLength(ri, wi) ==
  IF wi > ri THEN wi - ri ELSE IF ri > wi THEN Size - ri ELSE 0
LinearWriteLength(ri, wi) ==
  IF wi >= ri THEN Size - wi - (IF ri = 0 THEN 1 ELSE 0) ELSE ri - wi - 1

(* The slot the next byte of the call in progress is in.  In-place access  *)
(* goes through a plain pointer and never wraps.                           *)
WriteSlot == IF wop = "linear" THEN w + wdone ELSE WrapAdd(w, wdone)
ReadSlot == IF rop = "linear" THEN r + Len(rgot)
            ELSE WrapAdd(r, roff + Len(rgot))

-----------------------------------------------------------------------------
Init ==
  /\ buff \in [Slot -> Byte]
  /\ r = 0 /\ w = 0 /\ valid = TRUE
  /\ wop = "idle" /\ wdata = <<>> /\ wdone = 0
  /\ rop = "idle" /\ roff = 0 /\ rlen = 0 /\ rgot = <<>>
  /\ accepted = <<>> /\ delivered = <<>>

(* The write side. *)

(* lwrb_write reads both indices (lwrb_get_free) and clips the caller's    *)
(* data; with no room it returns 0 and nothing changes.                    *)
WriteLoad(d) ==
  /\ valid /\ wop = "idle" /\ d # <<>> /\ Free(r, w) > 0
  /\ wop' = "write"
  /\ wdata' = SubSeq(d, 1, Min2(Free(r, w), Len(d)))
  /\ UNCHANGED <<buff, r, w, valid, wdone, rvars, accepted, delivered>>

(* The application asks for the linear block and lets the hardware fill    *)
(* some of it with the bytes d.                                            *)
LinearWriteLoad(d) ==
  /\ valid /\ wop = "idle" /\ Len(d) \in 1..LinearWriteLength(r, w)
  /\ wop' = "linear"
  /\ wdata' = d
  /\ UNCHANGED <<buff, r, w, valid, wdone, rvars, accepted, delivered>>

(* One byte of BUF_MEMCPY, or of the transfer in place.                    *)
WriteByte ==
  /\ wop \in {"write", "linear"} /\ wdone < Len(wdata)
  /\ buff' = [buff EXCEPT ![WriteSlot] = wdata[wdone + 1]]
  /\ wdone' = wdone + 1
  /\ UNCHANGED <<r, w, valid, wop, wdata, rvars, accepted, delivered>>

(* lwrb_advance, called with the number of bytes the hardware wrote, loads *)
(* the indices again and clips that number.                                *)
AdvanceLoad ==
  /\ wop = "linear" /\ wdone = Len(wdata)
  /\ wop' = "advance"
  /\ wdata' = SubSeq(wdata, 1, Min2(Len(wdata), Free(r, w)))
  /\ UNCHANGED <<buff, r, w, valid, wdone, rvars, accepted, delivered>>

(* The store of w, which makes the bytes readable.                         *)
WriteStore ==
  /\ wop = "advance" \/ (wop = "write" /\ wdone = Len(wdata))
  /\ w' = WrapAdd(w, Len(wdata))
  /\ accepted' = wdata
  /\ wop' = "idle" /\ wdata' = <<>> /\ wdone' = 0
  /\ UNCHANGED <<buff, r, valid, rvars, delivered>>

-----------------------------------------------------------------------------
(* The read side. *)

(* A read-side call starts: it has loaded both indices and will take n     *)
(* bytes, s bytes after the oldest one.                                    *)
BeginRead(op, s, n) ==
  /\ valid /\ rop = "idle"
  /\ rop' = op /\ roff' = s /\ rlen' = n
  /\ UNCHANGED <<buff, r, w, valid, wvars, rgot, accepted, delivered>>

ReadLoad(btr) ==
  /\ btr > 0 /\ Full(r, w) > 0
  /\ BeginRead("read", 0, Min2(Full(r, w), btr))

(* The bytes skipped are not taken off what can be peeked.                 *)
PeekLoad_Bug(skip_count, btp) ==
  /\ btp > 0 /\ skip_count < Full(r, w)
  /\ BeginRead("peek", skip_count, Min2(Full(r, w), btp))

PeekLoad(skip_count, btp) ==
  /\ btp > 0 /\ skip_count < Full(r, w)
  /\ BeginRead("peek", skip_count, Min2(Full(r, w) - skip_count, btp))

LinearReadLoad(n) ==
  /\ n \in 1..LinearReadLength(r, w)
  /\ BeginRead("linear", 0, n)

(* lwrb_skip clips its argument and stores r even when nothing is left.    *)
SkipLoad(len) ==
  /\ len > 0
  /\ BeginRead("skip", 0, Min2(len, Full(r, w)))

ReadByte ==
  /\ rop \in {"read", "peek", "linear"} /\ Len(rgot) < rlen
  /\ rgot' = Append(rgot, buff[ReadSlot])
  /\ UNCHANGED <<buff, r, w, valid, wvars, rop, roff, rlen, accepted, delivered>>

(* After in-place processing the application calls lwrb_skip, which loads  *)
(* the indices again and clips.                                            *)
LinearSkipLoad ==
  /\ rop = "linear" /\ Len(rgot) = rlen
  /\ rop' = "skip" /\ rlen' = Min2(rlen, Full(r, w))
  /\ UNCHANGED <<buff, r, w, valid, wvars, roff, rgot, accepted, delivered>>

(* The end of a call: its results are the caller's, its locals are gone.   *)
EndRead ==
  /\ rop' = "idle" /\ roff' = 0 /\ rlen' = 0 /\ rgot' = <<>>
  /\ delivered' = IF rgot = <<>> THEN delivered ELSE rgot
  /\ UNCHANGED <<buff, w, valid, wvars, accepted>>

(* The store of r, which frees the bytes for the writer.                   *)
ReadStore ==
  /\ rop = "skip" \/ (rop = "read" /\ Len(rgot) = rlen)
  /\ r' = WrapAdd(r, rlen)
  /\ EndRead

PeekReturn == rop = "peek" /\ Len(rgot) = rlen /\ UNCHANGED r /\ EndRead

-----------------------------------------------------------------------------
(* lwrb_reset, lwrb_free and a second lwrb_init are not thread safe: the   *)
(* application calls them while no read or write is in progress.           *)
Quiescent == wop = "idle" /\ rop = "idle"

Reset ==
  /\ valid /\ Quiescent
  /\ w' = 0 /\ r' = 0
  /\ UNCHANGED <<buff, valid, wvars, rvars, accepted, delivered>>

FreeHandle ==
  /\ valid /\ Quiescent
  /\ valid' = FALSE
  /\ UNCHANGED <<buff, r, w, wvars, rvars, accepted, delivered>>

InitHandle ==
  /\ Quiescent
  /\ valid' = TRUE /\ w' = 0 /\ r' = 0
  /\ UNCHANGED <<buff, wvars, rvars, accepted, delivered>>

-----------------------------------------------------------------------------
WriteSide ==
  \/ \E d \in Chunk : WriteLoad(d) \/ LinearWriteLoad(d)
  \/ WriteByte \/ AdvanceLoad \/ WriteStore

ReadSide ==
  \/ \E n \in 1..Size : ReadLoad(n) \/ LinearReadLoad(n) \/ SkipLoad(n)
  \/ \E s \in 0..Size, n \in 1..Size : PeekLoad(s, n)
  \/ ReadByte \/ LinearSkipLoad \/ ReadStore \/ PeekReturn

Next == WriteSide \/ ReadSide \/ Reset \/ FreeHandle \/ InitHandle

Spec == Init /\ [][Next]_vars

-----------------------------------------------------------------------------
(* Properties. *)

(* Every variable stays in its range: in particular both indices are slots *)
(* of the memory, which lwrb.c maintains by comparing with the size after  *)
(* every addition, and a call never claims more bytes than the memory has. *)
TypeOK ==
  /\ buff \in [Slot -> Byte]
  /\ r \in Slot /\ w \in Slot /\ valid \in BOOLEAN
  /\ wop \in {"idle", "write", "linear", "advance"}
  /\ wdata \in Chunk /\ wdone \in 0..Len(wdata)
  /\ rop \in {"idle", "read", "peek", "linear", "skip"}
  /\ roff \in Slot /\ rlen \in Slot
  /\ rgot \in Chunk
  /\ accepted \in Chunk /\ delivered \in Chunk

(* The slots a call in progress works on. *)
Claimed(start, n) == {WrapAdd(start, i) : i \in 0..(n - 1)}
WriterSlots == Claimed(w, Len(wdata))
ReaderSlots == Claimed(WrapAdd(r, roff), rlen)
Unread == Claimed(r, Full(r, w))

(* A write in progress never touches a byte that is stored and not yet     *)
(* read, although the free space it computed may be out of date by then:   *)
(* the reader may have moved r, and only r, since.                         *)
UnreadUntouched == WriterSlots \cap Unread = {}

(* A read in progress takes bytes only from the slots whose contents the   *)
(* writer has published, although w may have moved since it was loaded.    *)
ReadsPublished == ReaderSlots \subseteq Unread

(* An in-place block never runs past the end of the memory. *)
LinearInBounds ==
  /\ wop = "linear" => w + Len(wdata) =< Size
  /\ rop = "linear" => r + rlen =< Size

(* lwrb_advance and lwrb_skip, called with what was transferred in place,  *)
(* never clip it although they compute the free space and the full size    *)
(* again: nothing the hardware wrote is dropped, nothing it read stays.    *)
InPlaceNeverClipped ==
  [][/\ wop = "linear" /\ wop' # wop => wdata' = wdata
     /\ rop = "linear" /\ rop' # rop => rlen' = rlen]_vars

(* The pipe the buffer implements: the published bytes, from r up to w.    *)
Contents == [i \in 1..Full(r, w) |-> buff[WrapAdd(r, i - 1)]]
Pipe == IF valid THEN Contents ELSE <<>>
Fifo == INSTANCE LwrbFifo WITH Capacity <- Size - 1, fifo <- Pipe

(* Every interleaving of one writer and one reader behaves as a bounded    *)
(* FIFO whose operations are indivisible: no byte is lost, duplicated,     *)
(* reordered or read half written (docs/user-manual/thread-safety.rst).    *)
ImplementsFifo == Fifo!Spec
=============================================================================
