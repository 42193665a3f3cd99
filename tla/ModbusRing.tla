----------------------------- MODULE ModbusRing -----------------------------
(***************************************************************************)
(* The receive buffer of components/MODBUS/Src/Modbus.c: the UART's        *)
(* interrupt handlers fill it, byte by byte with RingAdd or a frame at a   *)
(* time by DMA, and getRxBuffer empties it into u8Buffer.  With USART_HW   *)
(* getRxBuffer stops reception first, so that it is one step.              *)
(***************************************************************************)
EXTENDS Naturals, Sequences

CONSTANTS
  Byte,
  MAX_BUFFER,  \* the bytes uxBuffer holds
  U8,          \* the values of a uint8_t, the type of the indices and counts
  MaxFrame     \* bound: the bytes that may come between two getRxBuffer

(* In the repository MAX_BUFFER is 256, all the values a uint8_t has, so   *)
(* that the count of a full buffer is that of an empty one.                *)
CountWraps ==
  /\ MAX_BUFFER \in Nat \ {0} /\ U8 = MAX_BUFFER
  /\ MaxFrame \in Nat /\ MAX_BUFFER =< MaxFrame

Index == 0..(MAX_BUFFER - 1)
Chunk(n) == UNION {[1..k -> Byte] : k \in 0..n}

VARIABLES
  uxBuffer, u8start, u8end, u8available, overflow,
  portHW,    \* xTypeHW: USART_HW or USART_HW_DMA
  taken,     \* u8Buffer: what the last getRxBuffer took
  result,    \* and what it returned: "OK" or "ERR_BUFF_OVERFLOW"
  received   \* history: the bytes received since

ring == <<uxBuffer, u8start, u8end, u8available, overflow>>
ringVars == <<ring, portHW, taken, result, received>>

(* RingClear *)
Cleared == u8start' = 0 /\ u8end' = 0 /\ u8available' = 0 /\ overflow' = FALSE

RingInit ==
  /\ uxBuffer \in [Index -> Byte]
  /\ u8start = 0 /\ u8end = 0 /\ u8available = 0 /\ overflow = FALSE
  /\ portHW \in {"USART_HW", "USART_HW_DMA"}
  /\ taken = <<>> /\ result = "OK" /\ received = <<>>

-----------------------------------------------------------------------------
(* The index is 8 bits wide and MAX_BUFFER no more than its values. *)
NextIndex(i) == (i + 1) % MAX_BUFFER

(* The count is compared with 256, which it cannot reach. *)
Full == u8available = MAX_BUFFER

RingAdd(u8Val) ==
  /\ portHW = "USART_HW" /\ Len(received) < MaxFrame
  /\ uxBuffer' = [uxBuffer EXCEPT ![u8end] = u8Val]
  /\ u8end' = NextIndex(u8end)
  /\ overflow' = Full
  /\ u8start' = IF Full THEN NextIndex(u8start) ELSE u8start
  /\ u8available' = IF Full THEN u8available ELSE (u8available + 1) % U8
  /\ received' = Append(received, u8Val)
  /\ UNCHANGED <<portHW, taken, result>>

(* HAL_UARTEx_RxEventCallback: the DMA has put the frame at the start of   *)
(* the buffer; u8available is all that is set.                             *)
RxEvent(frame) ==
  /\ portHW = "USART_HW_DMA" /\ frame # <<>>
  /\ uxBuffer' = [i \in Index |-> IF i < Len(frame) THEN frame[i + 1] ELSE uxBuffer[i]]
  /\ u8available' = Len(frame) % U8 /\ overflow' = FALSE
  /\ received' = frame
  /\ UNCHANGED <<u8start, u8end, portHW, taken, result>>

(* What RingGetAllBytes copies. *)
Contents == [i \in 1..u8available |-> uxBuffer[(u8start + i - 1) % MAX_BUFFER]]

getRxBuffer ==
  /\ received # <<>>
  /\ IF overflow THEN result' = "ERR_BUFF_OVERFLOW" /\ UNCHANGED taken
                 ELSE result' = "OK" /\ taken' = Contents
  /\ IF overflow \/ u8available > 0 THEN Cleared
     ELSE UNCHANGED <<u8start, u8end, u8available, overflow>>
  /\ received' = <<>>
  /\ UNCHANGED <<uxBuffer, portHW>>

RingNext ==
  \/ \E b \in Byte : RingAdd(b)
  \/ \E frame \in Chunk(MAX_BUFFER) : RxEvent(frame)
  \/ getRxBuffer

RingSpec == RingInit /\ [][RingNext]_ringVars

-----------------------------------------------------------------------------
(* Properties. *)

(* The values the variables take. *)
RingTypeOK ==
  /\ uxBuffer \in [Index -> Byte]
  /\ u8start \in Index /\ u8end \in Index
  /\ u8available \in 0..MAX_BUFFER /\ overflow \in BOOLEAN
  /\ portHW \in {"USART_HW", "USART_HW_DMA"}
  /\ taken \in Chunk(MAX_BUFFER)
  /\ result \in {"OK", "ERR_BUFF_OVERFLOW"}
  /\ received \in Chunk(MaxFrame)

(* "buffer size if OK, ERR_BUFF_OVERFLOW if u8BufferSize >= MAX_BUFFER":   *)
(* a frame of which bytes were lost is never taken for a frame.            *)
OverflowReported ==
  [][getRxBuffer /\ Len(received) > MAX_BUFFER => result' = "ERR_BUFF_OVERFLOW"]_ringVars

(* A frame shorter than the buffer is taken from its first byte to its     *)
(* last.                                                                   *)
FrameIntact ==
  [][getRxBuffer /\ Len(received) < MAX_BUFFER
     => result' = "OK" /\ taken' = received]_ringVars

(* What is taken is the end of what was received: never a byte of an       *)
(* earlier frame, however many came.                                       *)
EndOf(s, n) == [i \in 1..n |-> s[Len(s) - n + i]]
NothingStale ==
  [][getRxBuffer => \E n \in 0..Len(received) : taken' = EndOf(received, n)]_ringVars

(* The overflow that RingAdd is to note is never noted.                    *)
NeverFull == ~overflow /\ result = "OK"
=============================================================================
