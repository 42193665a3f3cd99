------------------------- MODULE ModbusMasterProofs -------------------------
(***************************************************************************)
(* The master's safety properties, for every set of tasks and telegrams,   *)
(* every length of the queue, both ways to drive the port, and slaves that *)
(* answer late, damaged or not at all; and the receive buffer that master  *)
(* and slave use, for every size that is the range of its count of bytes,  *)
(* as 256 is, for every byte set and every frame.                          *)
(*                                                                         *)
(* That a query starts with the state machine idle needs to be known of    *)
(* every place the task can be in (InCycle).  That a timeout is never one  *)
(* left over from an earlier query rests on when the timer runs and its    *)
(* notification waits (Watching), which is so by interrupt: there the end  *)
(* of a frame stops the timer.  By DMA nothing stops it for a frame that   *)
(* is too short, and the property does not hold.                           *)
(***************************************************************************)
EXTENDS ModbusMaster, ModbusRing, SequenceTheorems, TLAPS

Transmitting == {"tx", "txBlocked", "txWoken", "tc"}
Asking == {"await", "blocked", "woken", "process", "store"}

(* Where the task is says how far the query has come.                      *)
InCycle ==
  /\ i8state = "COM_WAITING" => pc \in Asking
  /\ sem = "master" <=> pc \in Transmitting
  /\ wire = "busy" => pc \in Transmitting
  /\ pc # "idle" => telegram \in Telegram

(* By interrupt: the timer runs only while the task waits for an answer,   *)
(* and its notification is taken before anything else happens.             *)
Watching ==
  xTypeHW = "USART_HW" =>
    /\ TimeoutTimer => pc \in {"await", "blocked"}
    /\ notified = "ERR_TIME_OUT" => pc = "woken" /\ expired

IInv == TypeOK /\ InCycle /\ Watching

-----------------------------------------------------------------------------
(* The values of the frames and telegrams.                                 *)
LEMMA FrameTypes ==
  /\ {NoFrame, Garbled, Noise} \subseteq Frame \cup {NoFrame}
  /\ NoFrame.kind = "empty" /\ Noise.kind = "short" /\ Garbled.kind = "garbled"
  /\ \A q \in Telegram, k \in Kind : [query |-> q, kind |-> k] \in Frame
  BY DEF Frame, Kind, NoFrame, Garbled, Noise, NoTelegram

LEMMA InitInv == Init => IInv
  <1> SUFFICES ASSUME Init PROVE IInv
    OBVIOUS
  <1>1. TypeOK
    <2>1. QueueTelegram \in Seq(Telegram) /\ Len(QueueTelegram) =< MAX_TELEGRAMS
      BY MasterAssumption DEF Init
    <2>2. {u8Buffer, xBufferRX} \subseteq Frame \cup {NoFrame}
      BY DEF Init
    <2> QED
      BY <2>1, <2>2 DEF Init, TypeOK
  <1>2. InCycle /\ Watching
    BY DEF Init, InCycle, Watching, Asking, Transmitting
  <1> QED
    BY <1>1, <1>2 DEF IInv

(* What the application does to the queue and the semaphore. *)
LEMMA QueryInv ==
  ASSUME IInv, NEW q \in Telegram, ModbusQuery(q) \/ ModbusQueryInject(q)
  PROVE  IInv'
  <1>1. /\ UNCHANGED <<bus, timers, task>>
        /\ caller' = [caller EXCEPT ![q.task] = "waiting"]
        /\ QueueTelegram' \in {Append(QueueTelegram, q), QueueTelegram, <<q>>}
        /\ QueueTelegram' = Append(QueueTelegram, q) => Len(QueueTelegram) < MAX_TELEGRAMS
                                                        \/ QueueTelegram' = <<q>>
    BY DEF ModbusQuery, ModbusQueryInject
  <1>2. QueueTelegram' \in Seq(Telegram) /\ Len(QueueTelegram') =< MAX_TELEGRAMS
    <2>1. /\ QueueTelegram \in Seq(Telegram) /\ Len(QueueTelegram) =< MAX_TELEGRAMS
          /\ MAX_TELEGRAMS \in Nat \ {0}
      BY MasterAssumption DEF IInv, TypeOK
    <2>2. CASE ModbusQuery(q)
      BY <2>1, <2>2 DEF ModbusQuery
    <2>3. CASE ModbusQueryInject(q)
      BY <2>1, <2>3 DEF ModbusQueryInject
    <2> QED
      BY <2>2, <2>3
  <1>3. caller' \in [Task -> Result \cup {"new", "waiting"}]
    BY <1>1 DEF IInv, TypeOK
  <1> QED
    BY <1>1, <1>2, <1>3 DEF IInv, TypeOK, InCycle, Watching, bus, timers, task

LEMMA SemaphoreInv ==
  ASSUME IInv, AppTake \/ AppGive
  PROVE  IInv'
  BY DEF IInv, TypeOK, InCycle, Watching, AppTake, AppGive, tvars, bus, timers

(* A frame comes in. *)
LEMMA ReceiveInv ==
  ASSUME IInv, NEW f \in Frame, Receive(f), asked' \subseteq Telegram
  PROVE  IInv'
  <1>1. CASE xTypeHW = "USART_HW_DMA"
    <2>1. /\ xBufferRX' = f /\ pc' = Woken(pc) /\ notified' = "none"
          /\ UNCHANGED <<telegram, i8state, u8Buffer, sem, tvars, timers, xTypeHW, wire>>
      BY <1>1 DEF Receive, Notify
    <2>2. TypeOK'
      BY <2>1, FrameTypes DEF IInv, TypeOK, Woken, tvars, timers
    <2>3. InCycle'
      BY <2>1 DEF IInv, InCycle, Woken, Asking, Transmitting
    <2> QED
      BY <1>1, <2>1, <2>2, <2>3 DEF IInv, Watching
  <1>2. CASE xTypeHW # "USART_HW_DMA"
    <2>1. /\ xBufferRX' \in Joined(xBufferRX, f) /\ T35Timer' = TRUE
          /\ UNCHANGED <<tvars, TimeoutTimer, expired, task, xTypeHW, wire>>
      BY <1>2 DEF Receive
    <2>2. xBufferRX' \in Frame \cup {NoFrame}
      BY <2>1, FrameTypes DEF Joined
    <2>3. TypeOK'
      BY <2>1, <2>2 DEF IInv, TypeOK, tvars, task
    <2> QED
      BY <1>2, <2>1, <2>3 DEF IInv, InCycle, Watching, task
  <1> QED
    BY <1>1, <1>2

LEMMA LineInv ==
  ASSUME IInv, Line
  PROVE  IInv'
  <1>1. ASSUME NEW q \in Telegram, NEW kind \in Kind, Answer(q, kind)
        PROVE  IInv'
    <2>1. [query |-> q, kind |-> kind] \in Frame
      BY FrameTypes
    <2>2. asked' \subseteq Telegram
      BY <1>1 DEF Answer, IInv, TypeOK
    <2> QED
      BY <1>1, <2>1, <2>2, ReceiveInv DEF Answer
  <1>2. CASE LineNoise
    <2>1. Noise \in Frame /\ Noise.kind = "short"
      BY DEF Noise, Frame, Kind
    <2>2. asked' \subseteq Telegram
      BY <1>2 DEF LineNoise, IInv, TypeOK
    <2> QED
      BY <1>2, <2>1, <2>2, ReceiveInv DEF LineNoise
  <1> QED
    BY <1>1, <1>2 DEF Line

(* The timers and the end of a transmission notify the task.               *)
LEMMA TimersInv ==
  ASSUME IInv, Timers
  PROVE  IInv'
  <1>1. CASE T35Callback
    <2>1. /\ T35Timer /\ T35Timer' = FALSE /\ TimeoutTimer' = FALSE
          /\ pc' = Woken(pc) /\ notified' = "none"
          /\ UNCHANGED <<telegram, i8state, u8Buffer, sem, tvars, bus, expired>>
      BY <1>1 DEF T35Callback, Notify
    <2>2. TypeOK'
      BY <2>1 DEF IInv, TypeOK, Woken, tvars, bus
    <2>3. InCycle'
      BY <2>1 DEF IInv, InCycle, Woken, Asking, Transmitting, bus
    <2>4. Watching'
      BY <2>1 DEF IInv, Watching
    <2> QED
      BY <2>2, <2>3, <2>4 DEF IInv
  <1>2. CASE TimeoutCallback
    <2>1. /\ TimeoutTimer /\ pc # "await" /\ TimeoutTimer' = FALSE /\ expired' = TRUE
          /\ pc' = Woken(pc) /\ notified' = "ERR_TIME_OUT"
          /\ UNCHANGED <<telegram, i8state, u8Buffer, sem, tvars, bus, T35Timer>>
      BY <1>2 DEF TimeoutCallback, Notify
    <2>2. TypeOK'
      BY <2>1 DEF IInv, TypeOK, Woken, tvars, bus
    <2>3. InCycle'
      BY <2>1 DEF IInv, InCycle, Woken, Asking, Transmitting, bus
    <2>4. Watching'
      BY <2>1 DEF IInv, Watching, Woken, bus
    <2> QED
      BY <2>2, <2>3, <2>4 DEF IInv
  <1> QED
    BY <1>1, <1>2 DEF Timers

LEMMA TxCpltInv ==
  ASSUME IInv, TxCplt
  PROVE  IInv'
  <1>1. /\ wire = "busy" /\ wire' = "idle" /\ asked' = asked \cup {telegram}
        /\ pc' = Woken(pc) /\ notified' = notified
        /\ UNCHANGED <<telegram, i8state, u8Buffer, sem, tvars, timers, xTypeHW, xBufferRX>>
    BY DEF TxCplt, Notify
  <1>2. pc \in Transmitting /\ pc' \in Transmitting
    BY <1>1 DEF IInv, InCycle, Woken, Transmitting
  <1>3. TypeOK'
    <2>1. telegram \in Telegram
      BY <1>2 DEF IInv, InCycle, Transmitting
    <2> QED
      BY <1>1, <1>2, <2>1 DEF IInv, TypeOK, Transmitting, tvars, timers
  <1>4. InCycle'
    BY <1>1, <1>2 DEF IInv, InCycle, Asking, Transmitting
  <1>5. Watching'
    BY <1>1, <1>2 DEF IInv, Watching, Transmitting, timers
  <1> QED
    BY <1>3, <1>4, <1>5 DEF IInv

(* The task's own steps: with a telegram, sending it, waiting.             *)
LEMMA SendingInv ==
  ASSUME IInv,
         ReceiveTelegram \/ SendQueryRefused \/ SendQueryStart \/ TxTake
         \/ TxTakeExpires \/ TxTakeReturns \/ Sent \/ TakeBlocks
  PROVE  IInv'
  <1> USE DEF IInv
  <1>1. CASE ReceiveTelegram
    <2>1. /\ QueueTelegram \in Seq(Telegram) /\ QueueTelegram # <<>>
          /\ Len(QueueTelegram) =< MAX_TELEGRAMS /\ MAX_TELEGRAMS \in Nat
      BY <1>1, MasterAssumption DEF ReceiveTelegram, TypeOK
    <2>2. /\ Head(QueueTelegram) \in Telegram /\ Tail(QueueTelegram) \in Seq(Telegram)
          /\ Len(Tail(QueueTelegram)) =< MAX_TELEGRAMS
      BY <2>1
    <2>3. /\ pc = "idle" /\ pc' = "send" /\ telegram' \in Telegram
          /\ QueueTelegram' \in Seq(Telegram) /\ Len(QueueTelegram') =< MAX_TELEGRAMS
          /\ UNCHANGED <<caller, bus, timers, i8state, notified, u8Buffer, sem>>
      BY <1>1, <2>2 DEF ReceiveTelegram, Goto
    <2> QED
      BY <2>3 DEF TypeOK, InCycle, Watching, Asking, Transmitting, bus, timers
  <1>2. CASE SendQueryRefused
    BY <1>2 DEF SendQueryRefused, Goto, TypeOK, InCycle, Watching, Asking,
       Transmitting, tvars, bus, timers
  <1>3. CASE SendQueryStart
    BY <1>3 DEF SendQueryStart, Goto, TypeOK, InCycle, Watching, Asking,
       Transmitting, tvars, timers
  <1>4. CASE TxTake \/ TxTakeExpires
    BY <1>4 DEF TxTake, TxTakeExpires, Goto, TypeOK, InCycle, Watching, Asking,
       Transmitting, tvars, bus, timers
  <1>5. CASE TxTakeReturns
    BY <1>5 DEF TxTakeReturns, TypeOK, InCycle, Watching, Asking,
       Transmitting, tvars, bus, timers
  <1>6. CASE Sent
    BY <1>6 DEF Sent, Goto, TypeOK, InCycle, Watching, Asking,
       Transmitting, tvars, bus
  <1>7. CASE TakeBlocks
    BY <1>7 DEF TakeBlocks, Goto, TypeOK, InCycle, Watching, Asking,
       Transmitting, tvars, bus, timers
  <1> QED
    BY <1>1, <1>2, <1>3, <1>4, <1>5, <1>6, <1>7

(* The query ends with a result. *)
LEMMA TellInv ==
  ASSUME IInv, NEW r \in Result, Tell(r), pc \notin Transmitting,
         xTypeHW' = xTypeHW, wire' = wire, asked' = asked,
         T35Timer' = T35Timer, TimeoutTimer' \in {TimeoutTimer, FALSE},
         expired' = expired, notified' \in {notified, "none"},
         {u8Buffer', xBufferRX'} \subseteq Frame \cup {NoFrame},
         xTypeHW = "USART_HW" => ~TimeoutTimer' /\ notified' = "none"
  PROVE  IInv'
  <1>1. /\ pc' = "idle" /\ i8state' = "COM_IDLE"
        /\ caller' = [caller EXCEPT ![telegram.task] = r]
        /\ UNCHANGED <<QueueTelegram, telegram, sem>>
    BY DEF Tell
  <1>2. TypeOK'
    BY <1>1 DEF IInv, TypeOK
  <1>3. InCycle'
    BY <1>1 DEF IInv, InCycle, Asking, Transmitting
  <1>4. Watching'
    BY <1>1 DEF IInv, Watching
  <1> QED
    BY <1>2, <1>3, <1>4 DEF IInv

LEMMA EndingInv ==
  ASSUME IInv, TakeTimedOut \/ TakeReturns \/ ProcessShort \/ ProcessInvalid
               \/ ProcessValid \/ Store
  PROVE  IInv'
  <1>1. CASE TakeTimedOut
    <2>1. /\ Tell("ERR_TIME_OUT") /\ "ERR_TIME_OUT" \in Result /\ pc \notin Transmitting
          /\ UNCHANGED <<bus, timers, u8Buffer>> /\ notified' = "none"
      BY <1>1 DEF TakeTimedOut, Result, Transmitting
    <2>2. xTypeHW = "USART_HW" => ~TimeoutTimer
      BY <1>1 DEF TakeTimedOut, IInv, Watching
    <2> QED
      BY <2>1, <2>2, TellInv DEF bus, timers, IInv, TypeOK
  <1>2. CASE TakeReturns
    <2>1. /\ pc = "woken" /\ pc' = "process" /\ notified = "none"
          /\ UNCHANGED <<tvars, bus, timers, telegram, i8state, notified, u8Buffer, sem>>
      BY <1>2 DEF TakeReturns, Goto
    <2> QED
      BY <2>1 DEF IInv, TypeOK, InCycle, Watching, Asking, Transmitting,
         tvars, bus, timers
  <1>3. CASE ProcessShort
    <2>1. /\ Tell("ERR_BAD_SIZE") /\ "ERR_BAD_SIZE" \in Result /\ pc \notin Transmitting
          /\ UNCHANGED <<xTypeHW, wire, asked, timers, notified>>
          /\ xBufferRX' = NoFrame /\ u8Buffer' = xBufferRX
      BY <1>3 DEF ProcessShort, Result, Transmitting
    <2>2. xTypeHW = "USART_HW" => ~TimeoutTimer /\ notified = "none"
      BY <1>3 DEF ProcessShort, IInv, Watching, TypeOK
    <2> QED
      BY <2>1, <2>2, TellInv DEF timers, IInv, TypeOK
  <1>4. CASE ProcessInvalid
    <2>1. /\ Tell(validateAnswer(xBufferRX)) /\ validateAnswer(xBufferRX) \in Result
          /\ pc \notin Transmitting /\ TimeoutTimer' = FALSE
          /\ UNCHANGED <<xTypeHW, wire, asked, T35Timer, expired, notified>>
          /\ xBufferRX' = NoFrame /\ u8Buffer' = xBufferRX
      BY <1>4 DEF ProcessInvalid, validateAnswer, Result, Transmitting
    <2>2. xTypeHW = "USART_HW" => notified = "none"
      BY <1>4 DEF ProcessInvalid, IInv, Watching, TypeOK
    <2> QED
      BY <2>1, <2>2, TellInv DEF IInv, TypeOK
  <1>5. CASE ProcessValid
    <2>1. /\ pc = "process" /\ pc' = "store" /\ TimeoutTimer' = FALSE
          /\ xBufferRX' = NoFrame /\ u8Buffer' = xBufferRX
          /\ UNCHANGED <<tvars, xTypeHW, wire, asked, T35Timer, expired, telegram, i8state,
                         notified, sem>>
      BY <1>5 DEF ProcessValid, Goto
    <2>3. TypeOK'
      BY <2>1 DEF IInv, TypeOK, tvars
    <2>4. InCycle' /\ Watching'
      BY <2>1 DEF IInv, InCycle, Watching, Asking, Transmitting
    <2> QED
      BY <2>3, <2>4 DEF IInv
  <1>6. CASE Store
    <2>1. /\ Tell("ERR_OK_QUERY") /\ "ERR_OK_QUERY" \in Result /\ pc \notin Transmitting
          /\ UNCHANGED <<bus, timers, notified, u8Buffer>>
      BY <1>6 DEF Store, Result, Transmitting
    <2>2. xTypeHW = "USART_HW" => ~TimeoutTimer /\ notified = "none"
      BY <1>6 DEF Store, IInv, Watching, TypeOK
    <2> QED
      BY <2>1, <2>2, TellInv DEF bus, timers, IInv, TypeOK
  <1> QED
    BY <1>1, <1>2, <1>3, <1>4, <1>5, <1>6

(* Every step keeps the invariant. *)
LEMMA NextInv == IInv /\ [Next]_vars => IInv'
  <1> SUFFICES ASSUME IInv, [Next]_vars PROVE IInv'
    OBVIOUS
  <1>1. CASE Application
    BY <1>1, QueryInv, SemaphoreInv DEF Application
  <1>2. CASE Line
    BY <1>2, LineInv
  <1>3. CASE Timers
    BY <1>3, TimersInv
  <1>4. CASE TxCplt
    BY <1>4, TxCpltInv
  <1>5. CASE Master
    BY <1>5, SendingInv, EndingInv DEF Master
  <1>6. CASE UNCHANGED vars
    BY <1>6 DEF vars, tvars, bus, timers, task, IInv, TypeOK, InCycle, Watching
  <1> QED
    BY <1>1, <1>2, <1>3, <1>4, <1>5, <1>6 DEF Next

-----------------------------------------------------------------------------
(* The inductive invariant holds in every reachable state of the master.   *)
THEOREM Invariance == Spec => []IInv
  BY InitInv, NextInv, PTL DEF Spec

(* However a query ends, the next one can start, and the semaphore is held *)
(* only while one is being sent.                                           *)
THEOREM AlwaysReady == Spec => []ReadyForNext
  <1>1. IInv => ReadyForNext
    BY DEF IInv, InCycle, ReadyForNext, TypeOK, Asking, Transmitting
  <1> QED
    BY <1>1, Invariance, PTL

(* What a step tells the tasks is told by the steps that end a query.      *)
LEMMA WhoTells ==
  ASSUME IInv, [Next]_vars, NEW t \in Task, NEW r \in Result, ToldOf(t, r)
  PROVE  \/ TakeTimedOut /\ r = "ERR_TIME_OUT"
         \/ Store /\ r = "ERR_OK_QUERY"
         \/ r \notin {"ERR_TIME_OUT", "ERR_OK_QUERY"}
  <1>1. caller[t] = "waiting" /\ caller'[t] = r /\ r # "waiting" /\ caller' # caller
    BY DEF ToldOf, Waiting, Result
  <1>2. ~Application
    <2>1. ASSUME NEW q \in Telegram, ModbusQuery(q) \/ ModbusQueryInject(q) PROVE FALSE
      <3>1. caller' = [caller EXCEPT ![q.task] = "waiting"]
        BY <2>1 DEF ModbusQuery, ModbusQueryInject
      <3>2. caller'[t] = "waiting"
        BY <1>1, <3>1 DEF IInv, TypeOK
      <3> QED
        BY <1>1, <3>2
    <2>2. ~AppTake /\ ~AppGive
      BY <1>1 DEF AppTake, AppGive, tvars
    <2> QED
      BY <2>1, <2>2 DEF Application
  <1>3. ~Line /\ ~Timers /\ ~TxCplt /\ ~UNCHANGED vars
    BY <1>1 DEF Line, Answer, LineNoise, Receive, Timers, T35Callback, TimeoutCallback,
       TxCplt, vars, tvars
  <1>4. Master
    BY <1>2, <1>3 DEF Next
  <1>5. TakeTimedOut \/ ProcessShort \/ ProcessInvalid \/ Store
    BY <1>1, <1>4 DEF Master, ReceiveTelegram, SendQueryRefused, SendQueryStart, TxTake,
       TxTakeExpires, TxTakeReturns, Sent, TakeBlocks, TakeReturns, ProcessValid, tvars
  <1>6. ASSUME NEW x, Tell(x) PROVE x = r
    <2>1. caller' = [caller EXCEPT ![telegram.task] = x]
      BY <1>6 DEF Tell
    <2> QED
      BY <1>1, <2>1 DEF IInv, TypeOK
  <1>7. CASE TakeTimedOut
    BY <1>6, <1>7 DEF TakeTimedOut
  <1>8. CASE Store
    BY <1>6, <1>8 DEF Store
  <1>9. CASE ProcessShort \/ ProcessInvalid
    <2>1. r \in {"ERR_BAD_SIZE", "ERR_BAD_CRC", "ERR_EXCEPTION"}
      BY <1>6, <1>9 DEF ProcessShort, ProcessInvalid, validateAnswer
    <2> QED
      BY <2>1
  <1> QED
    BY <1>5, <1>7, <1>8, <1>9

(* By interrupt, a task is told of a timeout only if the timeout of its    *)
(* own query expired, whatever the slaves send and when.                   *)
THEOREM TimeoutsReal == Spec => TimeoutIsReal
  <1>1. IInv /\ [Next]_vars =>
        [\A t \in Task : xTypeHW = "USART_HW" /\ ToldOf(t, "ERR_TIME_OUT") => expired]_vars
    <2> SUFFICES ASSUME IInv, [Next]_vars, xTypeHW = "USART_HW",
                        NEW t \in Task, ToldOf(t, "ERR_TIME_OUT")
                 PROVE  expired
      OBVIOUS
    <2>1. TakeTimedOut
      <3>1. "ERR_TIME_OUT" \in Result
        BY DEF Result
      <3> QED
        BY <3>1, WhoTells
    <2> QED
      BY <2>1 DEF TakeTimedOut, IInv, Watching
  <1> QED
    BY <1>1, Invariance, PTL DEF Spec, TimeoutIsReal

-----------------------------------------------------------------------------
(***************************************************************************)
(* The receive buffer.                                                     *)
(***************************************************************************)

(* An index goes on by one, and from the last slot to the first.           *)
LEMMA NextIndexIs ==
  ASSUME CountWraps, NEW i \in Index
  PROVE  /\ NextIndex(i) = IF i + 1 = MAX_BUFFER THEN 0 ELSE i + 1
         /\ (i + 1) % U8 = NextIndex(i)
<1>1. CASE i + 1 = MAX_BUFFER
  BY <1>1 DEF CountWraps, Index, NextIndex
<1>2. CASE i + 1 # MAX_BUFFER
  BY <1>2 DEF CountWraps, Index, NextIndex
<1> QED BY <1>1, <1>2

(* A chunk is a function on as many numbers as its length says.            *)
LEMMA ChunkIs ==
  ASSUME NEW n \in Nat, NEW c \in Chunk(n)
  PROVE  Len(c) \in 0..n /\ c \in [1..Len(c) -> Byte] /\ c \in Seq(Byte)
<1>1. PICK k \in 0..n : c \in [1..k -> Byte]
  BY DEF Chunk
<1>2. c \in Seq(Byte) /\ Len(c) = k
  BY <1>1
<1> QED BY <1>1, <1>2

(* A sequence of bytes no longer than n is a chunk.                        *)
LEMMA ChunkFrom ==
  ASSUME NEW n \in Nat, NEW c \in Seq(Byte), Len(c) =< n
  PROVE  c \in Chunk(n)
<1>1. Len(c) \in 0..n /\ c \in [1..Len(c) -> Byte]
  BY LenProperties
<1> QED BY <1>1 DEF Chunk

(* A byte more makes a chunk that is longer by one.                        *)
LEMMA ChunkAppend ==
  ASSUME NEW n \in Nat, NEW c \in Chunk(n), NEW b \in Byte, Len(c) < n
  PROVE  /\ Append(c, b) \in Chunk(n) /\ Len(Append(c, b)) = Len(c) + 1
         /\ \A i \in 1..Len(c) : Append(c, b)[i] = c[i]
         /\ Append(c, b)[Len(c) + 1] = b
<1>1. Len(c) \in 0..n /\ c \in Seq(Byte)
  BY ChunkIs
<1>2. Append(c, b) \in Seq(Byte) /\ Len(Append(c, b)) = Len(c) + 1
  BY <1>1
<1>3. Append(c, b) \in Chunk(n)
  <2>1. Len(Append(c, b)) =< n
    BY <1>1, <1>2
  <2> QED BY <1>2, <2>1, ChunkFrom
<1>4. /\ \A i \in 1..Len(c) : Append(c, b)[i] = c[i]
      /\ Append(c, b)[Len(c) + 1] = b
  BY <1>1, AppendProperties
<1> QED BY <1>2, <1>3, <1>4

-----------------------------------------------------------------------------
(***************************************************************************)
(* The inductive invariant: the count is that of the bytes received, but   *)
(* for whole buffers of them, which it has forgotten; and as many bytes as *)
(* it says, the last ones, lie at the start of the buffer in their order.  *)
(***************************************************************************)

Counted ==
  /\ ~overflow /\ result = "OK"
  /\ u8start = 0 /\ u8available < MAX_BUFFER /\ u8available =< Len(received)
  /\ Len(received) < MAX_BUFFER => u8available = Len(received)
  /\ portHW = "USART_HW" => u8end = u8available

InOrder ==
  \A i \in 1..u8available :
    uxBuffer[i - 1] = received[Len(received) - u8available + i]

RingInv == RingTypeOK /\ Counted /\ InOrder

(* The buffer ModbusInit leaves is empty. *)
LEMMA RingInitInv == ASSUME CountWraps, RingInit PROVE RingInv
<1>1. <<>> \in Chunk(MAX_BUFFER) /\ <<>> \in Chunk(MaxFrame) /\ Len(<<>>) = 0
  BY DEF CountWraps, Chunk
<1>2. RingTypeOK
  BY <1>1 DEF CountWraps, RingInit, RingTypeOK, Index
<1>3. Counted
  BY <1>1 DEF CountWraps, RingInit, Counted
<1>4. InOrder
  BY DEF RingInit, InOrder
<1> QED BY <1>2, <1>3, <1>4 DEF RingInv

(* A byte more: it goes behind those that are counted, and after the last  *)
(* one that fits the count starts again.                                   *)
LEMMA RingAddInv ==
  ASSUME CountWraps, RingInv, NEW b \in Byte, RingAdd(b)
  PROVE  RingInv'
<1>1. /\ received \in Chunk(MaxFrame) /\ Len(received) \in Nat
      /\ Len(received) < MaxFrame /\ MAX_BUFFER \in Nat \ {0}
      /\ u8available \in Index /\ u8end = u8available
  BY ChunkIs DEF CountWraps, RingAdd, RingInv, RingTypeOK, Counted, Index
<1>2. /\ received' \in Chunk(MaxFrame) /\ Len(received') = Len(received) + 1
      /\ \A i \in 1..Len(received) : received'[i] = received[i]
      /\ received'[Len(received) + 1] = b
  BY <1>1, ChunkAppend DEF CountWraps, RingAdd
<1>3. ~Full
  BY <1>1 DEF Full, Index
<1>4. /\ portHW = "USART_HW" /\ UNCHANGED <<portHW, taken, result>>
      /\ uxBuffer' = [uxBuffer EXCEPT ![u8available] = b]
      /\ overflow' = FALSE /\ u8start' = 0
  BY <1>1, <1>3 DEF RingAdd, RingInv, Counted
<1>5. /\ u8end' = IF u8available + 1 = MAX_BUFFER THEN 0 ELSE u8available + 1
      /\ u8available' = u8end'
  BY <1>1, <1>3, NextIndexIs DEF RingAdd
<1>6. RingTypeOK'
  <2>1. u8start' \in Index /\ u8end' \in Index /\ u8available' \in 0..MAX_BUFFER
    BY <1>1, <1>4, <1>5 DEF Index
  <2>2. uxBuffer' \in [Index -> Byte]
    BY <1>4 DEF RingInv, RingTypeOK
  <2> QED BY <1>2, <1>4, <2>1, <2>2 DEF RingInv, RingTypeOK
<1>7. Counted'
  BY <1>1, <1>2, <1>4, <1>5 DEF RingInv, Counted, Index
<1>8. InOrder'
  <2> SUFFICES ASSUME NEW i \in 1..u8available'
               PROVE  uxBuffer'[i - 1] = received'[Len(received') - u8available' + i]
    BY DEF InOrder
  <2>1. u8available' = u8available + 1 /\ Len(received') - u8available' = Len(received) - u8available
    BY <1>1, <1>2, <1>5 DEF Index
  <2>2. CASE i = u8available + 1
    <3>1. uxBuffer'[u8available] = b
      BY <1>1, <1>4 DEF RingInv, RingTypeOK
    <3>2. Len(received') - u8available' + i = Len(received) + 1 /\ i - 1 = u8available
      BY <1>1, <2>1, <2>2 DEF Index
    <3> QED BY <1>2, <3>1, <3>2
  <2>3. CASE i # u8available + 1
    <3>1. /\ i \in 1..u8available /\ i - 1 \in Index /\ i - 1 # u8available
          /\ Len(received) - u8available + i \in 1..Len(received)
      BY <1>1, <2>1, <2>3 DEF Index, RingInv, Counted
    <3>2. uxBuffer'[i - 1] = uxBuffer[i - 1]
      BY <1>4, <3>1 DEF RingInv, RingTypeOK
    <3>3. uxBuffer[i - 1] = received[Len(received) - u8available + i]
      BY <3>1 DEF RingInv, InOrder
    <3> QED BY <1>2, <2>1, <3>1, <3>2, <3>3
  <2> QED BY <2>2, <2>3
<1> QED BY <1>6, <1>7, <1>8 DEF RingInv

(* A frame by DMA lies at the start of the buffer; one that fills it is    *)
(* counted as nothing.                                                     *)
LEMMA RxEventInv ==
  ASSUME CountWraps, RingInv, NEW frame \in Chunk(MAX_BUFFER), RxEvent(frame)
  PROVE  RingInv'
<1>1. MAX_BUFFER \in Nat \ {0} /\ MaxFrame \in Nat /\ MAX_BUFFER =< MaxFrame
  BY DEF CountWraps
<1>2. /\ Len(frame) \in 0..MAX_BUFFER /\ frame \in [1..Len(frame) -> Byte]
      /\ frame \in Seq(Byte)
  BY <1>1, ChunkIs
<1>3. /\ received' = frame /\ overflow' = FALSE /\ portHW = "USART_HW_DMA"
      /\ uxBuffer' = [i \in Index |-> IF i < Len(frame) THEN frame[i + 1] ELSE uxBuffer[i]]
      /\ UNCHANGED <<u8start, u8end, portHW, taken, result>>
  BY DEF RxEvent
<1>4. u8available' = IF Len(frame) = MAX_BUFFER THEN 0 ELSE Len(frame)
  <2>1. u8available' = Len(frame) % MAX_BUFFER
    BY DEF RxEvent, CountWraps
  <2>2. CASE Len(frame) = MAX_BUFFER
    BY <1>1, <2>1, <2>2
  <2>3. CASE Len(frame) # MAX_BUFFER
    <3> DEFINE n == Len(frame)
    <3>1. n \in 0..MAX_BUFFER /\ n # MAX_BUFFER /\ u8available' = n % MAX_BUFFER
      BY <1>2, <2>1, <2>3
    <3> HIDE DEF n
    <3>2. u8available' = n
      BY <1>1, <3>1
    <3> QED BY <2>3, <3>2 DEF n
  <2> QED BY <2>2, <2>3
<1>5. received' \in Chunk(MaxFrame)
  BY <1>1, <1>2, <1>3, ChunkFrom
<1>6. \A i \in Index : uxBuffer'[i] \in Byte
  BY <1>1, <1>2, <1>3 DEF RingInv, RingTypeOK, Index
<1>7. RingTypeOK'
  <2>1. u8available' \in 0..MAX_BUFFER
    <3>1. MAX_BUFFER \in 0..MAX_BUFFER /\ 0 \in 0..MAX_BUFFER
      BY <1>1
    <3> QED BY <1>2, <1>4, <3>1, Zenon
  <2>2. uxBuffer' \in [Index -> Byte] /\ overflow' \in BOOLEAN
    BY <1>3, <1>6
  <2> QED BY <1>3, <1>5, <2>1, <2>2 DEF RingInv, RingTypeOK
<1>8. Counted'
  <2> DEFINE n == Len(frame)
  <2>1. /\ ~overflow' /\ result' = "OK" /\ u8start' = 0 /\ portHW' # "USART_HW"
        /\ Len(received') = n /\ n \in 0..MAX_BUFFER
        /\ u8available' = IF n = MAX_BUFFER THEN 0 ELSE n
    BY <1>2, <1>3, <1>4 DEF RingInv, Counted
  <2> HIDE DEF n
  <2>2. /\ u8available' < MAX_BUFFER /\ u8available' =< n
        /\ n < MAX_BUFFER => u8available' = n
    BY <1>1, <2>1
  <2> QED BY <2>1, <2>2 DEF Counted
<1>9. InOrder'
  <2> SUFFICES ASSUME NEW i \in 1..u8available'
               PROVE  uxBuffer'[i - 1] = frame[Len(frame) - u8available' + i]
    BY <1>3 DEF InOrder
  <2>1. u8available' = Len(frame) /\ i \in 1..Len(frame)
    BY <1>2, <1>4
  <2>2. i - 1 \in Index /\ i - 1 < Len(frame) /\ (i - 1) + 1 = i /\ Len(frame) - u8available' + i = i
    BY <1>1, <1>2, <2>1 DEF Index
  <2> QED BY <1>3, <2>2
<1> QED BY <1>7, <1>8, <1>9 DEF RingInv

(* What getRxBuffer copies is the end of what has been received.           *)
LEMMA ContentsAre ==
  ASSUME CountWraps, RingInv
  PROVE  /\ Contents = EndOf(received, u8available) /\ Contents \in Chunk(MAX_BUFFER)
         /\ Len(received) < MAX_BUFFER => Contents = received
         /\ u8available \in 0..Len(received)
<1>1. /\ MAX_BUFFER \in Nat \ {0} /\ Len(received) \in Nat
      /\ received \in [1..Len(received) -> Byte]
      /\ u8available \in 0..(MAX_BUFFER - 1) /\ u8available =< Len(received) /\ u8start = 0
  BY ChunkIs DEF CountWraps, RingInv, RingTypeOK, Counted
<1>2. ASSUME NEW i \in 1..u8available
      PROVE  /\ uxBuffer[(u8start + i - 1) % MAX_BUFFER] = received[Len(received) - u8available + i]
             /\ received[Len(received) - u8available + i] \in Byte
  <2>1. u8start + i - 1 = i - 1 /\ (i - 1) % MAX_BUFFER = i - 1
    BY <1>1
  <2>2. Len(received) - u8available + i \in 1..Len(received)
    BY <1>1
  <2> QED BY <1>1, <2>1, <2>2 DEF RingInv, InOrder
<1>3. Contents = EndOf(received, u8available)
  BY <1>2 DEF Contents, EndOf
<1>4. Contents \in [1..u8available -> Byte]
  BY <1>2 DEF Contents
<1>5. Contents \in Chunk(MAX_BUFFER)
  BY <1>1, <1>4 DEF Chunk
<1>6. ASSUME Len(received) < MAX_BUFFER PROVE EndOf(received, u8available) = received
  <2>1. u8available = Len(received)
    BY <1>6 DEF RingInv, Counted
  <2>2. \A i \in 1..Len(received) : Len(received) - u8available + i = i
    BY <1>1, <2>1
  <2> QED BY <1>1, <2>1, <2>2 DEF EndOf
<1> QED BY <1>1, <1>3, <1>5, <1>6

(* getRxBuffer leaves the buffer empty. *)
LEMMA getRxBufferInv ==
  ASSUME CountWraps, RingInv, getRxBuffer
  PROVE  RingInv' /\ result' = "OK" /\ taken' = Contents
<1>1. MAX_BUFFER \in Nat \ {0} /\ MaxFrame \in Nat /\ u8available \in 0..MAX_BUFFER
  BY DEF CountWraps, RingInv, RingTypeOK
<1>2. ~overflow /\ result' = "OK" /\ taken' = Contents
  BY DEF getRxBuffer, RingInv, Counted
<1>3. /\ u8start' = 0 /\ u8available' = 0 /\ overflow' = FALSE
      /\ portHW = "USART_HW" => u8end' = 0
      /\ received' = <<>> /\ UNCHANGED <<uxBuffer, portHW>> /\ u8end' \in Index
  <2>1. CASE u8available > 0
    BY <1>1, <2>1 DEF getRxBuffer, Cleared, Index
  <2>2. CASE u8available = 0
    <3>1. UNCHANGED <<u8start, u8end, u8available, overflow, uxBuffer, portHW>> /\ received' = <<>>
      BY <1>1, <1>2, <2>2 DEF getRxBuffer
    <3> QED BY <2>2, <3>1 DEF RingInv, RingTypeOK, Counted
  <2>3. u8available > 0 \/ u8available = 0
    BY <1>1
  <2> QED BY <2>1, <2>2, <2>3, Zenon
<1>4. <<>> \in Chunk(MaxFrame) /\ Len(<<>>) = 0
  BY <1>1 DEF Chunk
<1>5. RingTypeOK'
  <2>1. u8start' \in Index /\ u8available' \in 0..MAX_BUFFER
    BY <1>1, <1>3 DEF Index
  <2>2. taken' \in Chunk(MAX_BUFFER) /\ received' \in Chunk(MaxFrame)
    BY <1>2, <1>3, <1>4, ContentsAre
  <2> QED BY <1>2, <1>3, <2>1, <2>2 DEF RingInv, RingTypeOK
<1>6. Counted'
  BY <1>1, <1>2, <1>3, <1>4 DEF Counted
<1>7. InOrder'
  BY <1>3 DEF InOrder
<1> QED BY <1>2, <1>5, <1>6, <1>7 DEF RingInv

(* Every step keeps the invariant. *)
LEMMA RingNextInv == ASSUME CountWraps PROVE RingInv /\ [RingNext]_ringVars => RingInv'
<1> SUFFICES ASSUME RingInv, [RingNext]_ringVars PROVE RingInv'
  OBVIOUS
<1>1. ASSUME NEW b \in Byte, RingAdd(b) PROVE RingInv'
  BY <1>1, RingAddInv
<1>2. ASSUME NEW frame \in Chunk(MAX_BUFFER), RxEvent(frame) PROVE RingInv'
  BY <1>2, RxEventInv
<1>3. CASE getRxBuffer
  BY <1>3, getRxBufferInv
<1>4. CASE UNCHANGED ringVars
  BY <1>4 DEF ringVars, ring, RingInv, RingTypeOK, Counted, InOrder
<1> QED BY <1>1, <1>2, <1>3, <1>4 DEF RingNext

-----------------------------------------------------------------------------
(* The inductive invariant holds in every reachable state. *)
THEOREM RingInvariance == ASSUME CountWraps PROVE RingSpec => []RingInv
<1>1. RingInit => RingInv
  BY RingInitInv
<1> QED BY <1>1, RingNextInv, PTL DEF RingSpec

(* The counters and the indices stay in the buffer. *)
THEOREM RingTypeCorrect == ASSUME CountWraps PROVE RingSpec => []RingTypeOK
<1>1. RingInv => RingTypeOK
  BY DEF RingInv
<1> QED BY <1>1, RingInvariance, PTL

(* With a count that wraps at the size of the buffer, no overflow is ever  *)
(* noted or returned, however many bytes come.                             *)
THEOREM OverflowNeverSeen == ASSUME CountWraps PROVE RingSpec => []NeverFull
<1>1. RingInv => NeverFull
  BY DEF RingInv, Counted, NeverFull
<1> QED BY <1>1, RingInvariance, PTL

(* A frame shorter than the buffer is taken from its first byte to its     *)
(* last, whatever came before it.                                          *)
THEOREM FramesIntact == ASSUME CountWraps PROVE RingSpec => FrameIntact
<1>1. RingInv /\ [RingNext]_ringVars
      => [getRxBuffer /\ Len(received) < MAX_BUFFER
          => result' = "OK" /\ taken' = received]_ringVars
  BY ContentsAre, getRxBufferInv
<1> QED BY <1>1, RingInvariance, PTL DEF RingSpec, FrameIntact

(* What is taken of a longer one is its end, and never a byte received     *)
(* before it.                                                              *)
THEOREM NeverStale == ASSUME CountWraps PROVE RingSpec => NothingStale
<1>1. RingInv /\ [RingNext]_ringVars
      => [getRxBuffer => \E n \in 0..Len(received) : taken' = EndOf(received, n)]_ringVars
  BY ContentsAre, getRxBufferInv
<1> QED BY <1>1, RingInvariance, PTL DEF RingSpec, NothingStale
=============================================================================
