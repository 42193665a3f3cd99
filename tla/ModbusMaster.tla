---------------------------- MODULE ModbusMaster ----------------------------
(***************************************************************************)
(* The Modbus RTU master, components/MODBUS: StartTaskModbusMaster with    *)
(* the tasks that queue telegrams, the UART callbacks and the two FreeRTOS *)
(* timers around it.                                                       *)
(*                                                                         *)
(* A frame is one value: what it answers and what kind of frame it is.     *)
(* Two frames in one buffer fail the CRC.  FreeRTOS is modelled by what    *)
(* the code relies on: ulTaskNotifyTake blocks while the notification      *)
(* value is 0, and any notification wakes a task that is blocked, even one *)
(* that leaves the value at 0; a task that is not blocked does not learn   *)
(* of such a notification.                                                 *)
(***************************************************************************)
EXTENDS Naturals, Sequences

CONSTANTS
  Task,          \* the application's tasks that query slaves
  Injector,      \* those of them that use ModbusQueryInject too
  Telegram,      \* what they ask: the task and the address of the slave
  MAX_TELEGRAMS

ASSUME MasterAssumption ==
  /\ Injector \subseteq Task /\ Telegram \subseteq [task : Task, slave : 0..247]
  /\ MAX_TELEGRAMS \in Nat \ {0}

NoTelegram == [task |-> "none", slave |-> 0]

Kind == {"answer", "exception", "garbled", "short"}
Frame == [query : Telegram \cup {NoTelegram}, kind : Kind]
NoFrame == [query |-> NoTelegram, kind |-> "empty"]
Garbled == [query |-> NoTelegram, kind |-> "garbled"]
Noise == [query |-> NoTelegram, kind |-> "short"]

Result == {"ERR_OK_QUERY", "ERR_TIME_OUT", "ERR_BAD_SIZE", "ERR_BAD_CRC",
           "ERR_EXCEPTION"}

VARIABLES
  xTypeHW,       \* how the port is driven, set once: "USART_HW" or "USART_HW_DMA"
  QueueTelegram, \* the telegrams waiting, oldest first
  caller,        \* per task: the result it was last notified of, or waiting
  pc,            \* where the master's task is
  telegram,      \* the telegram it works on
  i8state,
  notified,      \* its notification value: "none" (0) or "ERR_TIME_OUT"
  u8Buffer,      \* the frame it works on
  sem,           \* who holds ModBusSphrHandle
  xBufferRX,     \* what the UART received and the task has not taken
  T35Timer, TimeoutTimer,  \* the timers that are running
  expired,       \* history: a timeout since xTimerTimeout was last started
  wire,          \* the transmitter is busy
  asked          \* the queries a slave has received and not answered

tvars == <<QueueTelegram, caller>>
bus == <<xTypeHW, wire, asked, xBufferRX>>
timers == <<T35Timer, TimeoutTimer, expired>>
task == <<pc, telegram, i8state, notified, u8Buffer, sem>>
vars == <<tvars, bus, timers, task>>

Init ==
  /\ xTypeHW \in {"USART_HW", "USART_HW_DMA"}
  /\ QueueTelegram = <<>> /\ caller = [t \in Task |-> "new"]
  /\ pc = "idle" /\ telegram = NoTelegram /\ i8state = "COM_IDLE"
  /\ notified = "none" /\ u8Buffer = NoFrame /\ sem = "free"
  /\ xBufferRX = NoFrame
  /\ T35Timer = FALSE /\ TimeoutTimer = FALSE /\ expired = FALSE
  /\ wire = "idle" /\ asked = {}

-----------------------------------------------------------------------------
(* The application.  A task waits for its notification before it asks      *)
(* again.                                                                  *)

(* Each operator named ..._Bug is a fault the properties are to notice: it *)
(* stands before the definition it would replace.                          *)

(* A telegram that does not fit is dropped without a word. *)
ModbusQuery(q) ==
  /\ caller[q.task] # "waiting"
  /\ caller' = [caller EXCEPT ![q.task] = "waiting"]
  /\ QueueTelegram' = IF Len(QueueTelegram) < MAX_TELEGRAMS
                      THEN Append(QueueTelegram, q) ELSE QueueTelegram
  /\ UNCHANGED <<bus, timers, task>>

(* xQueueReset empties the queue first. *)
ModbusQueryInject(q) ==
  /\ q.task \in Injector /\ caller[q.task] # "waiting"
  /\ caller' = [caller EXCEPT ![q.task] = "waiting"]
  /\ QueueTelegram' = <<q>>
  /\ UNCHANGED <<bus, timers, task>>

(* The application reads or writes the shared data under the semaphore.    *)
AppTake == sem = "free" /\ sem' = "application"
           /\ UNCHANGED <<tvars, bus, timers, pc, telegram, i8state, notified, u8Buffer>>
AppGive == sem = "application" /\ sem' = "free"
           /\ UNCHANGED <<tvars, bus, timers, pc, telegram, i8state, notified, u8Buffer>>

-----------------------------------------------------------------------------
(* Notifications of the master's task. *)

Woken(here) == CASE here = "txBlocked" -> "txWoken"
                 [] here = "blocked" -> "woken"
                 [] OTHER -> here

Notify(value) ==
  /\ pc' = Woken(pc) /\ notified' = value
  /\ UNCHANGED <<telegram, i8state, u8Buffer, sem>>

(* HAL_UART_TxCpltCallback notifies with eNoAction. The slave has the      *)
(* query.                                                                  *)
TxCplt ==
  /\ wire = "busy" /\ wire' = "idle"
  /\ asked' = asked \cup {telegram}
  /\ Notify(notified)
  /\ UNCHANGED <<tvars, timers, xTypeHW, xBufferRX>>

(* What two frames in one buffer make; bytes of noise may stay too few.    *)
Joined(f, g) == CASE f = NoFrame -> {g}
                  [] f = Noise /\ g = Noise -> {Noise, Garbled}
                  [] OTHER -> {Garbled}

(* A frame has come in.  By interrupt: RingAdd byte by byte, each byte     *)
(* starting the 3.5 character timer again.  By DMA: the frame is at the    *)
(* start of the buffer whatever was there, and the task is notified.       *)
Receive(f) ==
  IF xTypeHW = "USART_HW_DMA"
  THEN xBufferRX' = f /\ Notify("none") /\ UNCHANGED <<tvars, timers, xTypeHW, wire>>
  ELSE /\ xBufferRX' \in Joined(xBufferRX, f)
       /\ T35Timer' = TRUE
       /\ UNCHANGED <<tvars, TimeoutTimer, expired, task, xTypeHW, wire>>

(* The answer may come long after the master has given the query up.       *)
Answer(q, kind) ==
  /\ q \in asked
  /\ asked' = asked \ {q}
  /\ Receive([query |-> q, kind |-> kind])

LineNoise == Receive(Noise) /\ UNCHANGED asked

(* The timeout goes on while the frame is looked at. *)
T35Callback_Bug ==
  /\ T35Timer /\ T35Timer' = FALSE
  /\ Notify("none")
  /\ UNCHANGED <<tvars, bus, TimeoutTimer, expired>>

(* vTimerCallbackT35: the frame is complete. *)
T35Callback ==
  /\ T35Timer /\ T35Timer' = FALSE
  /\ TimeoutTimer' = FALSE
  /\ Notify("none")
  /\ UNCHANGED <<tvars, bus, expired>>

(* vTimerCallbackTimeout.  TIMEOUT_MODBUS is long against what may keep    *)
(* the task from running between the start of the timer and the call that  *)
(* waits for it.                                                           *)
TimeoutCallback ==
  /\ TimeoutTimer /\ pc # "await"
  /\ TimeoutTimer' = FALSE /\ expired' = TRUE
  /\ Notify("ERR_TIME_OUT")
  /\ UNCHANGED <<tvars, bus, T35Timer>>

-----------------------------------------------------------------------------
(* StartTaskModbusMaster. *)

Goto(here, there) == pc = here /\ pc' = there

ReceiveTelegram ==
  /\ Goto("idle", "send") /\ QueueTelegram # <<>>
  /\ telegram' = Head(QueueTelegram) /\ QueueTelegram' = Tail(QueueTelegram)
  /\ UNCHANGED <<caller, bus, timers, i8state, notified, u8Buffer, sem>>

(* SendQuery's checks. The caller of SendQuery does not look at its result.*)
Refuses == i8state # "COM_IDLE" \/ telegram.slave \notin 1..247

SendQueryRefused ==
  /\ Goto("send", "await") /\ sem = "free" /\ Refuses
  /\ UNCHANGED <<tvars, bus, timers, telegram, i8state, notified, u8Buffer, sem>>

SendQueryStart ==
  /\ Goto("send", "tx") /\ sem = "free" /\ ~Refuses
  /\ sem' = "master" /\ u8Buffer' = NoFrame
  /\ wire' = "busy"
  /\ UNCHANGED <<tvars, xTypeHW, asked, xBufferRX, timers, telegram, i8state, notified>>

(* sendTxBuffer waits 250 ticks for the end of the transmission, or until  *)
(* any notification, and then for the transmission complete flag.          *)
TxTake ==
  /\ notified = "none" /\ Goto("tx", "txBlocked")
  /\ UNCHANGED <<tvars, bus, timers, telegram, i8state, notified, u8Buffer, sem>>
TxTakeExpires ==
  /\ Goto("txBlocked", "txWoken")
  /\ UNCHANGED <<tvars, bus, timers, telegram, i8state, notified, u8Buffer, sem>>
TxTakeReturns ==
  /\ pc = "txWoken" \/ (pc = "tx" /\ notified # "none")
  /\ pc' = "tc" /\ notified' = "none"
  /\ UNCHANGED <<tvars, bus, timers, telegram, i8state, u8Buffer, sem>>

(* The timeout is not started. *)
Sent_Bug ==
  /\ Goto("tc", "await") /\ wire = "idle"
  /\ sem' = "free" /\ i8state' = "COM_WAITING"
  /\ UNCHANGED <<tvars, bus, timers, telegram, notified, u8Buffer>>

(* The frame is out: the timeout starts and SendQuery returns. *)
Sent ==
  /\ Goto("tc", "await") /\ wire = "idle"
  /\ TimeoutTimer' = TRUE /\ expired' = FALSE
  /\ sem' = "free" /\ i8state' = "COM_WAITING"
  /\ UNCHANGED <<tvars, bus, T35Timer, telegram, notified, u8Buffer>>

TakeBlocks ==
  /\ notified = "none" /\ Goto("await", "blocked")
  /\ UNCHANGED <<tvars, bus, timers, telegram, i8state, notified, u8Buffer, sem>>

(* The query is over and its caller is told. *)
Tell(result) ==
  /\ pc' = "idle" /\ i8state' = "COM_IDLE"
  /\ caller' = [caller EXCEPT ![telegram.task] = result]
  /\ UNCHANGED <<QueueTelegram, telegram, sem>>

TakeTimedOut ==
  /\ pc \in {"await", "woken"} /\ notified = "ERR_TIME_OUT"
  /\ notified' = "none"
  /\ Tell("ERR_TIME_OUT")
  /\ UNCHANGED <<bus, timers, u8Buffer>>

TakeReturns ==
  /\ Goto("woken", "process") /\ notified = "none"
  /\ UNCHANGED <<tvars, bus, timers, telegram, i8state, notified, u8Buffer, sem>>

(* An exception is five bytes long, and every other answer six or more.    *)
TooShort(f) == f.kind \in {"empty", "short", "exception"}

(* validateAnswer, in its order; the address is not among its checks.      *)
validateAnswer(f) ==
  CASE f.kind = "garbled" -> "ERR_BAD_CRC"
    [] f.kind = "exception" -> "ERR_EXCEPTION"
    [] OTHER -> "OK"

(* The early way out leaves the state machine waiting. *)
ProcessShort_Bug ==
  /\ Goto("process", "idle") /\ TooShort(xBufferRX)
  /\ xBufferRX' = NoFrame /\ u8Buffer' = xBufferRX
  /\ caller' = [caller EXCEPT ![telegram.task] = "ERR_BAD_SIZE"]
  /\ UNCHANGED <<QueueTelegram, telegram, i8state, sem, xTypeHW, wire, asked,
                 timers, notified>>

(* getRxBuffer takes everything received.  A frame that is too short       *)
(* leaves the timeout running.                                             *)
ProcessShort ==
  /\ pc = "process" /\ TooShort(xBufferRX)
  /\ xBufferRX' = NoFrame /\ u8Buffer' = xBufferRX
  /\ Tell("ERR_BAD_SIZE")
  /\ UNCHANGED <<xTypeHW, wire, asked, timers, notified>>

ProcessInvalid ==
  /\ pc = "process" /\ ~TooShort(xBufferRX)
  /\ validateAnswer(xBufferRX) # "OK"
  /\ xBufferRX' = NoFrame /\ u8Buffer' = xBufferRX
  /\ TimeoutTimer' = FALSE
  /\ Tell(validateAnswer(xBufferRX))
  /\ UNCHANGED <<xTypeHW, wire, asked, T35Timer, expired, notified>>

ProcessValid ==
  /\ Goto("process", "store") /\ ~TooShort(xBufferRX)
  /\ validateAnswer(xBufferRX) = "OK"
  /\ xBufferRX' = NoFrame /\ u8Buffer' = xBufferRX
  /\ TimeoutTimer' = FALSE
  /\ UNCHANGED <<tvars, xTypeHW, wire, asked, T35Timer, expired, telegram, i8state,
                 notified, sem>>

(* get_FC1 or get_FC3 store the answer's data where the telegram said.     *)
Store ==
  /\ pc = "store" /\ sem = "free"
  /\ Tell("ERR_OK_QUERY")
  /\ UNCHANGED <<bus, timers, notified, u8Buffer>>

-----------------------------------------------------------------------------
Application ==
  \/ \E q \in Telegram : ModbusQuery(q) \/ ModbusQueryInject(q)
  \/ AppTake \/ AppGive

Line ==
  \/ \E q \in Telegram, kind \in Kind : Answer(q, kind)
  \/ LineNoise

Timers == T35Callback \/ TimeoutCallback

Master ==
  \/ ReceiveTelegram \/ SendQueryRefused \/ SendQueryStart
  \/ TxTake \/ TxTakeExpires \/ TxTakeReturns \/ Sent
  \/ TakeBlocks \/ TakeTimedOut \/ TakeReturns
  \/ ProcessShort \/ ProcessInvalid \/ ProcessValid \/ Store

Next == Application \/ Line \/ Timers \/ TxCplt \/ Master

Spec == Init /\ [][Next]_vars

(* The task gets the processor and, when it waits for the semaphore, its   *)
(* turn; the application gives the semaphore back; timers expire and       *)
(* transmissions end.  Nothing obliges a slave to answer.                  *)
FairSpec ==
  /\ Spec /\ SF_vars(Master) /\ WF_vars(AppGive)
  /\ WF_vars(T35Callback) /\ WF_vars(TimeoutCallback) /\ WF_vars(TxCplt)

-----------------------------------------------------------------------------
(* Properties. *)

Waiting(t) == caller[t] = "waiting"
ToldOf(t, result) == Waiting(t) /\ caller'[t] = result

(* The values the variables take. *)
TypeOK ==
  /\ xTypeHW \in {"USART_HW", "USART_HW_DMA"}
  /\ QueueTelegram \in Seq(Telegram) /\ Len(QueueTelegram) =< MAX_TELEGRAMS
  /\ caller \in [Task -> Result \cup {"new", "waiting"}]
  /\ pc \in {"idle", "send", "tx", "txBlocked", "txWoken", "tc",
             "await", "blocked", "woken", "process", "store"}
  /\ telegram \in Telegram \cup {NoTelegram}
  /\ i8state \in {"COM_IDLE", "COM_WAITING"}
  /\ notified \in {"none", "ERR_TIME_OUT"}
  /\ {u8Buffer, xBufferRX} \subseteq Frame \cup {NoFrame}
  /\ sem \in {"free", "master", "application"}
  /\ T35Timer \in BOOLEAN /\ TimeoutTimer \in BOOLEAN /\ expired \in BOOLEAN
  /\ wire \in {"idle", "busy"} /\ asked \subseteq Telegram

(* Every way out of a query leaves the state machine where the next one    *)
(* can start: SendQuery never meets ERR_POLLING, and the semaphore is only *)
(* held while a query is being sent.  (And every variable has its type.)   *)
ReadyForNext ==
  /\ TypeOK
  /\ pc = "send" => i8state = "COM_IDLE"
  /\ sem = "master" => pc \in {"tx", "txBlocked", "txWoken", "tc"}

(* By interrupt, a task is told ERR_TIME_OUT only of a query whose own      *)
(* timeout expired: never because a timer left over from an earlier query  *)
(* fired, or its notification was still pending.  (By DMA it may be: see   *)
(* ProcessShort.)                                                          *)
TimeoutIsReal ==
  [][\A t \in Task : xTypeHW = "USART_HW" /\ ToldOf(t, "ERR_TIME_OUT") => expired]_vars

(* The answer a task is told of comes from the slave it queried, as        *)
(* "validate message: id, CRC, FCT, exception" says.                       *)
AnswerMatchesQuery ==
  [][\A t \in Task :
       ToldOf(t, "ERR_OK_QUERY") => u8Buffer.query.slave = telegram.slave]_vars

(* Every task that queries is told a result, the answer, an error or the   *)
(* timeout: the wait ends when "a Modbus Frame arrives or query timeouts". *)
QueryAnswered == \A t \in Task : Waiting(t) ~> ~Waiting(t)

(* The ways in which a telegram never gets to a slave: the queue was full  *)
(* or was reset, or SendQuery refuses it.                                  *)
NeverSent ==
  \/ pc = "send" /\ Refuses
  \/ \E t \in Task :
       /\ Waiting(t) /\ (pc = "idle" \/ telegram.task # t)
       /\ \A i \in DOMAIN QueueTelegram : QueueTelegram[i].task # t

(* By DMA, whatever the slaves answer and when, every task that queries is *)
(* told a result unless some telegram was never sent.                      *)
DmaQueryAnswered == [](xTypeHW = "USART_HW_DMA" /\ ~NeverSent) => QueryAnswered
=============================================================================
