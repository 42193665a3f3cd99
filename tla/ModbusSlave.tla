---------------------------- MODULE ModbusSlave ----------------------------
(***************************************************************************)
(* The Modbus RTU slave, components/MODBUS: StartTaskModbusSlave, the UART *)
(* callbacks and the timer that wake it, the application's tasks it shares *)
(* the registers and the queue of written addresses with, and the master   *)
(* at the other end of the line.                                           *)
(*                                                                         *)
(* Frames and FreeRTOS notifications are modelled as in ModbusMaster; all  *)
(* of the slave's notifications leave the notification value at 0, so that *)
(* one that finds the task not blocked leaves no trace.                    *)
(***************************************************************************)
EXTENDS ModbusRequest, Sequences

CONSTANTS
  Request,         \* what the master asks: RequestType, and to whom
  u8id,            \* this slave's address
  MAX_SLAVE_QUEUE

ADDRESS_BROADCAST == 0
Read(q) == q.fct \in {1, 2, 3, 4}
Registers == 0..(u16regsize - 1)

ASSUME SlaveAssumption ==
  /\ u8id \in 1..247 /\ MAX_SLAVE_QUEUE \in Nat
  /\ \A q \in Request : q.to \in 0..247 /\ q.fct \in word
                        /\ q.addr \in word /\ q.qty \in word

(* A frame may be damaged on the line, or merge with the one before it.    *)
Kind == {"intact", "garbled", "short"}
Frame == [request : Request, kind : Kind]
NoFrame == [request |-> [to |-> ADDRESS_BROADCAST], kind |-> "empty"]

VARIABLES
  xTypeHW,     \* USART_HW or USART_HW_DMA
  xBufferRX,   \* what the UART received and the task has not taken
  T35Timer,    \* the timer that ends a frame runs
  pc,          \* where the slave's task is
  u8Buffer,    \* the frame it works on
  exception,   \* the answer is an exception
  todo,        \* the registers the write in progress has still to write
  sem,         \* who holds ModBusSphrHandle
  u16regs,     \* per register: the request that wrote it last
  whole,       \* history: the same, once that request is written in full
  slave_queue, \* addresses written, for the application
  wire         \* the transmitter is busy

line == <<xTypeHW, xBufferRX, T35Timer>>
app == <<sem, slave_queue>>
regs == <<u16regs, whole>>
vars == <<line, app, pc, u8Buffer, exception, todo, regs, wire>>

Untouched == [fct |-> 0]

Init ==
  /\ xTypeHW \in {"USART_HW", "USART_HW_DMA"}
  /\ xBufferRX = NoFrame /\ T35Timer = FALSE
  /\ pc = "await" /\ u8Buffer = NoFrame /\ exception = FALSE
  /\ todo = {} /\ sem = "free"
  /\ u16regs = [r \in Registers |-> Untouched] /\ whole = u16regs
  /\ slave_queue = <<>> /\ wire = "idle"

-----------------------------------------------------------------------------
(* The line. *)

Wake == pc' = CASE pc = "blocked" -> "woken"
                [] pc = "txBlocked" -> "txWoken"
                [] OTHER -> pc

(* Two frames in one buffer have the address of the first and fail the     *)
(* CRC; two that are too short may still be too short together.            *)
Joined(f) ==
  IF xBufferRX = NoFrame THEN {f}
  ELSE {[xBufferRX EXCEPT !.kind = "garbled"]}
       \cup (IF {xBufferRX.kind, f.kind} = {"short"} THEN {xBufferRX} ELSE {})

(* HAL_UART_RxCpltCallback for each byte, or HAL_UARTEx_RxEventCallback    *)
(* for the frame: the master, and others on the line, speak at any time.   *)
Receive(f) ==
  /\ IF xTypeHW = "USART_HW_DMA"
     THEN xBufferRX' = f /\ Wake /\ UNCHANGED T35Timer
     ELSE xBufferRX' \in Joined(f) /\ T35Timer' = TRUE /\ UNCHANGED pc
  /\ UNCHANGED <<xTypeHW, app, u8Buffer, exception, todo, regs, wire>>

T35Callback ==
  /\ T35Timer /\ T35Timer' = FALSE
  /\ Wake
  /\ UNCHANGED <<xTypeHW, xBufferRX, app, u8Buffer, exception, todo, regs, wire>>

TxCplt ==
  /\ wire = "busy" /\ wire' = "idle"
  /\ Wake
  /\ UNCHANGED <<line, app, u8Buffer, exception, todo, regs>>

-----------------------------------------------------------------------------
(* The application. *)

AppTake ==
  /\ sem = "free" /\ sem' = "application"
  /\ UNCHANGED <<line, slave_queue, pc, u8Buffer, exception, todo, regs, wire>>
AppGive ==
  /\ sem = "application" /\ sem' = "free"
  /\ UNCHANGED <<line, slave_queue, pc, u8Buffer, exception, todo, regs, wire>>
AppQueueReceive ==
  /\ slave_queue # <<>> /\ slave_queue' = Tail(slave_queue)
  /\ UNCHANGED <<line, sem, pc, u8Buffer, exception, todo, regs, wire>>

-----------------------------------------------------------------------------
(* StartTaskModbusSlave. *)

Goto(here, there) == pc = here /\ pc' = there

TakeBlocks ==
  /\ Goto("await", "blocked")
  /\ UNCHANGED <<line, app, u8Buffer, exception, todo, regs, wire>>

(* Each operator named ..._Bug is a fault the properties are to notice: it *)
(* stands before the definition it would replace.                          *)

(* getRxBuffer takes everything received.                                  *)
TakeFrame ==
  /\ Goto("woken", "check")
  /\ u8Buffer' = xBufferRX /\ xBufferRX' = NoFrame
  /\ UNCHANGED <<xTypeHW, T35Timer, app, exception, todo, regs, wire>>

request == u8Buffer.request
Broadcast == request.to = ADDRESS_BROADCAST

(* ERR_BAD_SIZE, or not for us. *)
Dismissed ==
  \/ u8Buffer.kind \in {"empty", "short"}
  \/ request.to \notin {u8id, ADDRESS_BROADCAST}

(* validateRequest: the CRC first.  ERR_BAD_CRC is answered like the other *)
(* exceptions: u8exception is unsigned and never equals ERR_TIME_OUT.      *)
Valid == u8Buffer.kind = "intact" /\ validateRequest(request) = "OK"

Dismiss ==
  /\ Goto("check", "await") /\ Dismissed
  /\ u8Buffer' = NoFrame
  /\ UNCHANGED <<line, app, exception, todo, regs, wire>>

Reject ==
  /\ Goto("check", "send") /\ ~Dismissed /\ ~Valid
  /\ exception' = TRUE
  /\ UNCHANGED <<line, app, u8Buffer, todo, regs, wire>>

Accept ==
  /\ Goto("check", "lock") /\ ~Dismissed /\ Valid
  /\ UNCHANGED <<line, app, u8Buffer, exception, todo, regs, wire>>

Lock_Bug ==
  /\ pc = "lock"
  /\ pc' = IF Broadcast /\ Read(request) THEN "finish"
           ELSE IF Read(request) THEN "send" ELSE "write"
  /\ todo' = IF Read(request) THEN {} ELSE Touched(request)
  /\ UNCHANGED <<line, app, u8Buffer, exception, regs, wire>>

(* The semaphore is taken.  A read by broadcast is not processed.          *)
Lock ==
  /\ pc = "lock" /\ sem = "free" /\ sem' = "slave"
  /\ pc' = IF Broadcast /\ Read(request) THEN "finish"
           ELSE IF Read(request) THEN "send" ELSE "write"
  /\ todo' = IF Read(request) THEN {} ELSE Touched(request)
  /\ UNCHANGED <<line, slave_queue, u8Buffer, exception, regs, wire>>

(* process_FC5, 6, 15 and 16 store from the first register upwards; a      *)
(* store past the last one falls outside of the array.                     *)
Write ==
  /\ pc = "write" /\ todo # {}
  /\ LET r == CHOOSE i \in todo : \A j \in todo : i =< j
     IN /\ todo' = todo \ {r}
        /\ u16regs' = IF r \in Registers THEN [u16regs EXCEPT ![r] = request]
                      ELSE u16regs
  /\ UNCHANGED <<line, app, pc, u8Buffer, exception, whole, wire>>

Written ==
  /\ Goto("write", "send") /\ todo = {}
  /\ whole' = [r \in Registers |-> IF r \in Touched(request) THEN request ELSE whole[r]]
  /\ UNCHANGED <<line, app, u8Buffer, exception, todo, u16regs, wire>>

(* sendTxBuffer: nothing is sent in answer to a broadcast.                 *)
SendNothing ==
  /\ Goto("send", "finish") /\ Broadcast
  /\ UNCHANGED <<line, app, u8Buffer, exception, todo, regs, wire>>

Send_Bug ==
  /\ Goto("send", "tx")
  /\ wire' = "busy"
  /\ UNCHANGED <<line, app, u8Buffer, exception, todo, regs>>

Send ==
  /\ Goto("send", "tx") /\ ~Broadcast
  /\ wire' = "busy"
  /\ UNCHANGED <<line, app, u8Buffer, exception, todo, regs>>

(* The wait for the end of the transmission, up to 250 ticks or until any  *)
(* notification, then for the transmission complete flag.                  *)
TxTake ==
  /\ Goto("tx", "txBlocked")
  /\ UNCHANGED <<line, app, u8Buffer, exception, todo, regs, wire>>
TxTakeReturns ==
  /\ pc \in {"txBlocked", "txWoken"} /\ pc' = "tc"
  /\ UNCHANGED <<line, app, u8Buffer, exception, todo, regs, wire>>
Sent ==
  /\ Goto("tc", "finish") /\ wire = "idle"
  /\ UNCHANGED <<line, app, u8Buffer, exception, todo, regs, wire>>

(* A read by broadcast keeps the semaphore.                                *)
Finish_Bug ==
  /\ Goto("finish", "await")
  /\ sem' = IF exception \/ (Broadcast /\ Read(request)) THEN sem ELSE "free"
  /\ u8Buffer' = NoFrame /\ exception' = FALSE
  /\ UNCHANGED <<line, slave_queue, todo, regs, wire>>

(* xQueueSend of the address written, if there is room; the semaphore is   *)
(* given back, unless the answer was an exception.                         *)
Finish ==
  /\ Goto("finish", "await")
  /\ sem' = IF exception THEN sem ELSE "free"
  /\ slave_queue' = IF ~exception /\ request.fct \in WriteFct
                       /\ Len(slave_queue) < MAX_SLAVE_QUEUE
                    THEN Append(slave_queue, request.addr) ELSE slave_queue
  /\ u8Buffer' = NoFrame /\ exception' = FALSE
  /\ UNCHANGED <<line, todo, regs, wire>>

-----------------------------------------------------------------------------
Slave ==
  \/ TakeBlocks \/ TakeFrame \/ Dismiss \/ Reject \/ Accept \/ Lock
  \/ Write \/ Written \/ SendNothing \/ Send \/ TxTake \/ TxTakeReturns
  \/ Sent \/ Finish

Application == AppTake \/ AppGive \/ AppQueueReceive

Next ==
  \/ \E f \in Frame : Receive(f)
  \/ T35Callback \/ TxCplt \/ Application \/ Slave

Spec == Init /\ [][Next]_vars

(* The task gets the processor and its turn at the semaphore, which the    *)
(* application gives back; the timer expires and transmissions end.        *)
FairSpec ==
  /\ Spec /\ SF_vars(Slave) /\ WF_vars(AppGive)
  /\ WF_vars(T35Callback) /\ WF_vars(TxCplt)

-----------------------------------------------------------------------------
(* Properties. *)

Processing == pc \in {"write", "send", "tx", "txBlocked", "txWoken", "tc", "finish"}

(* The values the variables take. *)
TypeOK ==
  /\ {xBufferRX, u8Buffer} \subseteq Frame \cup {NoFrame}
  /\ T35Timer \in BOOLEAN /\ exception \in BOOLEAN
  /\ pc \in {"await", "blocked", "woken", "check", "lock", "write", "send", "tx",
             "txBlocked", "txWoken", "tc", "finish"}
  /\ todo \subseteq Nat
  /\ sem \in {"free", "slave", "application"}
  /\ {u16regs, whole} \subseteq [Registers -> Request \cup {Untouched}]
  /\ slave_queue \in Seq(word) /\ Len(slave_queue) =< MAX_SLAVE_QUEUE
  /\ wire \in {"idle", "busy"}

(* A task that holds the semaphore sees every write of the master's as a   *)
(* whole: the registers of a request are all written, or none is.          *)
WritesAreWhole == sem = "application" => u16regs = whole

(* The semaphore is the slave's exactly while it processes a request it    *)
(* accepted: no way out of the switch forgets to give it back.  (And every *)
(* variable has its type.)                                                 *)
SemaphoreHeld ==
  /\ TypeOK
  /\ sem = "slave" <=> Processing /\ ~exception

(* The line is only ever driven for a request that was put to this slave,  *)
(* and never for a broadcast, even one that is refused.                    *)
SpeaksWhenAsked == wire = "busy" => u8Buffer # NoFrame /\ request.to = u8id

(* The application gets its turn at the registers: whatever the request,  *)
(* the slave gives the semaphore back, "Release the semaphore".            *)
SemaphoreReturned == sem = "slave" ~> sem # "slave"

(* Of the requests that are accepted, those for several registers touch    *)
(* existing registers only, and those for coils or for one register, whose *)
(* ranges are compared with off-by-one errors, at most the one after the   *)
(* last: "verify address range" of validateRequest.                        *)
CarriedOut == (pc = "lock" \/ Processing) /\ ~exception
RegistersInRange ==
  CarriedOut => Touched(request) \subseteq
                  IF request.fct \in WordFct THEN Registers ELSE 0..u16regsize

(* The answer to a request that is accepted is built in u8Buffer, and fits *)
(* there: "verify answer frame size in bytes".                             *)
AnswerFits == CarriedOut => AnswerLength(request) =< MAX_BUFFER
=============================================================================
