------------------------- MODULE ModbusSlaveProofs -------------------------
(***************************************************************************)
(* The slave's safety properties, for every number of registers, every set *)
(* of requests the master may put and every length of the queue of written *)
(* addresses.                                                              *)
(*                                                                         *)
(* What the application sees is whole because of what is true while the    *)
(* slave writes: the registers still to be written (Progress), and that    *)
(* the slave then holds the semaphore, which it does exactly while it      *)
(* processes a request it accepted (Held).  That it keeps silent unless it *)
(* was asked follows from what the checks let through (Attending).         *)
(***************************************************************************)
EXTENDS ModbusSlave, SequenceTheorems, WellFoundedInduction, TLAPS

Sending == {"tx", "txBlocked", "txWoken", "tc"}
Serving == {"lock", "write", "send", "finish"} \cup Sending

Held == sem = "slave" <=> Processing /\ ~exception

Attending ==
  /\ pc \in Serving => u8Buffer # NoFrame /\ request.to \in {u8id, ADDRESS_BROADCAST}
  /\ pc \in Sending => request.to # ADDRESS_BROADCAST
  /\ wire = "busy" => pc \in Sending

Excepting ==
  /\ exception => pc \in {"send", "finish"} \cup Sending
  /\ CarriedOut => Valid

Progress ==
  /\ pc # "write" => u16regs = whole
  /\ pc = "write" =>
       /\ todo \subseteq Touched(request)
       /\ \A r \in Registers :
            u16regs[r] = IF r \in Touched(request) \ todo THEN request ELSE whole[r]

IInv == TypeOK /\ Held /\ Attending /\ Excepting /\ Progress

-----------------------------------------------------------------------------
(* What a frame holds, and what a request that was accepted touches.       *)

LEMMA FrameFields ==
  ASSUME u8Buffer \in Frame \cup {NoFrame}, u8Buffer # NoFrame
  PROVE  /\ u8Buffer \in Frame
         /\ request \in Request
         /\ request.addr \in word /\ request.qty \in word
  BY SlaveAssumption DEF Frame, request

LEMMA CoilRegister ==
  ASSUME NEW n \in Nat
  PROVE  U16(n) \div 16 \in Nat
  <1>1. U16(n) \in Nat
    BY DEF U16
  <1>2. \A m \in Nat : m \div 16 \in Nat
    OBVIOUS
  <1> QED
    BY <1>1, <1>2

LEMMA WordsAreNumbers == word \subseteq Nat
  BY DEF word

LEMMA TouchedNumbers ==
  ASSUME NEW q, q.fct \in fctsupported, ~Read(q), q.addr \in word, q.qty \in word
  PROVE  Touched(q) \subseteq Nat
  <1> DEFINE a == q.addr
             n == q.qty
  <1>1. a \in Nat /\ n \in Nat
    BY WordsAreNumbers
  <1>2. q.fct \in {5, 6, 15, 16}
    BY DEF fctsupported, BitFct, WordFct, Read
  <1>3. CASE q.fct = 15
    <2>1. Touched(q) = {U16(a + i) \div 16 : i \in 0..(n - 1)}
      BY <1>3 DEF Touched, BitFct
    <2>2. \A i \in 0..(n - 1) : a + i \in Nat
      BY <1>1
    <2> QED
      BY <2>1, <2>2, CoilRegister
  <1>4. CASE q.fct = 16
    <2>1. Touched(q) = a..(a + n - 1)
      BY <1>4 DEF Touched, BitFct
    <2> HIDE DEF a, n
    <2> QED
      BY <1>1, <2>1
  <1>5. CASE q.fct = 5
    <2>1. Touched(q) = {a \div 16}
      BY <1>5 DEF Touched, BitFct
    <2> HIDE DEF a
    <2> QED
      BY <1>1, <2>1
  <1>6. CASE q.fct = 6
    <2>1. Touched(q) = {a}
      BY <1>6 DEF Touched, BitFct
    <2> QED
      BY <1>1, <2>1
  <1> QED
    BY <1>2, <1>3, <1>4, <1>5, <1>6

(* A set of numbers has a least one, unless it is empty.                   *)
LEMMA LeastNumber ==
  ASSUME NEW S \in SUBSET Nat, S # {}
  PROVE  \E m \in S : \A j \in S : m =< j
  <1> DEFINE less == OpToRel(<, Nat)
  <1>1. PICK m \in S : \A j \in S : ~ (<<j, m>> \in less)
    <2>1. IsWellFoundedOn(less, Nat)
      BY NatLessThanWellFounded
    <2> HIDE DEF less
    <2> QED
      BY <2>1, WFMin
  <1>2. \A j \in S : <<j, m>> \in less <=> j < m
    BY DEF OpToRel
  <1>3. \A j \in S : ~ (j < m)
    BY <1>1, <1>2
  <1>4. \A j \in S : m =< j
    BY <1>3
  <1> QED
    BY <1>4

LEMMA ValidSupported ==
  ASSUME Valid
  PROVE  request.fct \in fctsupported
  BY DEF Valid, validateRequest

-----------------------------------------------------------------------------
(* The inductive invariant.                                                *)

LEMMA InitInv == Init => IInv
  <1> SUFFICES ASSUME Init PROVE IInv
    OBVIOUS
  <1>1. TypeOK
    <2>1. {u16regs, whole} \subseteq [Registers -> Request \cup {Untouched}]
      BY DEF Init
    <2>2. slave_queue \in Seq(word) /\ Len(slave_queue) =< MAX_SLAVE_QUEUE
      BY EmptySeq, SlaveAssumption DEF Init
    <2>3. {xBufferRX, u8Buffer} \subseteq Frame \cup {NoFrame}
      BY DEF Init
    <2> QED
      BY <2>1, <2>2, <2>3 DEF Init, TypeOK
  <1>2. Held /\ Excepting /\ Progress
    BY DEF Init, Held, Processing, Excepting, CarriedOut, Progress
  <1>3. Attending
    BY DEF Init, Attending, Serving, Sending
  <1> QED
    BY <1>1, <1>2, <1>3 DEF IInv

(* The line and the application leave the slave's work alone: at most they *)
(* wake it.                                                                *)
LEMMA WokenTypes ==
  ASSUME TypeOK, Wake
  PROVE  /\ pc' \in {"await", "blocked", "woken", "check", "lock", "write", "send", "tx",
                     "txBlocked", "txWoken", "tc", "finish"}
         /\ (pc' \in Serving) <=> (pc \in Serving)
         /\ (pc' \in Sending) <=> (pc \in Sending)
         /\ Processing' <=> Processing
         /\ (pc' = "write") <=> (pc = "write")
         /\ (pc' = "lock") <=> (pc = "lock")
         /\ (pc' \in {"send", "finish"}) <=> (pc \in {"send", "finish"})
  BY DEF TypeOK, Wake, Serving, Sending, Processing

LEMMA ElsewhereInv ==
  ASSUME IInv, Wake \/ UNCHANGED pc,
         UNCHANGED <<u8Buffer, exception, todo, regs>>,
         wire' \in {wire, "idle"},
         \/ UNCHANGED sem
         \/ {sem, sem'} = {"free", "application"},
         xBufferRX' \in Frame \cup {NoFrame}, T35Timer' \in BOOLEAN,
         slave_queue' \in Seq(word), Len(slave_queue') =< MAX_SLAVE_QUEUE
  PROVE  IInv'
  <1>1. /\ (pc' \in Serving) <=> (pc \in Serving)
        /\ (pc' \in Sending) <=> (pc \in Sending)
        /\ Processing' <=> Processing
        /\ (pc' = "write") <=> (pc = "write")
        /\ (pc' = "lock") <=> (pc = "lock")
        /\ (pc' \in {"send", "finish"}) <=> (pc \in {"send", "finish"})
    BY WokenTypes DEF IInv, Processing
  <1>2. TypeOK'
    <2>1. pc' \in {"await", "blocked", "woken", "check", "lock", "write", "send", "tx",
                   "txBlocked", "txWoken", "tc", "finish"}
      BY WokenTypes DEF IInv, TypeOK
    <2>2. sem' \in {"free", "slave", "application"} /\ wire' \in {"idle", "busy"}
      BY DEF IInv, TypeOK
    <2> QED
      BY <2>1, <2>2 DEF IInv, TypeOK, regs
  <1>3. Held'
    <2>1. (sem' = "slave") <=> (sem = "slave")
      OBVIOUS
    <2> QED
      BY <1>1, <2>1 DEF IInv, Held
  <1>4. Attending'
    BY <1>1 DEF IInv, Attending, request
  <1>5. Excepting'
    BY <1>1 DEF IInv, Excepting, CarriedOut, Processing, Valid, request
  <1>6. Progress'
    BY <1>1 DEF IInv, Progress, request, regs
  <1> QED
    BY <1>2, <1>3, <1>4, <1>5, <1>6 DEF IInv

LEMMA ReceiveInv ==
  ASSUME IInv, NEW f \in Frame, Receive(f)
  PROVE  IInv'
  <1>1. Joined(f) \subseteq Frame
    <2>1. CASE xBufferRX = NoFrame
      BY <2>1 DEF Joined
    <2>2. CASE xBufferRX # NoFrame
      <3>1. xBufferRX \in Frame
        BY <2>2 DEF IInv, TypeOK
      <3>2. [xBufferRX EXCEPT !.kind = "garbled"] \in Frame
        BY <3>1 DEF Frame, Kind
      <3> QED
        BY <2>2, <3>1, <3>2 DEF Joined
    <2> QED
      BY <2>1, <2>2
  <1>2. xBufferRX' \in Frame /\ T35Timer' \in BOOLEAN
    BY <1>1 DEF Receive, IInv, TypeOK
  <1>3. Wake \/ UNCHANGED pc
    BY DEF Receive
  <1>4. UNCHANGED <<u8Buffer, exception, todo, regs, wire, sem, slave_queue>>
    BY DEF Receive, app
  <1> QED
    BY <1>2, <1>3, <1>4, ElsewhereInv DEF IInv, TypeOK

LEMMA T35CallbackInv == IInv /\ T35Callback => IInv'
  <1> SUFFICES ASSUME IInv, T35Callback PROVE IInv'
    OBVIOUS
  <1>1. Wake /\ T35Timer' \in BOOLEAN
    BY DEF T35Callback
  <1>2. UNCHANGED <<u8Buffer, exception, todo, regs, wire, sem, slave_queue, xBufferRX>>
    BY DEF T35Callback, app
  <1> QED
    BY <1>1, <1>2, ElsewhereInv DEF IInv, TypeOK

LEMMA TxCpltInv == IInv /\ TxCplt => IInv'
  <1> SUFFICES ASSUME IInv, TxCplt PROVE IInv'
    OBVIOUS
  <1>1. Wake /\ wire' = "idle"
    BY DEF TxCplt
  <1>2. UNCHANGED <<u8Buffer, exception, todo, regs, sem, slave_queue, xBufferRX, T35Timer>>
    BY DEF TxCplt, app, line
  <1> QED
    BY <1>1, <1>2, ElsewhereInv DEF IInv, TypeOK

LEMMA ApplicationInv == IInv /\ Application => IInv'
  <1> SUFFICES ASSUME IInv, Application PROVE IInv'
    OBVIOUS
  <1>1. UNCHANGED <<u8Buffer, exception, todo, regs, wire, pc, xBufferRX, T35Timer>>
    BY DEF Application, AppTake, AppGive, AppQueueReceive, line
  <1>2. UNCHANGED sem \/ {sem, sem'} = {"free", "application"}
    BY DEF Application, AppTake, AppGive, AppQueueReceive
  <1>3. slave_queue' \in Seq(word) /\ Len(slave_queue') =< MAX_SLAVE_QUEUE
    <2>1. CASE AppQueueReceive
      <3>1. slave_queue' \in Seq(word) /\ Len(slave_queue') = Len(slave_queue) - 1
        BY <2>1, HeadTailProperties DEF AppQueueReceive, IInv, TypeOK
      <3> QED
        BY <3>1, LenProperties, SlaveAssumption DEF IInv, TypeOK
    <2>2. CASE UNCHANGED slave_queue
      BY <2>2 DEF IInv, TypeOK
    <2> QED
      BY <2>1, <2>2 DEF Application, AppTake, AppGive
  <1> QED
    BY <1>1, <1>2, <1>3, ElsewhereInv DEF IInv, TypeOK

-----------------------------------------------------------------------------
(* The slave's own steps.                                                  *)

LEMMA QuietInv ==
  ASSUME IInv, UNCHANGED <<line, app, regs, wire, todo, exception, u8Buffer>>,
         NEW here, NEW there, Goto(here, there),
         \/ here = "await" /\ there = "blocked"
         \/ here = "tx" /\ there = "txBlocked"
         \/ here = "send" /\ there = "finish" /\ Broadcast
  PROVE  IInv'
  <1>1. TypeOK'
    BY DEF IInv, TypeOK, Goto, line, app, regs
  <1>2. Held'
    BY DEF IInv, Held, Processing, Goto, app
  <1>3. Attending'
    BY DEF IInv, Attending, Serving, Sending, Goto, request
  <1>4. Excepting'
    BY DEF IInv, Excepting, CarriedOut, Processing, Sending, Goto, Valid, request
  <1>5. Progress'
    BY DEF IInv, Progress, Goto, regs
  <1> QED
    BY <1>1, <1>2, <1>3, <1>4, <1>5 DEF IInv

LEMMA WaitInv == IInv /\ (TakeBlocks \/ TxTake \/ SendNothing) => IInv'
  BY QuietInv DEF TakeBlocks, TxTake, SendNothing

LEMMA TakeFrameInv == IInv /\ TakeFrame => IInv'
  <1> SUFFICES ASSUME IInv, TakeFrame PROVE IInv'
    OBVIOUS
  <1>1. TypeOK'
    BY DEF IInv, TypeOK, TakeFrame, Goto, app, regs
  <1>2. Held'
    BY DEF IInv, Held, Processing, TakeFrame, Goto, app
  <1>3. Attending'
    BY DEF IInv, Attending, Serving, Sending, TakeFrame, Goto
  <1>4. Excepting'
    BY DEF IInv, Excepting, CarriedOut, Processing, Sending, TakeFrame, Goto
  <1>5. Progress'
    BY DEF IInv, Progress, TakeFrame, Goto, regs
  <1> QED
    BY <1>1, <1>2, <1>3, <1>4, <1>5 DEF IInv

LEMMA DismissInv == IInv /\ Dismiss => IInv'
  <1> SUFFICES ASSUME IInv, Dismiss PROVE IInv'
    OBVIOUS
  <1>1. TypeOK'
    BY DEF IInv, TypeOK, Dismiss, Goto, line, app, regs
  <1>2. Held'
    BY DEF IInv, Held, Processing, Dismiss, Goto, app
  <1>3. Attending'
    BY DEF IInv, Attending, Serving, Sending, Dismiss, Goto
  <1>4. Excepting'
    BY DEF IInv, Excepting, CarriedOut, Processing, Sending, Dismiss, Goto
  <1>5. Progress'
    BY DEF IInv, Progress, Dismiss, Goto, regs
  <1> QED
    BY <1>1, <1>2, <1>3, <1>4, <1>5 DEF IInv

LEMMA CheckedInv == IInv /\ (Reject \/ Accept) => IInv'
  <1> SUFFICES ASSUME IInv, Reject \/ Accept PROVE IInv'
    OBVIOUS
  <1>1. TypeOK'
    BY DEF IInv, TypeOK, Reject, Accept, Goto, line, app, regs
  <1>2. Held'
    BY DEF IInv, Held, Excepting, CarriedOut, Processing, Reject, Accept, Goto, app
  <1>3. Attending'
    <2>1. u8Buffer # NoFrame /\ request.to \in {u8id, ADDRESS_BROADCAST}
      BY DEF Reject, Accept, Dismissed, NoFrame
    <2> QED
      BY <2>1 DEF IInv, Attending, Sending, Reject, Accept, Goto, request
  <1>4. Excepting'
    BY DEF IInv, Excepting, CarriedOut, Processing, Sending, Reject, Accept, Goto, Valid, request
  <1>5. Progress'
    BY DEF IInv, Progress, Reject, Accept, Goto, regs
  <1> QED
    BY <1>1, <1>2, <1>3, <1>4, <1>5 DEF IInv

(* The semaphore is free: the application is not looking, and nothing is   *)
(* half written.                                                           *)
LEMMA LockInv == IInv /\ Lock => IInv'
  <1> SUFFICES ASSUME IInv, Lock PROVE IInv'
    OBVIOUS
  <1>1. pc' \in {"finish", "send", "write"}
    BY DEF Lock
  <1>2. ~exception /\ Valid /\ u8Buffer # NoFrame
    BY DEF IInv, Excepting, CarriedOut, Processing, Attending, Serving, Sending, Lock
  <1>3. TypeOK'
    <2>1. todo' \subseteq Nat
      <3>1. CASE Read(request)
        BY <3>1 DEF Lock
      <3>2. CASE ~Read(request)
        <4>1. request.addr \in word /\ request.qty \in word
          BY <1>2, FrameFields DEF IInv, TypeOK
        <4>2. Touched(request) \subseteq Nat
          BY <1>2, <3>2, <4>1, ValidSupported, TouchedNumbers
        <4> QED
          BY <3>2, <4>2 DEF Lock
      <3> QED
        BY <3>1, <3>2
    <2> QED
      BY <1>1, <2>1 DEF IInv, TypeOK, Lock, line, regs
  <1>4. Held'
    BY <1>1, <1>2 DEF Held, Processing, Lock
  <1>5. Attending'
    BY <1>1 DEF IInv, Attending, Serving, Sending, Lock, request
  <1>6. Excepting'
    BY <1>1, <1>2 DEF Excepting, CarriedOut, Processing, Lock, Valid, request
  <1>7. Progress'
    <2>1. u16regs' = whole'
      BY DEF IInv, Progress, Lock, regs
    <2>2. CASE pc' = "write"
      <3>1. todo' = Touched(request)'
        BY <2>2 DEF Lock, request
      <3> QED
        BY <2>1, <2>2, <3>1 DEF Progress
    <2> QED
      BY <2>1, <2>2 DEF Progress
  <1> QED
    BY <1>3, <1>4, <1>5, <1>6, <1>7 DEF IInv

(* One more register holds the request, or lies outside of the array.      *)
LEMMA WriteInv == IInv /\ Write => IInv'
  <1> SUFFICES ASSUME IInv, Write PROVE IInv'
    OBVIOUS
  <1> DEFINE r == CHOOSE i \in todo : \A j \in todo : i =< j
  <1>1. /\ todo' = todo \ {r}
        /\ u16regs' = IF r \in Registers THEN [u16regs EXCEPT ![r] = request]
                      ELSE u16regs
    BY DEF Write
  <1> HIDE DEF r
  <1>2. UNCHANGED <<xBufferRX, T35Timer, sem, slave_queue, pc, u8Buffer, exception, whole, wire>>
    BY DEF Write, line, app
  <1>3. pc = "write" /\ ~exception /\ Valid /\ u8Buffer # NoFrame
    BY DEF IInv, Excepting, CarriedOut, Processing, Attending, Serving, Sending, Write
  <1>4. request \in Request
    BY <1>3, FrameFields DEF IInv, TypeOK
  <1>5. u16regs \in [Registers -> Request \cup {Untouched}]
    BY DEF IInv, TypeOK
  <1>6. u16regs' \in [Registers -> Request \cup {Untouched}]
    BY <1>1, <1>4, <1>5
  <1>7. TypeOK'
    BY <1>1, <1>2, <1>6 DEF IInv, TypeOK
  <1>8. Held' /\ Attending' /\ Excepting'
    BY <1>2 DEF IInv, Held, Attending, Excepting, CarriedOut, Processing, Valid, request
  <1>9. Progress'
    <2>1. todo \subseteq Touched(request)
      BY <1>3 DEF IInv, Progress
    <2>2. ASSUME NEW i \in Registers
          PROVE  u16regs'[i] = IF i \in Touched(request) \ todo' THEN request ELSE whole[i]
      <3>1. u16regs[i] = IF i \in Touched(request) \ todo THEN request ELSE whole[i]
        BY <1>3 DEF IInv, Progress
      <3>2. r \in todo
        <4>1. todo # {} /\ todo \subseteq Nat
          BY DEF Write, IInv, TypeOK
        <4>2. \E m \in todo : \A j \in todo : m =< j
          BY <4>1, LeastNumber
        <4> QED
          BY <4>2 DEF r
      <3>3. CASE i = r
        BY <1>1, <1>5, <2>1, <3>2, <3>3
      <3>4. CASE i # r
        BY <1>1, <1>5, <3>1, <3>4
      <3> QED
        BY <3>3, <3>4
    <2>3. todo' \subseteq Touched(request)
      BY <1>1, <2>1
    <2> QED
      BY <1>2, <1>3, <2>2, <2>3 DEF Progress, request
  <1> QED
    BY <1>7, <1>8, <1>9 DEF IInv

(* All are written: what the application may now see is whole again.       *)
LEMMA WrittenInv == IInv /\ Written => IInv'
  <1> SUFFICES ASSUME IInv, Written PROVE IInv'
    OBVIOUS
  <1>1. UNCHANGED <<xBufferRX, T35Timer, sem, slave_queue, u8Buffer, exception, todo, u16regs, wire>>
    BY DEF Written, line, app
  <1>2. pc = "write" /\ pc' = "send" /\ todo = {} /\ ~exception /\ u8Buffer # NoFrame
    BY DEF IInv, Excepting, CarriedOut, Processing, Attending, Serving, Sending, Written, Goto
  <1>3. request \in Request
    BY <1>2, FrameFields DEF IInv, TypeOK
  <1>4. whole' = [r \in Registers |-> IF r \in Touched(request) THEN request ELSE whole[r]]
    BY DEF Written
  <1>5. {u16regs, whole} \subseteq [Registers -> Request \cup {Untouched}]
    BY DEF IInv, TypeOK
  <1>6. whole' \in [Registers -> Request \cup {Untouched}]
    BY <1>3, <1>4, <1>5
  <1>7. u16regs = whole'
    <2>1. \A r \in Registers :
            u16regs[r] = IF r \in Touched(request) THEN request ELSE whole[r]
      BY <1>2 DEF IInv, Progress
    <2>2. \A r \in Registers : u16regs[r] = whole'[r]
      BY <1>4, <2>1
    <2>3. u16regs = [r \in Registers |-> u16regs[r]] /\ whole' = [r \in Registers |-> whole'[r]]
      BY <1>5, <1>6
    <2> QED
      BY <2>2, <2>3
  <1>8. TypeOK'
    BY <1>1, <1>2, <1>5, <1>6 DEF IInv, TypeOK
  <1>9. Held' /\ Attending' /\ Excepting'
    BY <1>1, <1>2 DEF IInv, Held, Attending, Excepting, CarriedOut, Processing, Serving,
         Sending, Valid, request
  <1>10. Progress'
    BY <1>1, <1>2, <1>7 DEF Progress
  <1> QED
    BY <1>8, <1>9, <1>10 DEF IInv

(* Only what was put to this slave alone is answered.                      *)
LEMMA SendInv == IInv /\ Send => IInv'
  <1> SUFFICES ASSUME IInv, Send PROVE IInv'
    OBVIOUS
  <1>1. TypeOK'
    BY DEF IInv, TypeOK, Send, Goto, line, app, regs
  <1>2. Held'
    BY DEF IInv, Held, Processing, Send, Goto, app
  <1>3. Attending'
    BY DEF IInv, Attending, Serving, Sending, Send, Goto, Broadcast, request
  <1>4. Excepting'
    BY DEF IInv, Excepting, CarriedOut, Processing, Sending, Send, Goto, Valid, request, line
  <1>5. Progress'
    BY DEF IInv, Progress, Send, Goto, regs
  <1> QED
    BY <1>1, <1>2, <1>3, <1>4, <1>5 DEF IInv

LEMMA TransmittingInv == IInv /\ (TxTakeReturns \/ Sent) => IInv'
  <1> SUFFICES ASSUME IInv, TxTakeReturns \/ Sent PROVE IInv'
    OBVIOUS
  <1>1. TypeOK'
    BY DEF IInv, TypeOK, TxTakeReturns, Sent, Goto, line, app, regs
  <1>2. Held'
    BY DEF IInv, Held, Processing, TxTakeReturns, Sent, Goto, app
  <1>3. Attending'
    BY DEF IInv, Attending, Serving, Sending, TxTakeReturns, Sent, Goto, request
  <1>4. Excepting'
    BY DEF IInv, Excepting, CarriedOut, Processing, Sending, TxTakeReturns, Sent,
         Goto, Valid, request
  <1>5. Progress'
    BY DEF IInv, Progress, TxTakeReturns, Sent, Goto, regs
  <1> QED
    BY <1>1, <1>2, <1>3, <1>4, <1>5 DEF IInv

LEMMA FinishInv == IInv /\ Finish => IInv'
  <1> SUFFICES ASSUME IInv, Finish PROVE IInv'
    OBVIOUS
  <1>1. slave_queue' \in Seq(word) /\ Len(slave_queue') =< MAX_SLAVE_QUEUE
    <2>1. CASE UNCHANGED slave_queue
      BY <2>1 DEF IInv, TypeOK
    <2>2. CASE slave_queue' = Append(slave_queue, request.addr) /\ Len(slave_queue) < MAX_SLAVE_QUEUE
      <3>1. request.addr \in word
        BY FrameFields DEF IInv, TypeOK, Attending, Serving, Finish, Goto
      <3>2. slave_queue \in Seq(word)
        BY DEF IInv, TypeOK
      <3>3. slave_queue' \in Seq(word) /\ Len(slave_queue') = Len(slave_queue) + 1
        BY <2>2, <3>1, <3>2, AppendProperties
      <3> QED
        BY <2>2, <3>2, <3>3, LenProperties, SlaveAssumption
    <2> QED
      BY <2>1, <2>2 DEF Finish
  <1>2. TypeOK'
    BY <1>1 DEF IInv, TypeOK, Finish, Goto, line, regs
  <1>3. Held'
    BY DEF IInv, TypeOK, Held, Processing, Finish, Goto
  <1>4. Attending'
    BY DEF IInv, Attending, Serving, Sending, Finish, Goto
  <1>5. Excepting'
    BY DEF Excepting, CarriedOut, Processing, Sending, Finish, Goto
  <1>6. Progress'
    BY DEF IInv, Progress, Finish, Goto, regs
  <1> QED
    BY <1>2, <1>3, <1>4, <1>5, <1>6 DEF IInv

LEMMA StutterInv == IInv /\ UNCHANGED vars => IInv'
  <1> SUFFICES ASSUME IInv, UNCHANGED vars PROVE IInv'
    OBVIOUS
  <1> USE DEF IInv, vars, line, app, regs
  <1>1. TypeOK'
    BY DEF TypeOK
  <1>2. request' = request /\ (Valid' <=> Valid)
    BY DEF request, Valid
  <1>3. Held'
    BY DEF Held, Processing
  <1>4. Attending'
    BY <1>2 DEF Attending
  <1>5. Excepting'
    BY <1>2 DEF Excepting, CarriedOut, Processing
  <1>6. Progress'
    BY <1>2 DEF Progress
  <1> QED
    BY <1>1, <1>3, <1>4, <1>5, <1>6

(* Every action keeps the invariant. *)
LEMMA NextInv == IInv /\ [Next]_vars => IInv'
  <1> SUFFICES ASSUME IInv, [Next]_vars PROVE IInv'
    OBVIOUS
  <1>1. CASE \E f \in Frame : Receive(f)
    BY <1>1, ReceiveInv
  <1>2. CASE T35Callback \/ TxCplt \/ Application
    BY <1>2, T35CallbackInv, TxCpltInv, ApplicationInv
  <1>3. CASE Slave
    BY <1>3, WaitInv, TakeFrameInv, DismissInv, CheckedInv, LockInv, WriteInv, WrittenInv,
       SendInv, TransmittingInv, FinishInv DEF Slave
  <1>4. CASE UNCHANGED vars
    BY <1>4, StutterInv
  <1> QED
    BY <1>1, <1>2, <1>3, <1>4 DEF Next

(* The inductive invariant of the slave: for every number of registers,    *)
(* every set of requests and every length of the queue.                    *)
THEOREM Invariance == Spec => []IInv
  BY InitInv, NextInv, PTL DEF Spec

-----------------------------------------------------------------------------
(* The properties. *)

(* Whoever holds the semaphore sees the registers of every request of the  *)
(* master's either all written or not at all (StartTaskModbusSlave and the *)
(* process_FC functions).                                                  *)
THEOREM WholeWrites == Spec => []WritesAreWhole
  <1>1. IInv => WritesAreWhole
    BY DEF IInv, WritesAreWhole, Held, Processing, Excepting, CarriedOut, Progress, Sending
  <1> QED
    BY <1>1, Invariance, PTL

(* The slave holds the semaphore exactly while it processes a request it   *)
(* accepted, and gives it back on every way out of the switch.             *)
THEOREM SemaphoreDiscipline == Spec => []SemaphoreHeld
  <1>1. IInv => SemaphoreHeld
    BY DEF IInv, SemaphoreHeld, Held
  <1> QED
    BY <1>1, Invariance, PTL

(* sendTxBuffer drives the line for requests to this slave only.           *)
THEOREM SilentUnlessAsked == Spec => []SpeaksWhenAsked
  <1>1. IInv => SpeaksWhenAsked
    BY DEF IInv, SpeaksWhenAsked, Attending, Serving
  <1> QED
    BY <1>1, Invariance, PTL

-----------------------------------------------------------------------------
(***************************************************************************)
(* What the checks of a request let through, for every number of registers *)
(* and all the words a request can hold; the run looks at some around the  *)
(* limits for 130 registers.                                               *)
(***************************************************************************)

(* The registers read are counted in 8 bits, which makes them no more.     *)
LEMMA RemainderSmaller ==
  ASSUME NEW n \in Nat
  PROVE  n % 256 \in 0..n
  OBVIOUS

(* A number of 16 bits is kept as it is, and a larger one made smaller.    *)
LEMMA Narrow ==
  ASSUME NEW k \in Nat
  PROVE  U16(k) \in 0..k /\ (k < 65536 => U16(k) = k)
  BY DEF U16

(* A request that is carried out passed both checks, and its words are     *)
(* numbers.                                                                *)
LEMMA Passed ==
  ASSUME IInv, CarriedOut
  PROVE  /\ request.fct \in fctsupported
         /\ ~OutOfRange(request) /\ ~TooMany(request)
         /\ request.addr \in Nat /\ request.qty \in Nat
         /\ u16regsize \in Nat /\ MAX_BUFFER \in Nat
  <1>1. validateRequest(request) = "OK"
    BY DEF IInv, Excepting, CarriedOut, Processing, Valid
  <1>2. u8Buffer # NoFrame
    BY DEF IInv, Attending, Serving, Sending, CarriedOut, Processing
  <1>3. request.addr \in Nat /\ request.qty \in Nat
    BY <1>2, FrameFields, WordsAreNumbers DEF IInv, TypeOK
  <1>4. request.fct \in fctsupported /\ ~OutOfRange(request) /\ ~TooMany(request)
    BY <1>1 DEF validateRequest
  <1> QED
    BY <1>3, <1>4, RequestAssumption

(* One of several registers passed the check of their range.               *)
LEMMA WordsWithin ==
  ASSUME IInv, CarriedOut, request.fct \in WordFct
  PROVE  request.addr + request.qty =< u16regsize
  <1>1. request.fct \notin BitFct /\ request.fct # 5 /\ request.fct # 6
    BY DEF WordFct, BitFct
  <1>2. OutOfRange(request) = (request.addr + request.qty > u16regsize)
    BY <1>1, Zenon DEF OutOfRange
  <1>3. ~(request.addr + request.qty > u16regsize)
    BY <1>2, Passed
  <1> QED
    BY <1>3, Passed

(* The last coil is in the register after the one where the whole 16s of   *)
(* its number would end, or before.                                        *)
LEMMA LastCoil ==
  ASSUME NEW a \in Nat, NEW n \in Nat, NEW size \in Nat,
         a \div 16 + Ceil(n, 16) =< size, NEW i \in 0..(n - 1)
  PROVE  U16(a + i) \div 16 \in 0..size
  <1>1. U16(a + i) \in Nat /\ U16(a + i) =< a + i
    BY Narrow
  <1>2. \A m \in Nat : m =< a + i => m \div 16 \in 0..size
    BY DEF Ceil
  <1> QED
    BY <1>1, <1>2

(* Functions 3, 4 and 16 touch registers that exist only, however many     *)
(* there are: the sum of the two words does not wrap in an int.  The       *)
(* others touch at most the register after the last.                       *)
THEOREM RegistersInRangeAlways == Spec => []RegistersInRange
  <1>1. IInv => RegistersInRange
    <2> SUFFICES ASSUME IInv, CarriedOut
                 PROVE  Touched(request) \subseteq
                          IF request.fct \in WordFct THEN Registers ELSE 0..u16regsize
      BY DEF RegistersInRange
    <2> DEFINE a == request.addr
               n == request.qty
    <2>1. a \in Nat /\ n \in Nat /\ u16regsize \in Nat
      BY Passed
    <2>2. request.fct \in {1, 2, 3, 4, 5, 6, 15, 16} /\ ~OutOfRange(request)
      BY Passed DEF fctsupported, BitFct, WordFct
    <2>3. CASE request.fct \in {3, 4}
      <3>1. a + n =< u16regsize
        BY <2>3, WordsWithin DEF WordFct
      <3>2. Touched(request) = a..(a + (n % 256) - 1)
        BY <2>3 DEF Touched, BitFct
      <3>3. n % 256 \in 0..n
        BY <2>1, RemainderSmaller
      <3> HIDE DEF a, n
      <3>4. Touched(request) \subseteq Registers
        BY <2>1, <3>1, <3>2, <3>3 DEF Registers
      <3> QED
        BY <2>3, <3>4 DEF WordFct
    <2>4. CASE request.fct = 16
      <3>1. a + n =< u16regsize
        BY <2>4, WordsWithin DEF WordFct
      <3>2. Touched(request) = a..(a + n - 1)
        BY <2>4 DEF Touched, BitFct
      <3> HIDE DEF a, n
      <3>3. Touched(request) \subseteq Registers
        BY <2>1, <3>1, <3>2 DEF Registers
      <3> QED
        BY <2>4, <3>3 DEF WordFct
    <2>5. CASE request.fct \in BitFct
      <3>a. request.fct \notin WordFct /\ request.fct \notin {3, 4, 5, 6, 16}
            /\ request.fct # 5 /\ request.fct # 6 /\ request.fct # 16
        BY <2>5 DEF BitFct, WordFct
      <3>1. a \div 16 + Ceil(n, 16) =< u16regsize
        <4>1. OutOfRange(request) = (a \div 16 + Ceil(n, 16) > u16regsize)
          BY <2>5, <3>a, Zenon DEF OutOfRange
        <4>2. Ceil(n, 16) \in Nat
          BY <2>1 DEF Ceil
        <4>3. ~(a \div 16 + Ceil(n, 16) > u16regsize)
          BY <2>2, <4>1
        <4> HIDE DEF a, n
        <4>4. a \div 16 \in Nat
          BY <2>1
        <4> QED
          BY <2>1, <4>2, <4>3, <4>4
      <3>2. Touched(request) = {U16(a + i) \div 16 : i \in 0..(n - 1)}
        BY <2>5, <3>a, Zenon DEF Touched
      <3> HIDE DEF a, n
      <3>3. ASSUME NEW i \in 0..(n - 1) PROVE U16(a + i) \div 16 \in 0..u16regsize
        BY <2>1, <3>1, <3>3, LastCoil
      <3>4. Touched(request) \subseteq 0..u16regsize
        BY <3>2, <3>3
      <3> QED
        BY <2>5, <3>4 DEF BitFct, WordFct
    <2>6. CASE request.fct = 5
      <3>1. ~(Ceil(a, 16) > u16regsize) /\ Touched(request) = {a \div 16}
        BY <2>2, <2>6 DEF OutOfRange, Touched, BitFct, WordFct
      <3> HIDE DEF a, n
      <3>2. Touched(request) \subseteq 0..u16regsize
        BY <2>1, <3>1 DEF Ceil
      <3> QED
        BY <2>6, <3>2 DEF WordFct
    <2>7. CASE request.fct = 6
      <3>1. ~(a > u16regsize) /\ Touched(request) = {a}
        BY <2>2, <2>7 DEF OutOfRange, Touched, BitFct, WordFct
      <3> HIDE DEF a, n
      <3>2. Touched(request) \subseteq 0..u16regsize
        BY <2>1, <3>1
      <3> QED
        BY <2>7, <3>2 DEF WordFct
    <2> QED
      BY <2>2, <2>3, <2>4, <2>5, <2>6, <2>7 DEF BitFct
  <1> QED
    BY <1>1, Invariance, PTL

(* An answer fits 256 bytes as long as there are too few registers for the *)
(* 16 bits of its length to wrap; with one more, a request for 32766 words *)
(* would pass.                                                             *)
THEOREM AnswerFitsAlways ==
  ASSUME u16regsize =< 32765, MAX_BUFFER >= 256
  PROVE  Spec => []AnswerFits
  <1>1. IInv => AnswerFits
    <2> SUFFICES ASSUME IInv, CarriedOut
                 PROVE  AnswerLength(request) =< MAX_BUFFER
      BY DEF AnswerFits
    <2> DEFINE a == request.addr
               n == request.qty
    <2>1. a \in Nat /\ n \in Nat /\ u16regsize \in Nat /\ MAX_BUFFER \in Nat
      BY Passed
    <2>2. ~OutOfRange(request) /\ ~TooMany(request)
      BY Passed
    <2>3. CASE request.fct \in {1, 2}
      <3>1. Ceil(n, 8) + 5 =< 256
        BY <2>1, <2>2, <2>3 DEF TooMany, BitFct, Ceil
      <3>2. AnswerLength(request) = 3 + (Ceil(n, 8) % 256) + 2
        BY <2>3 DEF AnswerLength
      <3>3. Ceil(n, 8) \in Nat
        BY <2>1 DEF Ceil
      <3>4. Ceil(n, 8) % 256 = Ceil(n, 8)
        <4> DEFINE c == Ceil(n, 8)
        <4> HIDE DEF c
        <4>1. c \in 0..255 => c % 256 = c
          OBVIOUS
        <4> QED
          BY <3>1, <3>3, <4>1 DEF c
      <3> QED
        BY <2>1, <3>1, <3>2, <3>3, <3>4
    <2>4. CASE request.fct \in {3, 4}
      <3>1. a + n =< u16regsize
        BY <2>4, WordsWithin DEF WordFct
      <3>2. U16(n * 2 + 5) = n * 2 + 5
        <4> HIDE DEF a, n
        <4>1. n =< u16regsize
          BY <2>1, <3>1
        <4>2. n =< 32765
          BY <2>1, <4>1
        <4>3. n * 2 + 5 < 65536
          BY <2>1, <4>2
        <4>4. n * 2 + 5 \in Nat
          BY <2>1
        <4> QED
          BY <4>3, <4>4, Narrow
      <3>3. ~(n * 2 + 5 > 256)
        <4>1. request.fct \in WordFct
          BY <2>4 DEF WordFct
        <4>2. ~(U16(n * 2 + 5) > 256)
          BY <2>2, <4>1 DEF TooMany
        <4> QED
          BY <3>2, <4>2
      <3>4. AnswerLength(request) = 3 + 2 * (n % 256) + 2
        BY <2>4 DEF AnswerLength
      <3>5. n % 256 \in 0..n
        BY <2>1, RemainderSmaller
      <3> HIDE DEF a, n
      <3> QED
        BY <2>1, <3>3, <3>4, <3>5
    <2>5. CASE request.fct \notin {1, 2, 3, 4}
      BY <2>1, <2>5 DEF AnswerLength
    <2> QED
      BY <2>3, <2>4, <2>5
  <1> QED
    BY <1>1, Invariance, PTL
=============================================================================
