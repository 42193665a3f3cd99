---------------------------- MODULE ModbusRequest ----------------------------
(***************************************************************************)
(* What a Modbus slave makes of one request, components/MODBUS/Src/        *)
(* Modbus.c: the checks of validateRequest, and what the process_FC        *)
(* functions then touch.  A request is its function code and its two words;*)
(* the frame's CRC is right.  No check looks at the frame's length.        *)
(***************************************************************************)
EXTENDS Integers

CONSTANTS
  u16regsize,  \* the registers the application shares
  MAX_BUFFER   \* the bytes of u8Buffer

ASSUME RequestAssumption == u16regsize \in 0..65535 /\ MAX_BUFFER \in Nat

(* The function codes of fctsupported. *)
BitFct == {1, 2, 15}         \* coils and discrete inputs, many
WordFct == {3, 4, 16}        \* registers, many
WriteFct == {5, 6, 15, 16}
fctsupported == BitFct \cup WordFct \cup {5, 6}

word == 0..65535
RequestType == [fct : Nat, addr : word, qty : word]

Ceil(n, m) == (n + m - 1) \div m
U16(n) == n % 65536

-----------------------------------------------------------------------------
(* Each operator named ..._Bug is a fault the properties are to notice: it *)
(* stands before the definition it would replace.                          *)

(* The address alone is compared with the number of registers.             *)
OutOfRange_Bug(q) == q.addr > u16regsize

(* u16AdRegs + u16NRegs is an int and does not wrap. *)
OutOfRange(q) ==
  CASE q.fct \in BitFct -> q.addr \div 16 + Ceil(q.qty, 16) > u16regsize
    [] q.fct \in WordFct -> q.addr + q.qty > u16regsize
    [] q.fct = 5 -> Ceil(q.addr, 16) > u16regsize
    [] q.fct = 6 -> q.addr > u16regsize

TooMany_Bug(q) == q.fct \in WordFct /\ U16(q.qty * 2) > 256

(* The answer's length is computed in 16 bits. *)
TooMany(q) ==
  \/ q.fct \in BitFct /\ Ceil(q.qty, 8) + 5 > 256
  \/ q.fct \in WordFct /\ U16(q.qty * 2 + 5) > 256

validateRequest(q) ==
  CASE q.fct \notin fctsupported -> "EXC_FUNC_CODE"
    [] q.fct \in fctsupported /\ OutOfRange(q) -> "EXC_ADDR_RANGE"
    [] q.fct \in fctsupported /\ ~OutOfRange(q) /\ TooMany(q) -> "EXC_REGS_QUANT"
    [] OTHER -> "OK"

(* The registers process_FC reads or writes. Its coil number is 16 bits    *)
(* wide, its count of registers to read 8.                                 *)
Touched(q) ==
  CASE q.fct \in BitFct -> {U16(q.addr + i) \div 16 : i \in 0..(q.qty - 1)}
    [] q.fct \in {3, 4} -> q.addr..(q.addr + (q.qty % 256) - 1)
    [] q.fct = 16 -> q.addr..(q.addr + q.qty - 1)
    [] q.fct = 5 -> {q.addr \div 16}
    [] q.fct = 6 -> {q.addr}

(* The length of the answer, with its CRC. *)
AnswerLength(q) ==
  CASE q.fct \in {1, 2} -> 3 + (Ceil(q.qty, 8) % 256) + 2
    [] q.fct \in {3, 4} -> 3 + 2 * (q.qty % 256) + 2
    [] OTHER -> 8
=============================================================================
