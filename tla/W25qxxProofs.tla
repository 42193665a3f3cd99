---------------------------- MODULE W25qxxProofs ----------------------------
(***************************************************************************)
(* The driver of the flash, for chips, boards and calls of every size.     *)
(*                                                                         *)
(* What is known between any two steps (Known) is that a trusted handle    *)
(* says how the chip is to be spoken to; most functions are Tame: whatever *)
(* becomes of their commands, they do not change that.  From it follows    *)
(* that a read is answered with what the array holds.  A write under way   *)
(* is described by Underway, what its record may be, and by Faithful, how  *)
(* much of the request is in the array; every step of the driver is then a *)
(* step of NorStore.                                                       *)
(***************************************************************************)
EXTENDS W25qxx, SequenceTheorems, WellFoundedInduction, TLAPS

(* The chip, and a command that may be sent to it.                         *)
State == [chip : Chip, mem : [Addr -> Byte]]

WellFormed(k) ==
    /\ k.a \in Addr
    /\ k.op \in {"wsr1", "wsr2", "wsr3"} => k.d = << >> \/ k.d[1] \in BOOLEAN
    /\ k.op = "params" => k.d[1] \in {2, 8}
    /\ k.op \in Programming => k.d \in Seq(Byte)

-------------------------------------------------------------------------------
(* Division, for divisors that are parameters.                             *)
LEMMA Division ==
  ASSUME NEW a \in Int, NEW n \in Nat, n > 0
  PROVE  /\ a = n * (a \div n) + (a % n)
         /\ a % n \in 0 .. n - 1
         /\ a \div n \in Int
         /\ a >= 0 => a \div n >= 0
  OBVIOUS

LEMMA Quotient ==
  ASSUME NEW a \in Int, NEW n \in Nat, n > 0, NEW q \in Int, n * q <= a, a < (n * q) + n
  PROVE  a \div n = q /\ a % n = a - (n * q)
  <1>1. a \div n = q
    OBVIOUS
  <1> QED
    BY <1>1, Division

(* A place in the same page, and where it lies in it.                      *)
LEMMA SamePage ==
  ASSUME NEW p \in Nat, NEW x \in Nat, NEW n \in Nat, n > 0, NEW l \in Nat,
         l <= n - (p % n)
  PROVE  /\ (x \div n = p \div n /\ (x - p) % n < l) <=> (p <= x /\ x < p + l)
         /\ p <= x /\ x < p + l => (x - p) % n = x - p
  <1> DEFINE q == p \div n
             r == p % n
  <1>1. p = (n * q) + r /\ r \in 0 .. n - 1 /\ q \in Int
    BY Division
  <1>2. l <= n - r
    OBVIOUS
  <1>3. x = n * (x \div n) + (x % n) /\ (x % n) \in 0 .. n - 1
    BY Division
  <1> HIDE DEF q, r
  <1>4. ASSUME p <= x, x < p + l
        PROVE  x \div n = q /\ (x - p) % n = x - p /\ (x - p) % n < l
    <2>1. n * q <= x /\ x < (n * q) + n
      BY <1>1, <1>2, <1>4
    <2>2. x \div n = q
      BY <1>1, <2>1, Quotient
    <2>3. (x - p) % n = x - p
      <3>1. x - p \in Int /\ n * 0 <= x - p /\ x - p < (n * 0) + n
        BY <1>1, <1>2, <1>4
      <3> QED
        BY <3>1, Quotient
    <2> QED
      BY <1>4, <2>2, <2>3
  <1>5. ASSUME x \div n = q, (x - p) % n < l
        PROVE  p <= x /\ x < p + l
    <2>1. n * q <= x /\ x < (n * q) + n
      BY <1>1, <1>3, <1>5
    <2>2. CASE p <= x
      <3>1. x - p \in Int /\ n * 0 <= x - p /\ x - p < (n * 0) + n
        BY <1>1, <2>1, <2>2
      <3>2. (x - p) % n = x - p
        BY <3>1, Quotient
      <3> QED
        BY <1>5, <2>2, <3>2
    <2>3. CASE x < p
      <3>1. x - p \in Int /\ n * (-1) <= x - p /\ x - p < (n * (-1)) + n
        BY <1>1, <2>1, <2>3
      <3>2. (x - p) % n = x - p + n
        BY <3>1, Quotient
      <3> QED
        BY <1>1, <1>2, <1>5, <2>1, <2>3, <3>2
    <2> QED
      BY <2>2, <2>3
  <1> QED
    BY <1>4, <1>5 DEF q

LEMMA Geometry ==
  /\ PAGE \in Nat /\ PAGE > 0 /\ SECTOR \in Nat /\ SECTOR > 0 /\ BANK \in Nat /\ BANK > 0
  /\ Addr \subseteq Nat /\ 0 \in Addr
  BY GeometryAssumption DEF Addr

(* The place an address names.                                             *)
LEMMA PlaceInside ==
  ASSUME NEW c \in Chip, NEW large \in BOOLEAN, NEW a \in Addr
  PROVE  /\ Place(large, c, a) \in Addr
         /\ a \div BANK \in {0, 1}
         /\ c.four => Place(large, c, a) = a
         /\ (large /\ c.ext = a \div BANK) \/ (a < BANK /\ ~large) => Place(large, c, a) = a
  <1>1. a \in Int /\ 0 <= a /\ a < 2 * BANK /\ BANK \in Nat /\ BANK > 0
    BY Geometry DEF Addr
  <1>2. a = (BANK * (a \div BANK)) + (a % BANK) /\ a % BANK \in 0 .. BANK - 1 /\ a \div BANK \in Int
    BY <1>1, Division
  <1> DEFINE q == a \div BANK
             r == a % BANK
  <1>3. c.ext \in {0, 1} /\ c.four \in BOOLEAN
    BY DEF Chip
  <1>4. Place(large, c, a) = IF c.four THEN a ELSE r + (IF large THEN c.ext * BANK ELSE 0)
    BY DEF Place
  <1>5. q \in {0, 1}
    <2> HIDE DEF q
    <2> QED
      BY <1>1, <1>2 DEF q
  <1> HIDE DEF q, r
  <1>6. r \in 0 .. BANK - 1 /\ a = BANK * q + r
    BY <1>2 DEF q, r
  <1> QED
    BY <1>1, <1>3, <1>4, <1>5, <1>6 DEF Addr, q

-------------------------------------------------------------------------------
(* The states after each command.                                          *)
LEMMA SentSteps ==
  ASSUME NEW cmds
  PROVE  /\ Sent(cmds, 0) = [chip |-> chip, mem |-> mem]
         /\ \A k \in 1 .. MaxSent :
              Sent(cmds, k) = Hears(board.large, board.fab, Sent(cmds, k - 1), cmds[k])
  <1> DEFINE H(s, i) == Hears(board.large, board.fab, s, cmds[i])
             f0 == [chip |-> chip, mem |-> mem]
             f1 == H(f0, 1)   f2 == H(f1, 2)   f3 == H(f2, 3)
             f4 == H(f3, 4)   f5 == H(f4, 5)   f6 == H(f5, 6)
             f7 == H(f6, 7)   f8 == H(f7, 8)   f9 == H(f8, 9)
             f10 == H(f9, 10)
             F == [i \in 0 .. 10 |->
                     CASE i = 0 -> f0 [] i = 1 -> f1 [] i = 2 -> f2
                       [] i = 3 -> f3 [] i = 4 -> f4 [] i = 5 -> f5
                       [] i = 6 -> f6 [] i = 7 -> f7 [] i = 8 -> f8
                       [] i = 9 -> f9 [] i = 10 -> f10]
             Is(g) == g = [i \in 0 .. MaxSent |-> IF i = 0 THEN f0 ELSE H(g[i - 1], i)]
             g0 == CHOOSE g : Is(g)
  <1>1. Is(F)
    <2> HIDE DEF f0, H
    <2>1. /\ F[0] = f0 /\ F[1] = H(F[0], 1) /\ F[2] = H(F[1], 2)
          /\ F[3] = H(F[2], 3) /\ F[4] = H(F[3], 4) /\ F[5] = H(F[4], 5)
          /\ F[6] = H(F[5], 6) /\ F[7] = H(F[6], 7) /\ F[8] = H(F[7], 8)
          /\ F[9] = H(F[8], 9) /\ F[10] = H(F[9], 10)
      OBVIOUS
    <2>2. F = [i \in 0 .. 10 |-> F[i]]
      OBVIOUS
    <2> HIDE DEF F
    <2>3. ASSUME NEW i \in 0 .. 10
          PROVE  F[i] = IF i = 0 THEN f0 ELSE H(F[i - 1], i)
      <3>1. i \in {0, 1, 2, 3, 4, 5, 6, 7, 8, 9, 10}
        OBVIOUS
      <3> QED
        BY <2>1, <3>1
    <2> QED
      BY <2>2, <2>3 DEF MaxSent
  <1>2. Is(g0)
    <2> HIDE DEF F, Is
    <2> QED
      BY <1>1
  <1>3. \A k : Sent(cmds, k) = g0[k]
    BY DEF Sent
  <1> HIDE DEF g0
  <1>4. g0[0] = f0 /\ \A k \in 1 .. MaxSent : g0[k] = H(g0[k - 1], k)
    <2> HIDE DEF H, f0
    <2>1. \A k \in 0 .. MaxSent : g0[k] = IF k = 0 THEN f0 ELSE H(g0[k - 1], k)
      BY <1>2
    <2> QED
      BY <2>1 DEF MaxSent
  <1> QED
    BY <1>3, <1>4

LEMMA LeastNumber ==
  ASSUME NEW S \in SUBSET Nat, S # {}
  PROVE  \E m \in S : \A j \in S : m =< j
  <1> DEFINE less == OpToRel(<, Nat)
  <1>1. PICK m \in S : \A j \in S : ~ (<<j, m>> \in less)
    <2>1. IsWellFoundedOn(less, Nat)
      BY NatLessThanWellFounded
    <2> HIDE DEF less
    <2> QED
      BY <2>1, WFMin
  <1>2. \A j \in S : <<j, m>> \in less <=> j < m
    BY DEF OpToRel
  <1>3. \A j \in S : ~ (j < m)
    BY <1>1, <1>2
  <1>4. \A j \in S : m =< j
    BY <1>3
  <1> QED
    BY <1>4

(* What every command keeps, all of them keep.                             *)
LEMMA SentKeeps ==
  ASSUME NEW cmds, NEW n \in 0 .. MaxSent, NEW S, [chip |-> chip, mem |-> mem] \in S,
         \A s \in S, i \in 1 .. n : Hears(board.large, board.fab, s, cmds[i]) \in S
  PROVE  \A k \in 0 .. n : Sent(cmds, k) \in S
  <1> DEFINE P(k) == k \in 0 .. n => Sent(cmds, k) \in S
  <1>1. P(0)
    BY SentSteps
  <1>2. ASSUME NEW k \in Nat, P(k)
        PROVE  P(k + 1)
    <2> SUFFICES ASSUME k + 1 \in 0 .. n
                 PROVE  Sent(cmds, k + 1) \in S
      OBVIOUS
    <2>1. k + 1 \in 1 .. MaxSent /\ k + 1 \in 1 .. n /\ k \in 0 .. n /\ (k + 1) - 1 = k
      BY DEF MaxSent
    <2> QED
      BY <1>2, <2>1, SentSteps
  <1> DEFINE C == {k \in Nat : ~ P(k)}
  <1> HIDE DEF P
  <1>3. C = {}
    <2> SUFFICES ASSUME C # {}
                 PROVE  FALSE
      OBVIOUS
    <2>1. PICK k \in C : \A l \in C : k =< l
      BY LeastNumber DEF C
    <2>2. k \in Nat /\ k # 0 /\ ~ P(k)
      BY <1>1, <2>1 DEF C
    <2>3. P(k - 1)
      BY <2>1, <2>2 DEF C
    <2>4. k - 1 \in Nat /\ (k - 1) + 1 = k
      BY <2>2
    <2> QED
      BY <1>2, <2>2, <2>3, <2>4
  <1> QED
    BY <1>3 DEF P

-------------------------------------------------------------------------------
(* What a command does to the chip.                                        *)
LEMMA MemoryTypes ==
  ASSUME NEW m \in [Addr -> Byte], NEW cells
  PROVE  ErasedIn(m, cells) \in [Addr -> Byte] /\ TornIn(m, cells) \in [Addr -> Byte]
  BY DEF ErasedIn, TornIn, Byte, Erased

LEMMA AndByte ==
  ASSUME NEW x \in Byte, NEW y \in Byte
  PROVE  And(x, y) \in Byte
  BY DEF And, Byte

LEMMA ProgrammedType ==
  ASSUME NEW m \in [Addr -> Byte], NEW p \in Addr, NEW d \in Seq(Byte)
  PROVE  Programmed(m, p, d) \in [Addr -> Byte]
  <1> SUFFICES ASSUME NEW x \in Addr, x \div PAGE = p \div PAGE, (x - p) % PAGE < Len(d)
               PROVE  And(m[x], d[((x - p) % PAGE) + 1]) \in Byte
    BY DEF Programmed
  <1>1. x - p \in Int /\ PAGE \in Nat /\ PAGE > 0
    BY Geometry
  <1>2. (x - p) % PAGE \in 0 .. PAGE - 1
    BY <1>1, Division
  <1>3. d[((x - p) % PAGE) + 1] \in Byte
    BY <1>1, <1>2
  <1> QED
    BY <1>3, AndByte

LEMMA ReachedType ==
  ASSUME NEW large \in BOOLEAN, NEW c, NEW k, k.op \in Erasing \cup Programming
  PROVE  Reached(large, c, k) \subseteq Addr
  <1>1. 0 .. BANK - 1 \subseteq Addr
    BY Geometry DEF Addr
  <1> QED
    BY <1>1 DEF Reached, Aligned, Erasing, Programming

(* The registers after a command that leaves the array alone.              *)
Altering == Erasing \cup Programming \cup {"reset"}

LEMMA RegisterTypes ==
  ASSUME NEW c \in Chip
  PROVE  /\ \A b \in BOOLEAN :
              /\ [c EXCEPT !.wel = b] \in Chip /\ [c EXCEPT !.vol = b] \in Chip
              /\ [c EXCEPT !.four = b] \in Chip /\ [c EXCEPT !.down = b] \in Chip
              /\ [c EXCEPT !.qpi = b] \in Chip /\ [c EXCEPT !.armed = b] \in Chip
         /\ \A b \in BOOLEAN :
              /\ [c EXCEPT !.wel = FALSE, !.vol = FALSE, !.prot = b] \in Chip
              /\ [c EXCEPT !.wel = FALSE, !.vol = FALSE, !.qe = b] \in Chip
              /\ [c EXCEPT !.wel = FALSE, !.vol = FALSE, !.wps = b] \in Chip
         /\ [c EXCEPT !.busy = TRUE, !.susp = FALSE] \in Chip
         /\ [c EXCEPT !.busy = FALSE, !.susp = TRUE] \in Chip
         /\ [c EXCEPT !.wel = FALSE, !.busy = TRUE] \in Chip
         /\ \A e \in {0, 1} : [c EXCEPT !.ext = e, !.wel = FALSE] \in Chip
         /\ \A n \in {2, 8} : [c EXCEPT !.dummy = n] \in Chip
         /\ \A l \in SUBSET Sectors : [c EXCEPT !.locks = l] \in Chip
         /\ \A w \in SUBSET Addr :
              [c EXCEPT !.wel = FALSE, !.busy = TRUE, !.work = w] \in Chip
         /\ Ended(c) \in Chip
  <1>1. \A b \in BOOLEAN :
          /\ [c EXCEPT !.wel = b] \in Chip /\ [c EXCEPT !.vol = b] \in Chip
          /\ [c EXCEPT !.four = b] \in Chip /\ [c EXCEPT !.down = b] \in Chip
          /\ [c EXCEPT !.qpi = b] \in Chip /\ [c EXCEPT !.armed = b] \in Chip
    BY DEF Chip
  <1>2. \A b \in BOOLEAN :
          /\ [c EXCEPT !.wel = FALSE, !.vol = FALSE, !.prot = b] \in Chip
          /\ [c EXCEPT !.wel = FALSE, !.vol = FALSE, !.qe = b] \in Chip
          /\ [c EXCEPT !.wel = FALSE, !.vol = FALSE, !.wps = b] \in Chip
    BY DEF Chip
  <1>3. /\ [c EXCEPT !.busy = TRUE, !.susp = FALSE] \in Chip
        /\ [c EXCEPT !.busy = FALSE, !.susp = TRUE] \in Chip
        /\ [c EXCEPT !.wel = FALSE, !.busy = TRUE] \in Chip
    BY DEF Chip
  <1>4. /\ \A e \in {0, 1} : [c EXCEPT !.ext = e, !.wel = FALSE] \in Chip
        /\ \A n \in {2, 8} : [c EXCEPT !.dummy = n] \in Chip
    BY DEF Chip
  <1>5. \A l \in SUBSET Sectors : [c EXCEPT !.locks = l] \in Chip
    BY DEF Chip
  <1>6. \A w \in SUBSET Addr : [c EXCEPT !.wel = FALSE, !.busy = TRUE, !.work = w] \in Chip
    BY DEF Chip
  <1>7. Ended(c) \in Chip
    BY DEF Ended, Chip
  <1> QED
    BY <1>1, <1>2, <1>3, <1>4, <1>5, <1>6, <1>7

LEMMA Registers ==
  ASSUME NEW large \in BOOLEAN, NEW fab, NEW s, NEW k, NEW c, c = [s.chip EXCEPT !.armed = FALSE],
         NEW O, O = Obeyed(large, fab, s, k),
         c \in Chip, WellFormed(k), k.op \notin Altering
  PROVE  O = [chip |-> O.chip, mem |-> s.mem] /\ O.mem = s.mem /\ O.chip \in Chip
  <1>1. O = [chip |-> O.chip, mem |-> s.mem] /\ O.mem = s.mem
    BY Zenon DEF Obeyed, Erasing, Programming, Altering
  <1>2. k.a \div BANK \in {0, 1} /\ Place(large, c, k.a) \div SECTOR \in Sectors
    BY PlaceInside DEF WellFormed, Sectors
  <1>3. CASE k.op \in {"wren", "wrdis", "volsr"}
    <2>1. \/ O.chip = c
           \/ O.chip = [c EXCEPT !.wel = TRUE]
           \/ O.chip = [c EXCEPT !.wel = FALSE]
           \/ O.chip = [c EXCEPT !.vol = TRUE]
      BY <1>3, Zenon DEF Obeyed, Erasing, Programming
    <2> QED
      BY <1>1, <1>3, <2>1, RegisterTypes
  <1>11. CASE k.op = "wsr1"
    <2>1. O.chip = c \/ (k.d # << >> /\ O.chip = [c EXCEPT !.wel = FALSE, !.vol = FALSE, !.prot = k.d[1]])
      BY <1>11, Zenon DEF Obeyed, Erasing, Programming
    <2>2. k.d # << >> => k.d[1] \in BOOLEAN
      BY <1>11 DEF WellFormed
    <2>3. k.d # << >> => [c EXCEPT !.wel = FALSE, !.vol = FALSE, !.prot = k.d[1]] \in Chip
      BY <2>2, RegisterTypes
    <2> QED
      BY <1>1, <2>1, <2>3, Zenon
  <1>12. CASE k.op = "wsr2"
    <2>1. O.chip = c \/ (k.d # << >> /\ O.chip = [c EXCEPT !.wel = FALSE, !.vol = FALSE, !.qe = k.d[1]])
      BY <1>12, Zenon DEF Obeyed, Erasing, Programming
    <2>2. k.d # << >> => k.d[1] \in BOOLEAN
      BY <1>12 DEF WellFormed
    <2>3. k.d # << >> => [c EXCEPT !.wel = FALSE, !.vol = FALSE, !.qe = k.d[1]] \in Chip
      BY <2>2, RegisterTypes
    <2> QED
      BY <1>1, <2>1, <2>3, Zenon
  <1>13. CASE k.op = "wsr3"
    <2>1. O.chip = c \/ (k.d # << >> /\ O.chip = [c EXCEPT !.wel = FALSE, !.vol = FALSE, !.wps = k.d[1]])
      BY <1>13, Zenon DEF Obeyed, Erasing, Programming
    <2>2. k.d # << >> => k.d[1] \in BOOLEAN
      BY <1>13 DEF WellFormed
    <2>3. k.d # << >> => [c EXCEPT !.wel = FALSE, !.vol = FALSE, !.wps = k.d[1]] \in Chip
      BY <2>2, RegisterTypes
    <2> QED
      BY <1>1, <2>1, <2>3, Zenon
  <1>5. CASE k.op \in {"lock", "unlock", "glock", "gunlock"}
    <2> DEFINE p == Place(large, c, k.a) \div SECTOR
    <2>1. \/ O.chip = c
          \/ O.chip = [c EXCEPT !.locks = Sectors]
          \/ O.chip = [c EXCEPT !.locks = {}]
          \/ O.chip = [c EXCEPT !.locks = c.locks \cup {p}]
          \/ O.chip = [c EXCEPT !.locks = c.locks \ {p}]
      BY <1>5, Zenon DEF Obeyed, Erasing, Programming
    <2>2. {Sectors, {}, c.locks \cup {p}, c.locks \ {p}} \subseteq SUBSET Sectors
      BY <1>2 DEF Chip
    <2> HIDE DEF p
    <2>3. O.chip = c \/ \E l \in SUBSET Sectors : O.chip = [c EXCEPT !.locks = l]
      BY <2>1, <2>2, Zenon
    <2>4. \A l \in SUBSET Sectors : [c EXCEPT !.locks = l] \in Chip
      BY RegisterTypes
    <2>5. O.chip \in Chip
      BY <2>3, <2>4, Zenon
    <2> QED
      BY <1>1, <2>5
  <1>6. CASE k.op \in {"addr4", "addr3", "down", "release"}
    <2>1. \/ O.chip = c
           \/ O.chip = [c EXCEPT !.four = TRUE]
           \/ O.chip = [c EXCEPT !.four = FALSE]
           \/ O.chip = [c EXCEPT !.down = TRUE]
           \/ O.chip = [c EXCEPT !.down = FALSE]
      BY <1>6, Zenon DEF Obeyed, Erasing, Programming
    <2> QED
      BY <1>1, <1>6, <2>1, RegisterTypes
  <1>7. CASE k.op \in {"qpi", "spi", "suspend", "resume"}
    <2>1. \/ O.chip = c
           \/ O.chip = [c EXCEPT !.qpi = TRUE]
           \/ O.chip = [c EXCEPT !.qpi = FALSE]
           \/ O.chip = [c EXCEPT !.busy = FALSE, !.susp = TRUE]
           \/ O.chip = [c EXCEPT !.busy = TRUE, !.susp = FALSE]
      BY <1>7, Zenon DEF Obeyed, Erasing, Programming
    <2> QED
      BY <1>1, <1>7, <2>1, RegisterTypes
  <1>8. CASE k.op \in {"erasesec", "progsec", "rsten"}
    <2>1. \/ O.chip = c
           \/ O.chip = [c EXCEPT !.armed = TRUE]
           \/ O.chip = [c EXCEPT !.wel = FALSE, !.busy = TRUE]
      BY <1>8, Zenon DEF Obeyed, Erasing, Programming
    <2> QED
      BY <1>1, <1>8, <2>1, RegisterTypes
  <1>9. CASE k.op = "params"
    <2>1. O.chip = c \/ O.chip = [c EXCEPT !.dummy = k.d[1]]
      BY <1>9, Zenon DEF Obeyed, Erasing, Programming
    <2>2. k.d[1] \in {2, 8}
      BY <1>9 DEF WellFormed
    <2>3. \A n \in {2, 8} : [c EXCEPT !.dummy = n] \in Chip
      BY RegisterTypes
    <2>4. [c EXCEPT !.dummy = k.d[1]] \in Chip
      BY <2>2, <2>3, Zenon
    <2>5. O.chip \in Chip
      BY <2>1, <2>4, Zenon
    <2> QED
      BY <1>1, <2>5
  <1>14. CASE k.op = "extaddr"
    <2>1. O.chip = c \/ O.chip = [c EXCEPT !.ext = k.a \div BANK, !.wel = FALSE]
      BY <1>14, Zenon DEF Obeyed, Erasing, Programming
    <2>2. \A e \in {0, 1} : [c EXCEPT !.ext = e, !.wel = FALSE] \in Chip
      BY RegisterTypes
    <2>3. [c EXCEPT !.ext = k.a \div BANK, !.wel = FALSE] \in Chip
      BY <1>2, <2>2, Zenon
    <2>4. O.chip \in Chip
      BY <2>1, <2>3, Zenon
    <2> QED
      BY <1>1, <2>4
  <1>10. CASE k.op \notin {"wren", "wrdis", "volsr", "wsr1", "wsr2", "wsr3", "lock",
                         "unlock", "glock", "gunlock", "addr4", "addr3", "down", "release",
                         "qpi", "spi", "suspend", "resume", "erasesec", "progsec", "rsten",
                         "params", "extaddr"}
    <2>1. O.chip = c
      BY <1>10, Zenon DEF Obeyed, Erasing, Programming, Altering
    <2> QED
      BY <1>1, <2>1
  <1> QED
    BY <1>3, <1>5, <1>6, <1>7, <1>8, <1>9, <1>10, <1>11, <1>12, <1>13, <1>14

LEMMA HearsState ==
  ASSUME NEW large \in BOOLEAN, NEW fab \in [qe : BOOLEAN], NEW s \in State, NEW k,
         WellFormed(k)
  PROVE  Hears(large, fab, s, k) \in State
  <1>0. PICK c, m, O : c = [s.chip EXCEPT !.armed = FALSE] /\ m = s.mem
                       /\ O = Obeyed(large, fab, s, k)
    OBVIOUS
  <1>1. s.chip \in Chip /\ m \in [Addr -> Byte]
    BY <1>0 DEF State
  <1>2. c \in Chip
    BY <1>0, <1>1 DEF Chip
  <1>3. k.a \in Addr /\ Place(large, c, k.a) \in Addr
    BY <1>2, PlaceInside DEF WellFormed
  <1>4. TornIn(m, c.work) \in [Addr -> Byte] /\ Fresh(fab) \in Chip
    BY <1>1, MemoryTypes DEF Fresh, Chip
  <1>5. ASSUME k.op \notin Altering
        PROVE  O \in State
    <2>1. O = [chip |-> O.chip, mem |-> m] /\ O.chip \in Chip
      BY <1>0, <1>2, <1>5, Registers
    <2> QED
      BY <1>1, <2>1 DEF State
  <1>6. ASSUME k.op = "reset"
        PROVE  O \in State
    <2>1. O = [chip |-> c, mem |-> m] \/ O = [chip |-> Fresh(fab), mem |-> TornIn(m, c.work)]
      BY <1>0, <1>6, Zenon DEF Obeyed, Erasing, Programming
    <2> QED
      BY <1>1, <1>2, <1>4, <2>1 DEF State
  <1>7. ASSUME k.op \in Erasing
        PROVE  O \in State
    <2> DEFINE cells == Reached(large, c, k)
    <2>1. O = [chip |-> c, mem |-> m]
          \/ O = [chip |-> [c EXCEPT !.wel = FALSE, !.busy = TRUE, !.work = cells],
                  mem |-> ErasedIn(m, cells)]
      BY <1>0, <1>7, Zenon DEF Obeyed, Erasing, Programming
    <2>2. cells \subseteq Addr /\ ErasedIn(m, cells) \in [Addr -> Byte]
      BY <1>1, <1>7, ReachedType, MemoryTypes
    <2> HIDE DEF cells
    <2>3. [c EXCEPT !.wel = FALSE, !.busy = TRUE, !.work = cells] \in Chip
      BY <1>2, <2>2 DEF Chip
    <2> QED
      BY <1>1, <1>2, <2>1, <2>2, <2>3 DEF State
  <1>8. ASSUME k.op \in Programming
        PROVE  O \in State
    <2> DEFINE cells == Reached(large, c, k)
               after == Programmed(m, Place(large, c, k.a), k.d)
    <2>1. O = [chip |-> c, mem |-> m]
          \/ O = [chip |-> [c EXCEPT !.wel = FALSE, !.busy = TRUE, !.work = cells],
                  mem |-> after]
      BY <1>0, <1>8, Zenon DEF Obeyed, Erasing, Programming
    <2>2. cells \subseteq Addr /\ after \in [Addr -> Byte]
      BY <1>1, <1>3, <1>8, ReachedType, ProgrammedType DEF WellFormed
    <2> HIDE DEF cells, after
    <2>3. [c EXCEPT !.wel = FALSE, !.busy = TRUE, !.work = cells] \in Chip
      BY <1>2, <2>2 DEF Chip
    <2> QED
      BY <1>1, <1>2, <2>1, <2>2, <2>3 DEF State
  <1>9. O \in State
    BY <1>5, <1>6, <1>7, <1>8 DEF Altering
  <1> QED
    BY <1>0, <1>9 DEF Hears

LEMMA HeardOrNot ==
  ASSUME NEW large, NEW fab, NEW s, NEW k
  PROVE  \/ Hears(large, fab, s, k) = s /\ ~ Understands(s.chip, k)
         \/ Hears(large, fab, s, k) = Obeyed(large, fab, s, k) /\ Understands(s.chip, k)
  BY DEF Hears

(* How the chip is to be spoken to changes by few commands only.           *)
Modal    == {"addr4", "addr3", "down", "release", "qpi", "spi", "params", "reset"}
Starting == Erasing \cup Programming \cup {"erasesec", "progsec"}
Guarding == {"wsr1", "wsr2", "wsr3", "glock", "gunlock", "lock", "unlock",
             "suspend", "resume", "reset"}

LEMMA ModesKept ==
  ASSUME NEW large, NEW fab, NEW s \in State, NEW k, k.op \notin Modal
  PROVE  LET t == Hears(large, fab, s, k).chip IN
         /\ t.qpi = s.chip.qpi /\ t.four = s.chip.four
         /\ t.down = s.chip.down /\ t.dummy = s.chip.dummy
  BY DEF Hears, Obeyed, State, Chip, Modal

LEMMA StaysReady ==
  ASSUME NEW large, NEW fab, NEW s \in State, NEW k, k.op \notin Starting,
         ~ s.chip.busy, k.op = "resume" => ~ s.chip.susp
  PROVE  ~ Hears(large, fab, s, k).chip.busy
  BY DEF Hears, Obeyed, State, Chip, Starting, Fresh

LEMMA GuardsKept ==
  ASSUME NEW large, NEW fab, NEW s \in State, NEW k, k.op \notin Guarding
  PROVE  LET t == Hears(large, fab, s, k).chip IN
         /\ t.susp = s.chip.susp /\ t.prot = s.chip.prot
         /\ t.wps = s.chip.wps /\ t.locks = s.chip.locks
  BY DEF Hears, Obeyed, State, Chip, Guarding

LEMMA MemoryKept ==
  ASSUME NEW large, NEW fab, NEW s, NEW k, k.op \notin Altering
  PROVE  Hears(large, fab, s, k).mem = s.mem
  BY Zenon DEF Hears, Obeyed, Erasing, Programming, Altering

LEMMA WorkKept ==
  ASSUME NEW large, NEW fab, NEW s \in State, NEW k,
         s.chip.work = {} \/ s.chip.busy \/ s.chip.susp
  PROVE  LET t == Hears(large, fab, s, k).chip IN t.work = {} \/ t.busy \/ t.susp
  <1> DEFINE t == Hears(large, fab, s, k).chip
  <1>1. CASE k.op \in {"suspend", "resume", "reset"}
    <2>1. PICK c : c = [s.chip EXCEPT !.armed = FALSE]
      OBVIOUS
    <2>2. k.op = "suspend" =>
            t = s.chip \/ t = c \/ t = [c EXCEPT !.busy = FALSE, !.susp = TRUE]
      BY <2>1, Zenon DEF Hears, Obeyed, Erasing, Programming
    <2>3. k.op = "resume" =>
            t = s.chip \/ t = c \/ t = [c EXCEPT !.busy = TRUE, !.susp = FALSE]
      BY <2>1, Zenon DEF Hears, Obeyed, Erasing, Programming
    <2>4. k.op = "reset" => t = s.chip \/ t = c \/ t = Fresh(fab)
      BY <2>1, Zenon DEF Hears, Obeyed, Erasing, Programming
    <2>5. s.chip \in Chip
      BY DEF State
    <2>6. Fresh(fab).work = {}
      BY DEF Fresh
    <2> QED
      BY <1>1, <2>1, <2>2, <2>3, <2>4, <2>5, <2>6 DEF Chip
  <1>2. CASE k.op \notin {"suspend", "resume", "reset"}
    <2>1. t.susp = s.chip.susp
      BY <1>2 DEF Hears, Obeyed, State, Chip
    <2>2. s.chip.busy => t.busy
      BY <1>2 DEF Hears, Obeyed, State, Chip
    <2>3. k.op \notin Altering => t.work = s.chip.work
      BY DEF Hears, Obeyed, State, Chip, Altering
    <2>4. k.op \in Erasing \cup Programming => t.work = s.chip.work \/ t.busy
      BY DEF Hears, Obeyed, State, Chip, Erasing, Programming
    <2> QED
      BY <1>2, <2>1, <2>2, <2>3, <2>4 DEF Altering
  <1> QED
    BY <1>1, <1>2

LEMMA FourOnlyIfLarge ==
  ASSUME NEW large, NEW fab, NEW s \in State, NEW k, s.chip.four => large
  PROVE  Hears(large, fab, s, k).chip.four => large
  BY DEF Hears, Obeyed, State, Chip, Fresh

-------------------------------------------------------------------------------
(* What can come of sending commands.                                      *)
Now == [chip |-> chip, mem |-> mem]

Legal == {s \in State : /\ s.chip.four => board.large
                        /\ s.chip.work = {} \/ s.chip.busy \/ s.chip.susp}

Sendable(j) == /\ Len(j.cmds) \in 0 .. MaxSent
               /\ \A i \in 1 .. Len(j.cmds) : WellFormed(j.cmds[i])

LEMMA BoardType ==
  ASSUME board \in Boards
  PROVE  board.large \in BOOLEAN /\ board.fab \in [qe : BOOLEAN]
  BY DEF Boards

LEMMA HearsLegal ==
  ASSUME board \in Boards, NEW s \in Legal, NEW k, WellFormed(k)
  PROVE  Hears(board.large, board.fab, s, k) \in Legal
  <1>1. s \in State /\ Hears(board.large, board.fab, s, k) \in State
    BY BoardType, HearsState DEF Legal
  <1> QED
    BY <1>1, FourOnlyIfLarge, WorkKept DEF Legal

LEMMA SentStays ==
  ASSUME board \in Boards, Now \in Legal, NEW cmds, NEW n \in 0 .. MaxSent,
         \A i \in 1 .. n : WellFormed(cmds[i])
  PROVE  \A k \in 0 .. n : Sent(cmds, k) \in Legal
  <1>1. \A s \in Legal, i \in 1 .. n : Hears(board.large, board.fab, s, cmds[i]) \in Legal
    BY HearsLegal
  <1> QED
    BY <1>1, SentKeeps DEF Now

LEMMA SentLegal ==
  ASSUME board \in Boards, Now \in Legal, NEW j, Sendable(j)
  PROVE  \A k \in 0 .. Len(j.cmds) : Sent(j.cmds, k) \in Legal
  BY SentStays DEF Sendable

LEMMA OutcomeCases ==
  ASSUME NEW j, Len(j.cmds) \in Nat, NEW o \in Outcomes(j)
  PROVE  LET n == Len(j.cmds) IN
         \/ n # 0 /\ \E k \in 0 .. n : o = Result(Sent(j.cmds, k), j.bus, FALSE)
         \/ ~ j.wait /\ o = Result(Sent(j.cmds, n), j.done, TRUE)
         \/ j.wait /\ o \in Polled(Sent(j.cmds, n), j)
  <1>1. Carried(j.cmds) \in 0 .. Len(j.cmds)
    BY DEF Carried
  <1>2. \A k \in 0 .. Carried(j.cmds) : k \in 0 .. Len(j.cmds)
    BY <1>1
  <1> QED
    BY <1>2, Zenon DEF Outcomes

LEMMA PolledCases ==
  ASSUME NEW s, NEW j, NEW o \in Polled(s, j)
  PROVE  LET heard == Understands(s.chip, Cmd("status1")) IN
         \/ heard /\ s.chip.busy /\ o = [chip |-> Ended(s.chip), mem |-> s.mem, ret |-> j.done, ok |-> TRUE]
         \/ ~ (heard /\ s.chip.busy) /\ o = [chip |-> s.chip, mem |-> s.mem, ret |-> j.done, ok |-> TRUE]
         \/ o = [chip |-> s.chip, mem |-> s.mem, ret |-> j.late, ok |-> FALSE]
  BY DEF Polled, Result

LEMMA OutcomeLegal ==
  ASSUME board \in Boards, Now \in Legal, NEW j, Sendable(j), NEW o \in Outcomes(j)
  PROVE  /\ [chip |-> o.chip, mem |-> o.mem] \in Legal
         /\ o.ret \in {j.done, j.late, j.bus} /\ o.ok \in BOOLEAN
         /\ ~ o.ok => o.ret \in {j.late, j.bus}
         /\ o.ok => o.ret = j.done
  <1> DEFINE n == Len(j.cmds)
  <1>1. n \in 0 .. MaxSent /\ n \in Nat
    BY DEF Sendable
  <1>2. \A k \in 0 .. n : /\ Sent(j.cmds, k) \in Legal
                          /\ [chip |-> Sent(j.cmds, k).chip, mem |-> Sent(j.cmds, k).mem]
                               = Sent(j.cmds, k)
    BY SentLegal DEF Legal, State
  <1>3. n \in 0 .. n
    BY <1>1
  <1>4. CASE \E k \in 0 .. n : o = Result(Sent(j.cmds, k), j.bus, FALSE)
    BY <1>2, <1>4 DEF Result
  <1>5. CASE o = Result(Sent(j.cmds, n), j.done, TRUE)
    BY <1>2, <1>3, <1>5 DEF Result
  <1>6. CASE o \in Polled(Sent(j.cmds, n), j)
    <2> DEFINE s == Sent(j.cmds, n)
    <2>1. s \in Legal /\ [chip |-> s.chip, mem |-> s.mem] = s
      BY <1>2, <1>3
    <2>2. [chip |-> Ended(s.chip), mem |-> s.mem] \in Legal
      <3>1. s.chip \in Chip /\ s.mem \in [Addr -> Byte]
        BY <2>1 DEF Legal, State
      <3>2. Ended(s.chip) \in Chip
        BY <3>1, RegisterTypes
      <3>3. Ended(s.chip).four = s.chip.four /\ Ended(s.chip).work = {}
        BY <3>1 DEF Ended, Chip
      <3> QED
        BY <2>1, <3>1, <3>2, <3>3 DEF Legal, State
    <2>3. /\ o.mem = s.mem
          /\ o.chip = s.chip \/ o.chip = Ended(s.chip)
          /\ \/ o.ret = j.done /\ o.ok = TRUE
             \/ o.ret = j.late /\ o.ok = FALSE
      <3>1. o \in Polled(s, j)
        BY <1>6
      <3> HIDE DEF s
      <3>2. \/ o = [chip |-> Ended(s.chip), mem |-> s.mem, ret |-> j.done, ok |-> TRUE]
            \/ o = [chip |-> s.chip, mem |-> s.mem, ret |-> j.done, ok |-> TRUE]
            \/ o = [chip |-> s.chip, mem |-> s.mem, ret |-> j.late, ok |-> FALSE]
        BY <3>1, PolledCases
      <3> QED
        BY <3>2
    <2> QED
      BY <2>1, <2>2, <2>3
  <1> QED
    BY <1>1, <1>4, <1>5, <1>6, OutcomeCases

-------------------------------------------------------------------------------
(* What is known of the driver and the chip between any two steps.         *)
Handles == [inited : BOOLEAN, iface : {"SPI", "QSPI"}, dual : BOOLEAN,
            type : {"small", "large"}, am : {3, 4}, param : {2, 8},
            dummy : {2, 8}]

Known == /\ board \in Boards /\ handle \in Handles /\ Now \in Legal
         /\ trust \in {"in", "asleep", "lost"}
         /\ trust = "asleep" => ~Quad
         /\ InStep

(* Functions that leave the chip as it is spoken to, and ready.            *)
Tame(j) == /\ Sendable(j)
           /\ \A i \in 1 .. Len(j.cmds) :
                /\ j.cmds[i].op \notin Modal \cup {"resume"}
                /\ j.cmds[i].op \in Starting => j.wait

Alike(c, d) == c.qpi = d.qpi /\ c.four = d.four /\ c.down = d.down /\ c.dummy = d.dummy

LEMMA TameKeeps ==
  ASSUME Known, NEW j, Tame(j)
  PROVE  \A k \in 0 .. Len(j.cmds) : Sent(j.cmds, k) \in State /\ Alike(Sent(j.cmds, k).chip, chip)
  <1> DEFINE S == {s \in Legal : Alike(s.chip, chip)}
  <1>1. Now \in S
    BY DEF Known, Now, Alike
  <1>2. ASSUME NEW s \in S, NEW i \in 1 .. Len(j.cmds)
        PROVE  Hears(board.large, board.fab, s, j.cmds[i]) \in S
    <2>1. Hears(board.large, board.fab, s, j.cmds[i]) \in Legal /\ s \in State
      BY HearsLegal DEF Tame, Sendable, Known, Legal
    <2>2. j.cmds[i].op \notin Modal
      BY DEF Tame
    <2> QED
      BY <2>1, <2>2, ModesKept DEF Alike
  <1> HIDE DEF S
  <1>3. \A k \in 0 .. Len(j.cmds) : Sent(j.cmds, k) \in S
    BY <1>1, <1>2, SentKeeps DEF Tame, Sendable, Now
  <1> QED
    BY <1>3 DEF S, Legal

(* A chip that sleeps hears none of it.                                    *)
LEMMA TameAsleep ==
  ASSUME Known, NEW j, Tame(j), chip.down
  PROVE  \A k \in 0 .. Len(j.cmds) : Sent(j.cmds, k).chip = chip
  <1> DEFINE S == {Now}
  <1>1. Now \in S
    OBVIOUS
  <1>2. ASSUME NEW s \in S, NEW i \in 1 .. Len(j.cmds)
        PROVE  Hears(board.large, board.fab, s, j.cmds[i]) \in S
    BY DEF Tame, Modal, Hears, Understands, Now
  <1> HIDE DEF S
  <1>3. \A k \in 0 .. Len(j.cmds) : Sent(j.cmds, k) \in S
    BY <1>1, <1>2, SentKeeps DEF Tame, Sendable, Now
  <1> QED
    BY <1>3 DEF S, Now

LEMMA TameReady ==
  ASSUME Known, NEW j, Tame(j), ~ j.wait, ~ chip.busy
  PROVE  \A k \in 0 .. Len(j.cmds) : ~ Sent(j.cmds, k).chip.busy
  <1> DEFINE S == {s \in Legal : ~ s.chip.busy}
  <1>1. Now \in S
    BY DEF Known, Now
  <1>2. ASSUME NEW s \in S, NEW i \in 1 .. Len(j.cmds)
        PROVE  Hears(board.large, board.fab, s, j.cmds[i]) \in S
    <2>1. Hears(board.large, board.fab, s, j.cmds[i]) \in Legal /\ s \in State
      BY HearsLegal DEF Tame, Sendable, Known, Legal
    <2>2. j.cmds[i].op \notin Starting /\ j.cmds[i].op # "resume"
      BY DEF Tame
    <2> QED
      BY <2>1, <2>2, StaysReady
  <1> HIDE DEF S
  <1>3. \A k \in 0 .. Len(j.cmds) : Sent(j.cmds, k) \in S
    BY <1>1, <1>2, SentKeeps DEF Tame, Sendable, Now
  <1> QED
    BY <1>3 DEF S

LEMMA TameOutcome ==
  ASSUME Known, trust # "lost", NEW j, Tame(j), NEW o \in Outcomes(j), o.ok
  PROVE  Alike(o.chip, chip) /\ ~ o.chip.busy
  <1> DEFINE n == Len(j.cmds)
             s == Sent(j.cmds, n)
  <1>1. n \in Nat /\ n \in 0 .. n
    BY DEF Tame, Sendable
  <1>2. s \in State /\ Alike(s.chip, chip)
    BY <1>1, TameKeeps
  <1>3. ~ chip.busy /\ (chip.down <=> trust = "asleep") /\ (chip.qpi <=> Quad)
    BY DEF Known, InStep
  <1>4. CASE ~ j.wait /\ o = Result(s, j.done, TRUE)
    <2>1. ~ s.chip.busy
      BY <1>1, <1>3, <1>4, TameReady
    <2> QED
      BY <1>2, <1>4, <2>1 DEF Result
  <1>5. CASE j.wait /\ o \in Polled(s, j)
    <2>1. s.chip \in Chip
      BY <1>2 DEF State
    <2>2. s.chip.busy => Understands(s.chip, Cmd("status1"))
      <3>1. CASE chip.down
        BY <1>1, <1>3, <3>1, TameAsleep
      <3>2. CASE ~ chip.down
        BY <1>2, <1>3, <3>2 DEF Understands, Cmd, Alike
      <3> QED
        BY <3>1, <3>2
    <2>3. Alike(Ended(s.chip), s.chip) /\ ~ Ended(s.chip).busy
      BY <2>1 DEF Ended, Alike, Chip
    <2> HIDE DEF s
    <2>4. o.chip = Ended(s.chip) \/ (~ s.chip.busy /\ o.chip = s.chip)
      <3>1. o \in Polled(s, j)
        BY <1>5
      <3>2. \/ o = [chip |-> Ended(s.chip), mem |-> s.mem, ret |-> j.done, ok |-> TRUE]
            \/ ~ s.chip.busy /\ o = [chip |-> s.chip, mem |-> s.mem, ret |-> j.done, ok |-> TRUE]
            \/ o = [chip |-> s.chip, mem |-> s.mem, ret |-> j.late, ok |-> FALSE]
        BY <2>2, <3>1, PolledCases
      <3> QED
        BY <3>2
    <2> QED
      BY <1>2, <2>3, <2>4 DEF Alike
  <1>6. \A k : Result(Sent(j.cmds, k), j.bus, FALSE).ok = FALSE
    BY DEF Result
  <1> QED
    BY <1>1, <1>4, <1>5, <1>6, OutcomeCases

LEMMA OutcomeKnown ==
  ASSUME Known, NEW j, Tame(j), NEW o \in Outcomes(j), chip' = o.chip, mem' = o.mem,
         Keeps(o, trust), UNCHANGED <<board, handle>>
  PROVE  Known'
  <1>1. [chip |-> o.chip, mem |-> o.mem] \in Legal /\ o.ok \in BOOLEAN
    BY OutcomeLegal DEF Known, Tame
  <1>2. Now' \in Legal'
    BY <1>1 DEF Now, Legal
  <1>3. CASE ~ o.ok \/ trust = "lost"
    BY <1>2, <1>3 DEF Known, Keeps, InStep
  <1>4. CASE o.ok /\ trust # "lost"
    <2>1. Alike(o.chip, chip) /\ ~ o.chip.busy
      BY <1>4, TameOutcome
    <2> QED
      BY <1>2, <1>4, <2>1 DEF Known, Keeps, InStep, Alike, Quad, Large, Three
  <1> QED
    BY <1>1, <1>3, <1>4

-------------------------------------------------------------------------------
(* Most functions of the driver are tame.                                  *)
Simple(k) == WellFormed(k) /\ k.op \notin Modal \cup {"resume"}

Special == Modal \cup Programming \cup {"resume", "wsr1", "wsr2", "wsr3"}

LEMMA PlainCommand ==
  ASSUME NEW op, op \notin Special
  PROVE  Simple(Cmd(op)) /\ Cmd(op).op = op
  BY Geometry DEF Simple, Special, Cmd, WellFormed, Modal

LEMMA AddressedCommand ==
  ASSUME NEW op, NEW a \in Addr, NEW d, op \notin Special \/ (op \in Programming /\ d \in Seq(Byte))
  PROVE  Simple(CmdTo(op, a, d)) /\ CmdTo(op, a, d).op = op
  BY DEF Simple, Special, CmdTo, Cmd, WellFormed, Modal, Programming

LEMMA StatusCommand ==
  ASSUME NEW op \in {"wsr1", "wsr2", "wsr3"}, NEW v \in BOOLEAN
  PROVE  Simple(CmdData(op, <<v>>)) /\ CmdData(op, <<v>>).op = op
  BY Geometry DEF Simple, CmdData, Cmd, WellFormed, Modal, Programming

LEMMA BankCommand ==
  ASSUME NEW a \in Addr
  PROVE  Simple(Bank(a)) /\ Bank(a).op = "extaddr"
  BY DEF Simple, Bank, Cmd, WellFormed, Modal, Programming

LEMMA TameNone ==
  ASSUME NEW code
  PROVE  Tame(Refuse(code))
  BY DEF Tame, Sendable, Refuse, Send, MaxSent

LEMMA TameOne ==
  ASSUME NEW j, NEW k, Simple(k), j.cmds = <<k>>, k.op \in Starting => j.wait
  PROVE  Tame(j)
  BY DEF Tame, Sendable, Simple, MaxSent

LEMMA TameTwo ==
  ASSUME NEW j, NEW k, NEW l, Simple(k), Simple(l), j.cmds = <<k, l>>,
         k.op \notin Starting, l.op \in Starting => j.wait
  PROVE  Tame(j)
  BY DEF Tame, Sendable, Simple, MaxSent

LEMMA TameThree ==
  ASSUME NEW j, NEW k, NEW l, NEW p, Simple(k), Simple(l), Simple(p), j.cmds = <<k, l, p>>,
         k.op \notin Starting, l.op \notin Starting, p.op \in Starting => j.wait
  PROVE  Tame(j)
  BY DEF Tame, Sendable, Simple, MaxSent

LEMMA TameFour ==
  ASSUME NEW j, NEW k, NEW l, NEW p, NEW q,
         Simple(k), Simple(l), Simple(p), Simple(q), j.cmds = <<k, l, p, q>>,
         k.op \notin Starting, l.op \notin Starting, p.op \notin Starting, q.op \in Starting => j.wait
  PROVE  Tame(j)
  BY DEF Tame, Sendable, Simple, MaxSent

LEMMA TameChecked ==
  ASSUME NEW j, Tame(j)
  PROVE  Tame(Checked(j))
  BY TameNone DEF Checked

LEMMA JoinedCommands ==
  ASSUME NEW w, NEW b, NEW k
  PROVE  /\ <<w>> \o <<b, w>> \o <<k>> = <<w, b, w, k>>
         /\ <<w>> \o << >> \o <<k>> = <<w, k>>
         /\ <<w>> \o <<k>> = <<w, k>>
  <1> DEFINE S == {w, b, k}
  <1>1. <<w>> \o <<b, w>> = <<w, b, w>>
    <2> DEFINE x == <<w>> \o <<b, w>>
    <2>1. <<w>> \in Seq(S) /\ <<b, w>> \in Seq(S)
      OBVIOUS
    <2>2. x \in Seq(S) /\ Len(x) = 3 /\ x[1] = w /\ x[2] = b /\ x[3] = w
      BY <2>1, ConcatProperties
    <2> HIDE DEF x
    <2>3. x = <<w, b, w>>
      BY <2>2
    <2> QED
      BY <2>3 DEF x
  <1>2. <<w, b, w>> \o <<k>> = <<w, b, w, k>>
    <2> DEFINE x == <<w, b, w>> \o <<k>>
    <2>1. <<w, b, w>> \in Seq(S) /\ <<k>> \in Seq(S)
      OBVIOUS
    <2>2. x \in Seq(S) /\ Len(x) = 4 /\ x[1] = w /\ x[2] = b /\ x[3] = w /\ x[4] = k
      BY <2>1, ConcatProperties
    <2> HIDE DEF x
    <2>3. x = <<w, b, w, k>>
      BY <2>2
    <2> QED
      BY <2>3 DEF x
  <1>3. <<w>> \o << >> = <<w>>
    OBVIOUS
  <1>4. <<w>> \o <<k>> = <<w, k>>
    <2> DEFINE x == <<w>> \o <<k>>
    <2>1. <<w>> \in Seq(S) /\ <<k>> \in Seq(S)
      OBVIOUS
    <2>2. x \in Seq(S) /\ Len(x) = 2 /\ x[1] = w /\ x[2] = k
      BY <2>1, ConcatProperties
    <2> HIDE DEF x
    <2>3. x = <<w, k>>
      BY <2>2
    <2> QED
      BY <2>3 DEF x
  <1> QED
    BY <1>1, <1>2, <1>3, <1>4, Zenon

(* A single command.                                                       *)
LEMMA TameSend ==
  ASSUME NEW op, op \notin Special \cup Starting
  PROVE  Tame(Send(<<Cmd(op)>>))
  <1> DEFINE k == Cmd(op)
             j == Send(<<k>>)
  <1>1. Simple(k) /\ k.op = op /\ j.cmds = <<k>>
    BY PlainCommand DEF Send
  <1> HIDE DEF j, k
  <1>2. Tame(j)
    BY <1>1, TameOne
  <1> QED
    BY <1>2 DEF j, k

LEMMA TameSendTo ==
  ASSUME NEW op, op \notin Special \cup Starting, NEW a \in Addr, NEW d
  PROVE  Tame(Send(<<CmdTo(op, a, d)>>))
  <1> DEFINE k == CmdTo(op, a, d)
             j == Send(<<k>>)
  <1>1. Simple(k) /\ k.op = op /\ j.cmds = <<k>>
    BY AddressedCommand DEF Send
  <1> HIDE DEF j, k
  <1>2. Tame(j)
    BY <1>1, TameOne
  <1> QED
    BY <1>2 DEF j, k

LEMMA TameAfterBank ==
  ASSUME NEW op, op \notin Special \cup Starting, NEW a \in Addr, NEW d
  PROVE  Tame(Send(AfterBank(CmdTo(op, a, d))))
  <1> DEFINE k == CmdTo(op, a, d)
             w == Cmd("wren")
             b == Bank(a)
             j == Send(AfterBank(k))
  <1>1. Simple(k) /\ k.op = op /\ k.a = a
    BY AddressedCommand DEF CmdTo, Cmd
  <1>2. Simple(w) /\ w.op = "wren" /\ Simple(b) /\ b.op = "extaddr"
    BY PlainCommand, BankCommand DEF Special, Modal, Programming
  <1>3. CASE Banked
    <2>1. j.cmds = <<w, b, k>>
      BY <1>1, <1>3 DEF Send, AfterBank
    <2> HIDE DEF j, k, w, b
    <2>2. Tame(j)
      BY <1>1, <1>2, <2>1, TameThree DEF Starting, Erasing, Programming
    <2> QED
      BY <2>2 DEF j, k, w, b
  <1>4. CASE ~ Banked
    BY <1>4, TameSendTo DEF AfterBank
  <1> QED
    BY <1>3, <1>4

LEMMA TameChange ==
  ASSUME NEW op \in Erasing \cup Programming, NEW a \in Addr, NEW d, NEW late, NEW bad,
         op \in Programming => d \in Seq(Byte)
  PROVE  Tame(Change(op, a, d, late, bad))
  <1> DEFINE k == CmdTo(op, a, d)
             w == Cmd("wren")
             b == Bank(a)
             j == Change(op, a, d, late, bad)
  <1>1. Simple(k)
    <2>1. op \notin Special \/ op \in Programming
      BY DEF Erasing, Special, Modal, Programming
    <2> QED
      BY <2>1, AddressedCommand
  <1>2. Simple(w) /\ w.op = "wren" /\ Simple(b) /\ b.op = "extaddr"
    BY PlainCommand, BankCommand DEF Special, Modal, Programming
  <1>3. CASE Addressable /\ Banked
    <2>1. j.cmds = <<w, b, w, k>> /\ j.wait
      <3>1. j = SendWait(<<w>> \o <<b, w>> \o <<k>>, late)
        BY <1>3 DEF Change
      <3> HIDE DEF k, w, b, j
      <3> QED
        BY <3>1, JoinedCommands DEF SendWait, Send
    <2> HIDE DEF j, k, w, b
    <2>2. Tame(j)
      BY <1>1, <1>2, <2>1, TameFour DEF Starting, Erasing, Programming
    <2> QED
      BY <2>2 DEF j
  <1>4. CASE Addressable /\ ~ Banked
    <2>1. j.cmds = <<w, k>> /\ j.wait
      <3>1. j = SendWait(<<w>> \o <<>> \o <<k>>, late)
        BY <1>4 DEF Change
      <3> HIDE DEF k, w, b, j
      <3> QED
        BY <3>1, JoinedCommands DEF SendWait, Send
    <2> HIDE DEF j, k, w, b
    <2>2. Tame(j)
      BY <1>1, <1>2, <2>1, TameTwo DEF Starting, Erasing, Programming
    <2> QED
      BY <2>2 DEF j
  <1>5. CASE ~ Addressable
    <2>1. j.cmds = <<w>>
      BY <1>5 DEF Change, Send
    <2> HIDE DEF j, k, w, b
    <2>2. Tame(j)
      BY <1>1, <1>2, <2>1, TameOne DEF Starting, Erasing, Programming
    <2> QED
      BY <2>2 DEF j
  <1> QED
    BY <1>3, <1>4, <1>5

LEMMA TameBlock ==
  ASSUME NEW op \in {"lock", "unlock", "readlock"}, NEW a \in Addr
  PROVE  Tame(Checked(ByBlock(op, a)))
  <1>1. op \notin Special \cup Starting
    BY DEF Special, Starting, Modal, Erasing, Programming
  <1> QED
    BY <1>1, TameAfterBank, TameNone, TameChecked DEF ByBlock

LEMMA TameRead ==
  ASSUME NEW op \in {"read", "fast", "dualout", "quadout", "dualio", "quadio", "wordio", "octalio"},
         NEW a \in Addr
  PROVE  Tame(ReadBy(op, a))
  <1>1. op \notin Special \cup Starting
    BY DEF Special, Starting, Modal, Erasing, Programming
  <1> QED
    BY <1>1, TameAfterBank, TameNone DEF ReadBy

LEMMA TameReading ==
  ASSUME NEW a \in Addr
  PROVE  /\ Tame(w25qxx_read(a)) /\ Tame(w25qxx_only_spi_read(a))
         /\ Tame(w25qxx_fast_read(a)) /\ Tame(w25qxx_fast_read_dual_output(a))
         /\ Tame(w25qxx_fast_read_quad_output(a)) /\ Tame(w25qxx_fast_read_dual_io(a))
         /\ Tame(w25qxx_fast_read_quad_io(a)) /\ Tame(w25qxx_word_read_quad_io(a))
         /\ Tame(w25qxx_octal_word_read_quad_io(a))
  <1>1. \A op \in {"read", "fast", "dualout", "quadout", "dualio", "quadio", "wordio", "octalio"} :
          /\ Tame(Checked(ReadBy(op, a)))
          /\ Tame(ReadBySPI(op, a)) /\ Tame(ReadByDual(op, a))
    BY TameRead, TameNone, TameChecked DEF ReadBySPI, ReadByDual
  <1>2. Tame(w25qxx_fast_read_quad_io(a))
    BY TameRead, TameNone, TameChecked DEF w25qxx_fast_read_quad_io
  <1> QED
    BY <1>1, <1>2 DEF w25qxx_read, w25qxx_only_spi_read, w25qxx_fast_read,
       w25qxx_fast_read_dual_output, w25qxx_fast_read_quad_output, w25qxx_fast_read_dual_io,
       w25qxx_word_read_quad_io, w25qxx_octal_word_read_quad_io

LEMMA TameAsking ==
  /\ Tame(w25qxx_get_status1) /\ Tame(w25qxx_get_status2) /\ Tame(w25qxx_get_status3)
  /\ Tame(w25qxx_get_manufacturer_device_id)
  /\ Tame(w25qxx_get_manufacturer_device_id_dual_io)
  /\ Tame(w25qxx_get_manufacturer_device_id_quad_io)
  /\ Tame(w25qxx_get_jedec_id) /\ Tame(w25qxx_get_unique_id)
  /\ Tame(w25qxx_get_sfdp) /\ Tame(w25qxx_set_burst_with_wrap)
  /\ Tame(w25qxx_read_security_register)
  /\ \A a \in Addr : Tame(w25qxx_read_block_lock(a))
  <1>1. \A op \in {"status1", "status2", "status3", "id", "jedec", "sfdp", "wrap"} :
          Tame(Send(<<Cmd(op)>>)) /\ Tame(Checked(Send(<<Cmd(op)>>)))
    <2> TAKE op \in {"status1", "status2", "status3", "id", "jedec", "sfdp", "wrap"}
    <2>1. op \notin Special \cup Starting
      BY DEF Special, Starting, Modal, Erasing, Programming
    <2> QED
      BY <2>1, TameSend, TameChecked
  <1>2. \A op \in {"dualid", "quadid", "uid", "readsec"} : Tame(Send(<<CmdTo(op, 0, << >>)>>))
    <2> TAKE op \in {"dualid", "quadid", "uid", "readsec"}
    <2>1. op \notin Special \cup Starting
      BY DEF Special, Starting, Modal, Erasing, Programming
    <2> QED
      BY <2>1, TameSendTo, Geometry
  <1>3. Tame(w25qxx_get_manufacturer_device_id_dual_io) /\ Tame(w25qxx_get_manufacturer_device_id_quad_io)
    BY <1>2, TameNone, TameChecked DEF w25qxx_get_manufacturer_device_id_dual_io,
       w25qxx_get_manufacturer_device_id_quad_io, Identify
  <1>4. Tame(w25qxx_get_unique_id) /\ Tame(w25qxx_read_security_register)
    BY <1>2, TameNone, TameChecked DEF w25qxx_get_unique_id, w25qxx_read_security_register
  <1>5. Tame(w25qxx_get_sfdp) /\ Tame(w25qxx_set_burst_with_wrap)
    BY <1>1, TameNone, TameChecked DEF w25qxx_get_sfdp, w25qxx_set_burst_with_wrap
  <1> QED
    BY <1>1, <1>3, <1>4, <1>5, TameBlock DEF w25qxx_get_status1, w25qxx_get_status2,
       w25qxx_get_status3, w25qxx_get_manufacturer_device_id, w25qxx_get_jedec_id, w25qxx_read_block_lock

LEMMA TameProtecting ==
  /\ Tame(w25qxx_enable_write) /\ Tame(w25qxx_disable_write)
  /\ Tame(w25qxx_enable_volatile_sr_write) /\ Tame(w25qxx_enable_reset)
  /\ Tame(w25qxx_erase_program_suspend)
  /\ Tame(w25qxx_global_block_lock) /\ Tame(w25qxx_global_block_unlock)
  /\ \A v \in BOOLEAN : /\ Tame(w25qxx_set_status1(v)) /\ Tame(w25qxx_set_status2(v))
                        /\ Tame(w25qxx_set_status3(v))
  /\ \A a \in Addr : /\ Tame(w25qxx_individual_block_lock(a))
                      /\ Tame(w25qxx_individual_block_unlock(a))
  <1>1. \A op \in {"wren", "wrdis", "volsr", "rsten", "suspend", "glock", "gunlock"} :
          Tame(Checked(Send(<<Cmd(op)>>)))
    <2> TAKE op \in {"wren", "wrdis", "volsr", "rsten", "suspend", "glock", "gunlock"}
    <2>1. op \notin Special \cup Starting
      BY DEF Special, Starting, Modal, Erasing, Programming
    <2> QED
      BY <2>1, TameSend, TameChecked
  <1>2. \A op \in {"wsr1", "wsr2", "wsr3"}, v \in BOOLEAN : Tame(SetStatus(op, v))
    <2> SUFFICES ASSUME NEW op \in {"wsr1", "wsr2", "wsr3"}, NEW v \in BOOLEAN
                 PROVE  Tame(SetStatus(op, v))
      OBVIOUS
    <2> DEFINE w == Cmd("volsr")
               k == CmdData(op, <<v>>)
               j == SendWait(<<w, k>>, 4)
    <2>1. Simple(w) /\ w.op = "volsr" /\ Simple(k)
      BY PlainCommand, StatusCommand DEF Special, Modal, Programming
    <2>2. j.cmds = <<w, k>> /\ j.wait
      BY DEF SendWait, Send
    <2>3. Tame(j)
      <3> HIDE DEF j, w, k
      <3> QED
        BY <2>1, <2>2, TameTwo DEF Starting, Erasing, Programming
    <2> QED
      BY <2>3, TameChecked DEF SetStatus
  <1> QED
    BY <1>1, <1>2, TameBlock DEF w25qxx_enable_write, w25qxx_disable_write,
       w25qxx_enable_volatile_sr_write, w25qxx_enable_reset, w25qxx_erase_program_suspend,
       w25qxx_global_block_lock, w25qxx_global_block_unlock, w25qxx_set_status1, w25qxx_set_status2,
       w25qxx_set_status3, w25qxx_individual_block_lock, w25qxx_individual_block_unlock

LEMMA TameChanging ==
  /\ Tame(w25qxx_chip_erase)
  /\ \A a \in Addr : /\ Tame(w25qxx_sector_erase_4k(a)) /\ Tame(w25qxx_block_erase_32k(a))
                      /\ Tame(w25qxx_block_erase_64k(a)) /\ Tame(a_w25qxx_erase_sector(a))
                      /\ Tame(a_w25qxx_read(a))
  /\ \A a \in Addr, d \in Seq(Byte) :
        /\ Tame(w25qxx_page_program(a, d)) /\ Tame(w25qxx_page_program_quad_input(a, d))
        /\ Tame(a_w25qxx_page_program(a, d))
  /\ Tame(w25qxx_erase_security_register) /\ Tame(w25qxx_program_security_register)
  <1> DEFINE w == Cmd("wren")
  <1>1. Simple(w) /\ w.op = "wren" /\ w.op \notin Starting
    BY PlainCommand DEF Special, Starting, Modal, Erasing, Programming
  <1>2. Tame(w25qxx_chip_erase)
    <2> DEFINE k == Cmd("erasechip")
               j == SendWait(<<w, k>>, 4)
    <2>1. Simple(k)
      BY PlainCommand DEF Special, Starting, Modal, Erasing, Programming
    <2>2. j.cmds = <<w, k>> /\ j.wait
      BY DEF SendWait, Send
    <2>3. Tame(j)
      <3> HIDE DEF j, w, k
      <3> QED
        BY <1>1, <2>1, <2>2, TameTwo
    <2> QED
      BY <2>3, TameChecked DEF w25qxx_chip_erase
  <1>3. \A op \in Erasing, a \in Addr, late \in {1, 6}, bad \in {1, 5} : Tame(Change(op, a, << >>, late, bad))
    BY TameChange DEF Erasing, Programming
  <1>4. \A op \in Programming, a \in Addr, d \in Seq(Byte), late \in {1, 6}, bad \in {1, 5} : Tame(Change(op, a, d, late, bad))
    BY TameChange
  <1>5. \A op \in Erasing, size \in {SECTOR, BLOCK32, BLOCK64}, a \in Addr : Tame(EraseAligned(op, size, a))
    BY <1>3, TameNone, TameChecked DEF EraseAligned
  <1>6. \A op \in {"erasesec", "progsec"}, d \in {<< >>, <<{}>>} : Tame(ChangeRegister(op, d))
    <2> SUFFICES ASSUME NEW op \in {"erasesec", "progsec"}, NEW d \in {<< >>, <<{}>>}
                 PROVE  Tame(ChangeRegister(op, d))
      OBVIOUS
    <2> DEFINE k == CmdTo(op, 0, d)
               j == SendWait(<<w, k>>, 6)
               i == [Send(<<w>>) EXCEPT !.done = 4]
    <2>1. Simple(k)
      <3>1. op \notin Special
        BY DEF Special, Starting, Modal, Erasing, Programming
      <3> QED
        BY <3>1, AddressedCommand, Geometry
    <2>2. j.cmds = <<w, k>> /\ j.wait /\ i.cmds = <<w>>
      BY DEF SendWait, Send
    <2>3. Tame(j) /\ Tame(i)
      <3> HIDE DEF i, j, w, k
      <3> QED
        BY <1>1, <2>1, <2>2, TameOne, TameTwo
    <2> QED
      BY <2>3, TameNone, TameChecked DEF ChangeRegister
  <1>7. {"erase4k", "erase32k", "erase64k"} \subseteq Erasing /\ {"program", "qprogram"} \subseteq Programming
    BY DEF Erasing, Programming
  <1>8. \A a \in Addr, d \in Seq(Byte) :
          /\ Tame(w25qxx_page_program(a, d)) /\ Tame(w25qxx_page_program_quad_input(a, d))
          /\ Tame(a_w25qxx_page_program(a, d))
    BY <1>4, <1>7, TameNone, TameChecked DEF w25qxx_page_program, w25qxx_page_program_quad_input,
       a_w25qxx_page_program
  <1>9. \A a \in Addr : /\ Tame(w25qxx_sector_erase_4k(a)) /\ Tame(w25qxx_block_erase_32k(a))
                        /\ Tame(w25qxx_block_erase_64k(a)) /\ Tame(a_w25qxx_erase_sector(a))
    BY <1>3, <1>5, <1>7 DEF w25qxx_sector_erase_4k, w25qxx_block_erase_32k, w25qxx_block_erase_64k,
       a_w25qxx_erase_sector
  <1>10. \A a \in Addr : Tame(a_w25qxx_read(a))
    BY TameRead, TameNone DEF a_w25qxx_read
  <1>11. Tame(w25qxx_erase_security_register) /\ Tame(w25qxx_program_security_register)
    BY <1>6 DEF w25qxx_erase_security_register, w25qxx_program_security_register
  <1> QED
    BY <1>2, <1>8, <1>9, <1>10, <1>11

-------------------------------------------------------------------------------
(* The functions that change how the chip is spoken to.                    *)
LEMMA ModeEffects ==
  ASSUME NEW large, NEW fab, NEW s \in State, NEW k, NEW c, c = s.chip, Understands(c, k),
         NEW t, t = Hears(large, fab, s, k).chip
  PROVE  /\ k.op = "addr3" =>
              /\ ~ t.four /\ (t.qpi <=> c.qpi) /\ (t.down <=> c.down)
              /\ t.dummy = c.dummy /\ (t.busy <=> c.busy)
         /\ k.op = "addr4" /\ large =>
              /\ t.four /\ (t.qpi <=> c.qpi) /\ (t.down <=> c.down)
              /\ t.dummy = c.dummy /\ (t.busy <=> c.busy)
         /\ k.op = "down" =>
              /\ t.down /\ (t.qpi <=> c.qpi) /\ (t.four <=> c.four)
              /\ t.dummy = c.dummy /\ (t.busy <=> c.busy)
         /\ k.op = "release" =>
              /\ ~ t.down /\ (t.qpi <=> c.qpi) /\ (t.four <=> c.four)
              /\ t.dummy = c.dummy /\ (t.busy <=> c.busy)
         /\ k.op = "params" /\ c.qpi =>
              /\ t.dummy = k.d[1] /\ (t.qpi <=> c.qpi) /\ (t.four <=> c.four)
              /\ (t.down <=> c.down) /\ (t.busy <=> c.busy)
         /\ k.op = "qpi" /\ c.qe =>
              /\ t.qpi /\ (t.four <=> c.four) /\ (t.down <=> c.down)
              /\ t.dummy = c.dummy /\ (t.busy <=> c.busy)
  <1>1. PICK b : b = [c EXCEPT !.armed = FALSE]
    OBVIOUS
  <1>2. c \in Chip
    BY DEF State
  <1>3. b \in Chip /\ b.qpi = c.qpi /\ b.four = c.four /\ b.down = c.down
        /\ b.dummy = c.dummy /\ b.busy = c.busy /\ b.qe = c.qe
    BY <1>1, <1>2 DEF Chip
  <1>4. t = Obeyed(large, fab, s, k).chip
    BY DEF Hears
  <1>5. k.op = "addr3" => t = [b EXCEPT !.four = FALSE]
    BY <1>1, <1>4, Zenon DEF Obeyed, Erasing, Programming
  <1>6. k.op = "addr4" /\ large => t = [b EXCEPT !.four = TRUE]
    BY <1>1, <1>4, Zenon DEF Obeyed, Erasing, Programming
  <1>7. k.op = "down" => t = [b EXCEPT !.down = TRUE]
    BY <1>1, <1>4, Zenon DEF Obeyed, Erasing, Programming
  <1>8. k.op = "release" => t = [b EXCEPT !.down = FALSE]
    BY <1>1, <1>4, Zenon DEF Obeyed, Erasing, Programming
  <1>9. k.op = "params" /\ b.qpi => t = [b EXCEPT !.dummy = k.d[1]]
    BY <1>1, <1>4, Zenon DEF Obeyed, Erasing, Programming
  <1>15. k.op = "qpi" /\ b.qe => t = [b EXCEPT !.qpi = TRUE]
    BY <1>1, <1>4, Zenon DEF Obeyed, Erasing, Programming
  <1>10. k.op = "addr3" =>
           /\ ~ t.four /\ (t.qpi <=> c.qpi) /\ (t.down <=> c.down)
           /\ t.dummy = c.dummy /\ (t.busy <=> c.busy)
    BY <1>3, <1>5 DEF Chip
  <1>11. k.op = "addr4" /\ large =>
           /\ t.four /\ (t.qpi <=> c.qpi) /\ (t.down <=> c.down)
           /\ t.dummy = c.dummy /\ (t.busy <=> c.busy)
    BY <1>3, <1>6 DEF Chip
  <1>12. k.op = "down" =>
           /\ t.down /\ (t.qpi <=> c.qpi) /\ (t.four <=> c.four)
           /\ t.dummy = c.dummy /\ (t.busy <=> c.busy)
    BY <1>3, <1>7 DEF Chip
  <1>13. k.op = "release" =>
           /\ ~ t.down /\ (t.qpi <=> c.qpi) /\ (t.four <=> c.four)
           /\ t.dummy = c.dummy /\ (t.busy <=> c.busy)
    BY <1>3, <1>8 DEF Chip
  <1>14. k.op = "params" /\ c.qpi =>
           /\ t.dummy = k.d[1] /\ (t.qpi <=> c.qpi) /\ (t.four <=> c.four)
           /\ (t.down <=> c.down) /\ (t.busy <=> c.busy)
    BY <1>3, <1>9 DEF Chip
  <1>16. k.op = "qpi" /\ c.qe =>
           /\ t.qpi /\ (t.four <=> c.four) /\ (t.down <=> c.down)
           /\ t.dummy = c.dummy /\ (t.busy <=> c.busy)
    BY <1>3, <1>15 DEF Chip
  <1> QED
    BY <1>10, <1>11, <1>12, <1>13, <1>14, <1>16

LEMMA LostKnown ==
  ASSUME Known, NEW j, Sendable(j), NEW o \in Outcomes(j), chip' = o.chip, mem' = o.mem,
         board' = board, handle' \in Handles, trust' = "lost"
  PROVE  Known'
  <1>1. [chip |-> o.chip, mem |-> o.mem] \in Legal
    BY OutcomeLegal DEF Known
  <1>2. Now' \in Legal'
    BY <1>1 DEF Now, Legal
  <1> QED
    BY <1>2 DEF Known, InStep

LEMMA OneOutcome ==
  ASSUME NEW j, NEW k, j.cmds = <<k>>, j.wait = FALSE, NEW o \in Outcomes(j), o.ok
  PROVE  o.chip = Hears(board.large, board.fab, Now, k).chip
  <1>1. Len(j.cmds) = 1 /\ j.cmds[1] = k
    OBVIOUS
  <1>2. Sent(j.cmds, 1) = Hears(board.large, board.fab, Now, k)
    BY <1>1, SentSteps DEF MaxSent, Now
  <1>3. \A i : Result(Sent(j.cmds, i), j.bus, FALSE).ok = FALSE
    BY DEF Result
  <1>4. o = Result(Sent(j.cmds, 1), j.done, TRUE)
    <2>1. Len(j.cmds) \in Nat
      BY <1>1
    <2>2. \/ \E i : o = Result(Sent(j.cmds, i), j.bus, FALSE)
          \/ o = Result(Sent(j.cmds, Len(j.cmds)), j.done, TRUE)
      BY <2>1, OutcomeCases, Zenon
    <2> QED
      BY <1>1, <1>3, <2>2
  <1> QED
    BY <1>2, <1>4 DEF Result

LEMMA SendableOne ==
  ASSUME NEW j, NEW k, WellFormed(k), j.cmds = <<k>>
  PROVE  Sendable(j)
  BY DEF Sendable, MaxSent

LEMMA CallKnown ==
  ASSUME Known, NEW j, Tame(j), Call(j)
  PROVE  Known'
  <1> PICK o \in Outcomes(j) : chip' = o.chip /\ mem' = o.mem /\ Keeps(o, trust)
    BY DEF Call, CallWith
  <1> QED
    BY OutcomeKnown DEF Call, CallWith

LEMMA RefusedKnown ==
  ASSUME Known, NEW code, NEW h, NEW t, CallWith(Refuse(code), h, t)
  PROVE  Known'
  <1>1. Refuse(code).cmds = << >>
    BY DEF Refuse, Send
  <1>2. PICK o \in Outcomes(Refuse(code)) :
          chip' = o.chip /\ mem' = o.mem /\ Keeps(o, trust) /\ UNCHANGED <<board, handle>>
    BY <1>1 DEF CallWith
  <1> QED
    BY <1>2, TameNone, OutcomeKnown

LEMMA ReadKnown ==
  ASSUME Known, NEW j, Tame(j), NEW n, Read(j, n)
  PROVE  Known'
  <1> PICK o \in Outcomes(j) : chip' = o.chip /\ mem' = o.mem /\ Keeps(o, trust)
    BY DEF Read
  <1> QED
    BY OutcomeKnown DEF Read

LEMMA KeptKnown ==
  ASSUME Known, board' = board, handle' = handle, Now' \in Legal',
         trust' \in {trust, "lost"}, Alike(chip', chip), trust # "lost" => ~ chip'.busy
  PROVE  Known'
  BY DEF Known, InStep, Alike, Quad, Large, Three

LEMMA LegalNext ==
  ASSUME Known, NEW j, Sendable(j), NEW o \in Outcomes(j), chip' = o.chip, mem' = o.mem,
         board' = board
  PROVE  Now' \in Legal'
  <1>1. [chip |-> o.chip, mem |-> o.mem] \in Legal
    BY OutcomeLegal DEF Known
  <1> QED
    BY <1>1 DEF Now, Legal

LEMMA UnderstoodInStep ==
  ASSUME Known, NEW k, k.lines = (IF Quad THEN 4 ELSE 1), k.addressed = FALSE,
         \/ trust = "in"
         \/ trust = "asleep" /\ k.op = "release"
  PROVE  Understands(chip, k)
  BY DEF Known, InStep, Understands

(* What comes of a single command that changes how the chip is spoken to.  *)
LEMMA ModeCall ==
  ASSUME Known, NEW j, NEW k, j.cmds = <<k>>, j.wait = FALSE, k.addressed = FALSE,
         k.lines = (IF Quad THEN 4 ELSE 1),
         trust = "in" \/ (trust = "asleep" /\ k.op = "release"),
         NEW o \in Outcomes(j), o.ok, NEW t, t = o.chip
  PROVE  /\ k.op = "addr3" =>
              /\ ~ t.four /\ (t.qpi <=> chip.qpi) /\ (t.down <=> chip.down)
              /\ t.dummy = chip.dummy /\ (t.busy <=> chip.busy)
         /\ k.op = "addr4" /\ board.large =>
              /\ t.four /\ (t.qpi <=> chip.qpi) /\ (t.down <=> chip.down)
              /\ t.dummy = chip.dummy /\ (t.busy <=> chip.busy)
         /\ k.op = "down" =>
              /\ t.down /\ (t.qpi <=> chip.qpi) /\ (t.four <=> chip.four)
              /\ t.dummy = chip.dummy /\ (t.busy <=> chip.busy)
         /\ k.op = "release" =>
              /\ ~ t.down /\ (t.qpi <=> chip.qpi) /\ (t.four <=> chip.four)
              /\ t.dummy = chip.dummy /\ (t.busy <=> chip.busy)
         /\ k.op = "params" /\ k.lines = 4 =>
              /\ t.dummy = k.d[1] /\ (t.qpi <=> chip.qpi) /\ (t.four <=> chip.four)
              /\ (t.down <=> chip.down) /\ (t.busy <=> chip.busy)
  <1>1. PICK s : s = Now
    OBVIOUS
  <1>2. s \in State /\ s.chip = chip
    BY <1>1 DEF Known, Legal, Now
  <1>3. Understands(chip, k)
    BY UnderstoodInStep
  <1>4. t = Hears(board.large, board.fab, s, k).chip
    BY <1>1, OneOutcome
  <1>5. k.lines = 4 => chip.qpi
    BY <1>3 DEF Understands
  <1>6. k.op = "params" /\ k.lines = 4 =>
          /\ t.dummy = k.d[1] /\ (t.qpi <=> chip.qpi) /\ (t.four <=> chip.four)
          /\ (t.down <=> chip.down) /\ (t.busy <=> chip.busy)
    BY <1>2, <1>3, <1>4, <1>5, ModeEffects
  <1> QED
    BY <1>2, <1>3, <1>4, <1>6, ModeEffects

LEMMA AddressModeKnown ==
  ASSUME Known, NEW mode \in {3, 4}, SetAddressMode(mode)
  PROVE  Known'
  <1> DEFINE k == Cmd(IF mode = 3 THEN "addr3" ELSE "addr4")
             j == Send(<<k>>)
             h == [handle EXCEPT !.am = mode]
             t == IF trust = "in" THEN "in" ELSE "lost"
  <1>1. CASE ~ handle.inited \/ ~ Large
    <2>1. PICK code \in {3, 4} : CallWith(Refuse(code), h, t)
      BY <1>1 DEF SetAddressMode, w25qxx_set_address_mode, Checked
    <2> QED
      BY <2>1, RefusedKnown
  <1>2. CASE handle.inited /\ Large
    <2>1. CallWith(j, h, t)
      BY <1>2 DEF SetAddressMode, w25qxx_set_address_mode, Checked
    <2>2. j.cmds = <<k>> /\ j.wait = FALSE /\ WellFormed(k) /\ k.lines = (IF Quad THEN 4 ELSE 1)
          /\ k.addressed = FALSE /\ k.op = (IF mode = 3 THEN "addr3" ELSE "addr4")
      BY Geometry DEF Send, Cmd, WellFormed, Programming
    <2>3. h \in Handles
      BY DEF Known, Handles
    <2> HIDE DEF j, k, h
    <2>4. PICK o \in Outcomes(j) : chip' = o.chip /\ mem' = o.mem /\ board' = board
            /\ handle' = (IF o.ok THEN h ELSE handle) /\ trust' = (IF o.ok THEN t ELSE "lost")
      BY <2>1, <2>2 DEF CallWith, Keeps
    <2>5. Sendable(j) /\ Now' \in Legal'
      BY <2>2, <2>4, SendableOne, LegalNext
    <2>6. CASE trust' = "lost"
      BY <2>3, <2>4, <2>5, <2>6, LostKnown DEF Known
    <2>7. CASE trust' # "lost"
      <3>1. o.ok /\ trust = "in" /\ trust' = "in" /\ handle' = h
        BY <2>4, <2>7
      <3>4. handle.inited /\ board.large /\ Large
        BY <1>2, <3>1 DEF Known, InStep
      <3>5. /\ chip'.four <=> mode # 3
            /\ (chip'.qpi <=> chip.qpi) /\ (chip'.down <=> chip.down)
            /\ chip'.dummy = chip.dummy /\ (chip'.busy <=> chip.busy)
        <4>1. CASE mode = 3
          <5>1. k.op = "addr3"
            BY <2>2, <4>1
          <5> QED
            BY <2>2, <2>4, <3>1, <4>1, <5>1, ModeCall
        <4>2. CASE mode = 4
          <5>1. k.op = "addr4"
            BY <2>2, <4>2
          <5> QED
            BY <2>2, <2>4, <3>1, <3>4, <4>2, <5>1, ModeCall
        <4> QED
          BY <4>1, <4>2
      <3>6. /\ handle'.inited = handle.inited /\ handle'.am = mode /\ handle'.iface = handle.iface
            /\ handle'.type = handle.type /\ handle'.dummy = handle.dummy
        BY <3>1 DEF h, Known, Handles
      <3>7. handle' \in Handles
        BY <2>3, <3>1
      <3> QED
        BY <2>4, <2>5, <3>1, <3>5, <3>6, <3>7 DEF Known, InStep, Quad, Large, Three
    <2> QED
      BY <2>6, <2>7
  <1> QED
    BY <1>1, <1>2

LEMMA ReadParametersKnown ==
  ASSUME Known, NEW d \in {2, 8}, SetReadParameters(d)
  PROVE  Known'
  <1> DEFINE k == CmdData("params", <<d>>)
             j == [Send(<<k>>) EXCEPT !.bus = 5]
  <1>1. CASE ~ handle.inited \/ ~ Quad
    <2>1. PICK code \in {3, 4} : w25qxx_set_read_parameters(d) = Refuse(code)
      BY <1>1 DEF w25qxx_set_read_parameters, Checked
    <2>2. PICK o \in Outcomes(Refuse(code)) :
            chip' = o.chip /\ mem' = o.mem /\ Keeps(o, trust) /\ UNCHANGED <<board, handle>>
      BY <1>1, <2>1 DEF SetReadParameters
    <2> QED
      BY <2>2, TameNone, OutcomeKnown
  <1>2. CASE handle.inited /\ Quad
    <2>1. w25qxx_set_read_parameters(d) = j
      BY <1>2 DEF w25qxx_set_read_parameters, Checked
    <2>2. j.cmds = <<k>> /\ j.wait = FALSE /\ WellFormed(k) /\ k.lines = (IF Quad THEN 4 ELSE 1)
          /\ k.addressed = FALSE /\ k.op = "params" /\ k.d[1] = d
      BY Geometry DEF Send, CmdData, Cmd, WellFormed, Programming
    <2> HIDE DEF j, k
    <2>3. PICK o \in Outcomes(j) : chip' = o.chip /\ mem' = o.mem /\ board' = board
            /\ handle' = [handle EXCEPT !.param = d, !.dummy = IF o.ok THEN d ELSE @]
            /\ trust' = (IF o.ok THEN trust ELSE "lost")
      BY <1>2, <2>1 DEF SetReadParameters, Keeps
    <2>4. /\ handle' \in Handles /\ handle'.inited = handle.inited /\ handle'.am = handle.am
          /\ handle'.iface = handle.iface /\ handle'.type = handle.type
          /\ o.ok => handle'.dummy = d
      BY <2>3 DEF Known, Handles
    <2>5. Sendable(j) /\ Now' \in Legal'
      BY <2>2, <2>3, SendableOne, LegalNext
    <2>6. CASE trust' = "lost"
      BY <2>3, <2>4, <2>5, <2>6, LostKnown
    <2>7. CASE trust' # "lost"
      <3>1. o.ok /\ trust = "in" /\ trust' = "in"
        BY <1>2, <2>3, <2>7 DEF Known
      <3>5. /\ (chip'.four <=> chip.four) /\ (chip'.qpi <=> chip.qpi) /\ (chip'.down <=> chip.down)
            /\ chip'.dummy = d /\ (chip'.busy <=> chip.busy)
        <4>1. chip' = o.chip /\ (trust = "in" \/ (trust = "asleep" /\ k.op = "release"))
          BY <2>3, <3>1
        <4>2. k.lines = 4
          BY <1>2, <2>2
        <4>4. /\ chip'.dummy = k.d[1] /\ (chip'.qpi <=> chip.qpi) /\ (chip'.four <=> chip.four)
              /\ (chip'.down <=> chip.down) /\ (chip'.busy <=> chip.busy)
          BY <2>2, <3>1, <4>1, <4>2, ModeCall
        <4> QED
          BY <2>2, <4>1, <4>4
      <3> QED
        BY <2>3, <2>4, <2>5, <3>1, <3>5 DEF Known, InStep, Quad, Large, Three
    <2> QED
      BY <2>6, <2>7
  <1> QED
    BY <1>1, <1>2

LEMMA EmptyTame ==
  ASSUME NEW j, j.cmds = << >>
  PROVE  Tame(j)
  BY DEF Tame, Sendable, MaxSent

(* Calls after which the handle is not trusted.                            *)
LEMMA LostCall ==
  ASSUME Known, NEW j, Sendable(j), NEW h \in Handles, CallWith(j, h, "lost")
  PROVE  Known'
  <1>1. PICK o \in Outcomes(j) :
          /\ chip' = o.chip /\ mem' = o.mem /\ board' = board
          /\ handle' = IF o.ok /\ j.cmds # <<>> THEN h ELSE handle
          /\ Keeps(o, IF j.cmds # <<>> THEN "lost" ELSE trust)
    BY DEF CallWith
  <1>2. CASE j.cmds = << >>
    BY <1>1, <1>2, EmptyTame, OutcomeKnown
  <1>3. CASE j.cmds # << >>
    <2>1. trust' = "lost" /\ handle' \in Handles
      BY <1>1, <1>3 DEF Keeps, Known
    <2> QED
      BY <1>1, <2>1, LostKnown
  <1> QED
    BY <1>2, <1>3

LEMMA SendableTwo ==
  ASSUME NEW j, NEW k, NEW l, WellFormed(k), WellFormed(l), j.cmds = <<k, l>>
  PROVE  Sendable(j)
  BY DEF Sendable, MaxSent

LEMMA SendableChecked ==
  ASSUME NEW j, Sendable(j)
  PROVE  Sendable(Checked(j))
  BY TameNone DEF Checked, Tame

LEMMA FormedCommand ==
  ASSUME NEW op, op \notin Programming \cup {"wsr1", "wsr2", "wsr3", "params"}, NEW lines
  PROVE  WellFormed(Cmd(op)) /\ WellFormed(On(lines, Cmd(op)))
  BY Geometry DEF Cmd, On, WellFormed

LEMMA QuadOrNot ==
  ASSUME handle \in Handles
  PROVE  Quad \in BOOLEAN /\ Large \in BOOLEAN /\ Three \in BOOLEAN
  BY DEF Quad, Large, Three

LEMMA LostCallsKnown ==
  ASSUME Known, EnterQspi \/ ExitQspi \/ w25qxx_deinit \/ (\E op \in {"down", "wren"} : WriteReadReg(op))
  PROVE  Known'
  <1>1. CASE EnterQspi
    <2> DEFINE k == On(1, Cmd("qpi"))
               l == On(4, CmdData("params", <<handle.param>>))
               j == Send(<<k, l>>)
    <2>1. WellFormed(k)
      BY FormedCommand DEF Programming
    <2>2. handle.param \in {2, 8} /\ [handle EXCEPT !.dummy = handle.param] \in Handles
      BY DEF Known, Handles
    <2>3. WellFormed(l)
      BY <2>2, Geometry DEF On, CmdData, Cmd, WellFormed, Programming
    <2>4. Sendable(j)
      <3>1. j.cmds = <<k, l>>
        BY DEF Send
      <3> HIDE DEF j, k, l
      <3> QED
        BY <2>1, <2>3, <3>1, SendableTwo
    <2>5. Sendable(w25qxx_enter_qspi_mode)
      BY <2>4, SendableChecked, TameNone DEF w25qxx_enter_qspi_mode, Tame
    <2> QED
      BY <1>1, <2>2, <2>5, LostCall DEF EnterQspi
  <1>2. CASE ExitQspi
    <2>1. Sendable(Send(<<Cmd("spi")>>))
      BY FormedCommand DEF Sendable, Send, MaxSent, Programming
    <2>2. Sendable(w25qxx_exit_qspi_mode)
      BY <2>1, SendableChecked, TameNone DEF w25qxx_exit_qspi_mode, Tame
    <2> QED
      BY <1>2, <2>2, LostCall DEF ExitQspi, Known
  <1>3. CASE w25qxx_deinit
    <2> DEFINE k == Cmd("spi")
               l == On(1, Cmd("down"))
               m == Cmd("down")
    <2>1. WellFormed(k) /\ WellFormed(l) /\ WellFormed(m)
      BY FormedCommand DEF Programming
    <2>2. Send(<<k, l>>).cmds = <<k, l>> /\ Send(<<m>>).cmds = <<m>>
      BY DEF Send
    <2>3. Sendable(Send(<<k, l>>)) /\ Sendable(Send(<<m>>))
      <3> HIDE DEF k, l, m
      <3> QED
        BY <2>1, <2>2, SendableOne, SendableTwo
    <2>4. Sendable(Checked(Send(DeinitCommands)))
      BY <2>3, SendableChecked DEF DeinitCommands
    <2> QED
      BY <1>3, <2>4, LostCall DEF w25qxx_deinit, Known
  <1>4. ASSUME NEW op \in {"down", "wren"}, WriteReadReg(op)
        PROVE  Known'
    <2> DEFINE k == On(IF Quad THEN 4 ELSE 1, Cmd(op))
    <2>1. WellFormed(k)
      BY FormedCommand DEF Programming
    <2>2. Send(<<k>>).cmds = <<k>>
      BY DEF Send
    <2>3. Sendable(Send(<<k>>))
      <3> HIDE DEF k
      <3> QED
        BY <2>1, <2>2, SendableOne
    <2>4. Sendable(w25qxx_write_read_reg(op))
      BY <2>3, SendableChecked DEF w25qxx_write_read_reg
    <2> QED
      BY <1>4, <2>4, LostCall DEF WriteReadReg, Known
  <1> QED
    BY <1>1, <1>2, <1>3, <1>4

LEMMA AllSend ==
  ASSUME NEW k, NEW l
  PROVE  /\ Send(<<k>>).cmds = <<k>> /\ Send(<<k>>).wait = FALSE
         /\ Send(<<k, l>>).cmds = <<k, l>> /\ Send(<<k, l>>).wait = FALSE
  BY DEF Send

LEMMA AllCommand ==
  ASSUME NEW op
  PROVE  /\ Cmd(op).op = op /\ Cmd(op).lines = (IF Quad THEN 4 ELSE 1)
         /\ Cmd(op).addressed = FALSE
  BY DEF Cmd

(* A chip that sleeps hears only that it is to wake up.                    *)
LEMMA Asleep ==
  ASSUME chip.down, NEW cmds, NEW n \in 0 .. MaxSent, \A i \in 1 .. n : cmds[i].op # "release"
  PROVE  \A k \in 0 .. n : Sent(cmds, k) = Now
  <1> DEFINE S == {Now}
  <1>1. Now \in S
    OBVIOUS
  <1>2. ASSUME NEW s \in S, NEW i \in 1 .. n
        PROVE  Hears(board.large, board.fab, s, cmds[i]) \in S
    BY DEF Hears, Understands, Now
  <1> HIDE DEF S
  <1>3. \A k \in 0 .. n : Sent(cmds, k) \in S
    BY <1>1, <1>2, SentKeeps DEF Now
  <1> QED
    BY <1>3 DEF S

(* When nothing is waited for, a call that went well sent everything.      *)
LEMMA AllSent ==
  ASSUME NEW j, j.wait = FALSE, Len(j.cmds) \in Nat, NEW o \in Outcomes(j), o.ok
  PROVE  o.chip = Sent(j.cmds, Len(j.cmds)).chip
  <1>1. \A i : Result(Sent(j.cmds, i), j.bus, FALSE).ok = FALSE
    BY DEF Result
  <1>2. \/ \E i : o = Result(Sent(j.cmds, i), j.bus, FALSE)
        \/ o = Result(Sent(j.cmds, Len(j.cmds)), j.done, TRUE)
    BY OutcomeCases, Zenon
  <1> QED
    BY <1>1, <1>2 DEF Result

(* A call of an initialised driver, which keeps the trust t.               *)
LEMMA Goes1 ==
  ASSUME Known, NEW j, j.cmds # << >>, Sendable(j), CallWith(Checked(j), handle, "lost")
  PROVE  Known'
  BY SendableChecked, LostCall DEF Known

LEMMA Trusted ==
  ASSUME Known, NEW j, Sendable(j), j.cmds # << >>, NEW t \in {"in", "asleep", "lost"},
         CallWith(Checked(j), handle, t),
         ASSUME NEW o \in Outcomes(j), o.ok, t # "lost", chip' = o.chip, trust' = t,
                board' = board, handle' = handle, handle.inited
         PROVE  /\ t = "asleep" => ~ Quad
                /\ InStep'
  PROVE  Known'
  <1>1. CASE ~ handle.inited
    <2>1. CallWith(Refuse(3), handle, t)
      BY <1>1 DEF Checked
    <2> QED
      BY <2>1, RefusedKnown
  <1>2. CASE handle.inited
    <2>1. PICK o \in Outcomes(j) :
            /\ chip' = o.chip /\ mem' = o.mem /\ board' = board /\ handle' = handle
            /\ Keeps(o, t)
      BY <1>2 DEF CallWith, Checked
    <2>2. Now' \in Legal' /\ handle' \in Handles
      BY <2>1, LegalNext DEF Known
    <2>3. CASE trust' = "lost"
      BY <2>1, <2>2, <2>3, LostKnown
    <2>4. CASE trust' # "lost"
      <3>1. o.ok /\ t # "lost" /\ trust' = t
        BY <2>1, <2>4 DEF Keeps
      <3>2. (t = "asleep" => ~ Quad) /\ InStep'
        BY <1>2, <2>1, <3>1
      <3> QED
        BY <2>1, <2>2, <3>1, <3>2 DEF Known, Quad
    <2> QED
      BY <2>3, <2>4
  <1> QED
    BY <1>1, <1>2

LEMMA ResumeKnown ==
  ASSUME Known, Resume
  PROVE  Known'
  <1> DEFINE k == Cmd("resume")
             j == Send(<<k>>)
             t == IF chip.susp THEN "lost" ELSE trust
  <1>1. j.cmds = <<k>> /\ j.wait = FALSE /\ WellFormed(k) /\ k.op = "resume"
    BY AllSend, AllCommand, FormedCommand DEF Programming
  <1>2. CallWith(Checked(j), handle, t)
    BY DEF Resume, w25qxx_erase_program_resume
  <1> HIDE DEF j, k
  <1>3. Sendable(j) /\ j.cmds # << >>
    BY <1>1, SendableOne
  <1>4. ASSUME NEW o \in Outcomes(j), o.ok, t # "lost", chip' = o.chip, trust' = t,
               board' = board, handle' = handle, handle.inited
        PROVE  (t = "asleep" => ~ Quad) /\ InStep'
    <2>1. ~ chip.susp /\ t = trust /\ ~ chip.busy
      BY <1>4 DEF Known, InStep
    <2>2. chip' = Hears(board.large, board.fab, Now, k).chip
      BY <1>1, <1>4, OneOutcome
    <2>3. Now \in State /\ Now.chip = chip
      BY DEF Known, Legal, Now
    <2>4. Alike(chip', chip)
      BY <1>1, <2>2, <2>3, ModesKept DEF Alike, Modal
    <2>5. ~ chip'.busy
      BY <1>1, <2>1, <2>2, <2>3, StaysReady DEF Starting, Erasing, Programming
    <2> QED
      BY <1>4, <2>1, <2>4, <2>5 DEF Known, InStep, Alike, Quad, Large, Three
  <1>5. t \in {"in", "asleep", "lost"}
    BY DEF Known
  <1> HIDE DEF t
  <1> QED
    BY <1>2, <1>3, <1>4, <1>5, Trusted

LEMMA ReleaseKnown ==
  ASSUME Known, ReleasePowerDown
  PROVE  Known'
  <1> DEFINE k == Cmd("release")
             j == Send(<<k>>)
             t == IF trust # "lost" THEN "in" ELSE "lost"
  <1>1. j.cmds = <<k>> /\ j.wait = FALSE /\ WellFormed(k) /\ k.op = "release"
        /\ k.addressed = FALSE /\ k.lines = (IF Quad THEN 4 ELSE 1)
    BY AllSend, AllCommand, FormedCommand DEF Programming
  <1>2. CallWith(Checked(j), handle, t)
    BY DEF ReleasePowerDown, w25qxx_release_power_down
  <1> HIDE DEF j, k
  <1>3. Sendable(j) /\ j.cmds # << >>
    BY <1>1, SendableOne
  <1>4. ASSUME NEW o \in Outcomes(j), o.ok, t # "lost", chip' = o.chip, trust' = t,
               board' = board, handle' = handle, handle.inited
        PROVE  (t = "asleep" => ~ Quad) /\ InStep'
    <2>1. trust = "in" \/ (trust = "asleep" /\ k.op = "release")
      BY <1>1, <1>4 DEF Known
    <2>2. /\ ~ chip'.down /\ (chip'.qpi <=> chip.qpi) /\ (chip'.four <=> chip.four)
          /\ chip'.dummy = chip.dummy /\ (chip'.busy <=> chip.busy)
      BY <1>1, <1>4, <2>1, ModeCall
    <2> QED
      BY <1>4, <2>1, <2>2 DEF Known, InStep, Quad, Large, Three
  <1>5. t \in {"in", "asleep", "lost"}
    OBVIOUS
  <1> HIDE DEF t
  <1> QED
    BY <1>2, <1>3, <1>4, <1>5, Trusted

LEMMA PowerDownKnown ==
  ASSUME Known, PowerDown
  PROVE  Known'
  <1> DEFINE k == Cmd("down")
             j == Send(<<k>>)
             l == Cmd("spi")
             i == Send(<<l, k>>)
  <1>1. j.cmds = <<k>> /\ j.wait = FALSE /\ WellFormed(k) /\ k.op = "down"
        /\ k.addressed = FALSE /\ k.lines = (IF Quad THEN 4 ELSE 1)
    BY AllSend, AllCommand, FormedCommand DEF Programming
  <1>2. WellFormed(l) /\ i.cmds = <<l, k>>
    BY AllSend, FormedCommand DEF Programming
  <1>3. CASE Quad
    <2>1. CallWith(Checked(i), handle, "lost")
      <3>1. <<l>> \o <<k>> = <<l, k>>
        BY JoinedCommands
      <3>2. w25qxx_power_down = Checked(i)
        BY <1>3, <3>1, Zenon DEF w25qxx_power_down
      <3>3. (IF trust # "lost" /\ ~Quad THEN "asleep" ELSE "lost") = "lost"
        BY <1>3
      <3> QED
        BY <3>2, <3>3, Zenon DEF PowerDown
    <2> HIDE DEF i, k, l
    <2>2. Sendable(i) /\ i.cmds # << >>
      BY <1>1, <1>2, SendableTwo
    <2> QED
      BY <2>1, <2>2, Goes1
  <1>4. CASE ~ Quad
    <2> DEFINE t == IF trust # "lost" THEN "asleep" ELSE "lost"
    <2>1. CallWith(Checked(j), handle, t)
      <3>1. << >> \o <<k>> = <<k>>
        OBVIOUS
      <3> QED
        BY <1>4, <3>1 DEF PowerDown, w25qxx_power_down
    <2> HIDE DEF j, k
    <2>2. Sendable(j) /\ j.cmds # << >>
      BY <1>1, SendableOne
    <2>3. ASSUME NEW o \in Outcomes(j), o.ok, t # "lost", chip' = o.chip, trust' = t,
                 board' = board, handle' = handle, handle.inited
          PROVE  (t = "asleep" => ~ Quad) /\ InStep'
      <3>1. CASE trust = "in"
        <4>1. /\ chip'.down /\ (chip'.qpi <=> chip.qpi) /\ (chip'.four <=> chip.four)
              /\ chip'.dummy = chip.dummy /\ (chip'.busy <=> chip.busy)
          BY <1>1, <2>3, <3>1, ModeCall
        <4> QED
          BY <1>4, <2>3, <3>1, <4>1 DEF Known, InStep, Quad, Large, Three
      <3>2. CASE trust = "asleep"
        <4>1. chip.down
          BY <3>2 DEF Known, InStep
        <4>2. chip' = Hears(board.large, board.fab, Now, k).chip
          BY <1>1, <2>3, OneOutcome
        <4>3. chip' = chip
          BY <1>1, <4>1, <4>2 DEF Hears, Understands, Now
        <4> QED
          BY <1>4, <2>3, <3>2, <4>3 DEF Known, InStep, Quad, Large, Three
      <3> QED
        BY <2>3, <3>1, <3>2 DEF Known
    <2>4. t \in {"in", "asleep", "lost"}
      OBVIOUS
    <2> HIDE DEF t
    <2> QED
      BY <2>1, <2>2, <2>3, <2>4, Trusted
  <1> QED
    BY <1>3, <1>4

LEMMA ResetHeard ==
  ASSUME NEW large, NEW fab, NEW s \in State, NEW k, k.op = "reset", NEW c, c = s.chip,
         NEW t, t = Hears(large, fab, s, k).chip
  PROVE  t = Fresh(fab) \/ (Alike(t, c) /\ (t.busy <=> c.busy) /\ ~ (c.armed /\ Understands(c, k)))
  <1>1. \/ t = c /\ ~ Understands(c, k)
        \/ t = [c EXCEPT !.armed = FALSE] /\ ~ c.armed
        \/ t = Fresh(fab)
    BY Zenon DEF Hears, Obeyed, Erasing, Programming
  <1>2. c \in Chip
    BY DEF State
  <1>3. t = c \/ t = [c EXCEPT !.armed = FALSE] => Alike(t, c) /\ (t.busy <=> c.busy)
    BY <1>2 DEF Chip, Alike
  <1> QED
    BY <1>1, <1>3

LEMMA InStepStill ==
  ASSUME Known, trust' = trust, board' = board, handle' = handle,
         Alike(chip', chip), ~ chip'.busy
  PROVE  InStep'
  BY DEF Known, InStep, Alike, Quad, Large, Three

LEMMA InStepFresh ==
  ASSUME Known, trust = "in", trust' = "in", board' = board, handle' = handle,
         Three, ~ Quad, chip' = Fresh(board.fab)
  PROVE  InStep'
  <1>1. ~ chip'.qpi /\ ~ chip'.four /\ ~ chip'.down /\ ~ chip'.busy
    BY DEF Fresh
  <1> QED
    BY <1>1 DEF Known, InStep, Quad, Large, Three

LEMMA ResetKnown ==
  ASSUME Known, ResetDevice \/ w25qxx_advance_reset
  PROVE  Known'
  <1> DEFINE r == Cmd("rsten")
             k == Cmd("reset")
             i == Send(<<k>>)
             j == Send(<<r, k>>)
             t == IF chip.armed THEN AfterReset ELSE trust
  <1>1. /\ i.cmds = <<k>> /\ i.wait = FALSE /\ j.cmds = <<r, k>> /\ j.wait = FALSE
        /\ WellFormed(k) /\ WellFormed(r) /\ k.op = "reset" /\ r.op = "rsten"
    BY AllSend, AllCommand, FormedCommand DEF Programming
  <1>2. ResetDevice => CallWith(Checked(i), handle, t)
    BY DEF ResetDevice, w25qxx_reset_device
  <1>3. w25qxx_advance_reset => CallWith(Checked(j), handle, AfterReset)
    BY DEF w25qxx_advance_reset
  <1> HIDE DEF i, j, k, r
  <1>4. Sendable(i) /\ i.cmds # << >> /\ Sendable(j) /\ j.cmds # << >>
    BY <1>1, SendableOne, SendableTwo
  <1>5. Now \in State /\ Now.chip = chip
    BY DEF Known, Legal, Now
  <1>6. AfterReset # "lost" => Three /\ ~ Quad /\ AfterReset = trust
    BY DEF AfterReset
  <1>7. /\ trust = "asleep" => chip.down
        /\ trust # "lost" => ~ chip.busy
        /\ trust = "asleep" => ~ Quad
        /\ trust \in {"in", "asleep", "lost"}
    BY DEF Known, InStep
  <1>8. CASE ResetDevice
    <2>1. ASSUME NEW o \in Outcomes(i), o.ok, t # "lost", chip' = o.chip, trust' = t,
                 board' = board, handle' = handle, handle.inited
          PROVE  (t = "asleep" => ~ Quad) /\ InStep'
      <3>1. chip' = Hears(board.large, board.fab, Now, k).chip
        BY <1>1, <2>1, OneOutcome
      <3>2. t = trust /\ trust # "lost"
        BY <1>6, <2>1
      <3>3. CASE chip.down
        <4>1. chip' = chip
          BY <1>1, <3>1, <3>3 DEF Hears, Understands, Now
        <4> QED
          BY <1>7, <2>1, <3>2, <4>1, InStepStill DEF Alike
      <3>4. CASE Alike(chip', chip) /\ ~ chip'.busy
        BY <1>7, <2>1, <3>2, <3>4, InStepStill
      <3>5. CASE ~ chip.down /\ ~ (Alike(chip', chip) /\ ~ chip'.busy)
        <4>1. trust = "in" /\ trust' = "in"
          BY <1>7, <2>1, <3>2, <3>5
        <4>2. \/ chip' = Fresh(board.fab) /\ chip.armed
              \/ Alike(chip', chip) /\ ~ chip'.busy
          <5>1. chip' = Fresh(board.fab) \/ (Alike(chip', chip) /\ (chip'.busy <=> chip.busy))
            BY <1>1, <1>5, <3>1, ResetHeard
          <5>2. ~ chip.armed => Alike(chip', chip) /\ ~ chip'.busy
            <6>1. chip \in Chip
              BY <1>5 DEF State
            <6>2. ~ chip.armed => chip' = chip \/ chip' = [chip EXCEPT !.armed = FALSE]
              BY <1>1, <1>5, <3>1, Zenon DEF Hears, Obeyed, Erasing, Programming
            <6>3. ~ chip.busy
              BY <1>7, <3>2
            <6> QED
              BY <6>1, <6>2, <6>3 DEF Chip, Alike
          <5>3. ~ chip.busy
            BY <1>7, <3>2
          <5> QED
            BY <5>1, <5>2, <5>3
        <4>3. Three /\ ~ Quad
          BY <1>6, <2>1, <3>5, <4>2
        <4>4. InStep'
          BY <2>1, <3>5, <4>1, <4>2, <4>3, InStepFresh
        <4> QED
          BY <4>3, <4>4
      <3> QED
        BY <3>3, <3>4, <3>5
    <2>2. t \in {"in", "asleep", "lost"}
      BY <1>6, <1>7
    <2> HIDE DEF t
    <2> QED
      BY <1>2, <1>4, <1>8, <2>1, <2>2, Trusted
  <1>9. CASE w25qxx_advance_reset
    <2> DEFINE u == AfterReset
    <2>1. ASSUME NEW o \in Outcomes(j), o.ok, u # "lost", chip' = o.chip, trust' = u,
                 board' = board, handle' = handle, handle.inited
          PROVE  (u = "asleep" => ~ Quad) /\ InStep'
      <3>1. Len(j.cmds) = 2 /\ j.cmds[1] = r /\ j.cmds[2] = k
        BY <1>1
      <3>2. chip' = Sent(j.cmds, 2).chip
        BY <1>1, <2>1, <3>1, AllSent
      <3>3. u = trust /\ trust # "lost" /\ Three /\ ~ Quad /\ ~ chip.busy
        BY <1>6, <1>7, <2>1
      <3>4. CASE trust = "asleep"
        <4>1. \A n \in 1 .. 2 : j.cmds[n].op # "release"
          <5>1. \A n \in 1 .. 2 : n = 1 \/ n = 2
            OBVIOUS
          <5> QED
            BY <1>1, <3>1, <5>1
        <4>2. Sent(j.cmds, 2) = Now
          BY <1>7, <3>4, <4>1, Asleep DEF MaxSent
        <4>3. chip' = chip
          BY <1>5, <3>2, <4>2
        <4> QED
          BY <2>1, <3>3, <4>3, InStepStill DEF Alike
      <3>5. CASE trust = "in"
        <4> DEFINE s == Hears(board.large, board.fab, Now, r)
        <4>1. Sent(j.cmds, 1) = s /\ Sent(j.cmds, 2) = Hears(board.large, board.fab, s, k)
          BY <3>1, SentSteps DEF MaxSent, Now
        <4>2. s \in State
          BY <1>1, <1>5, HearsState, BoardType DEF Known
        <4>3. Alike(s.chip, chip) /\ ~ s.chip.busy
          <5>1. Alike(s.chip, chip)
            BY <1>1, <1>5, ModesKept DEF Alike, Modal
          <5>2. ~ s.chip.busy
            BY <1>1, <1>5, <3>3, StaysReady DEF Starting, Erasing, Programming
          <5> QED
            BY <5>1, <5>2
        <4> HIDE DEF s
        <4>4. \/ chip' = Fresh(board.fab)
              \/ Alike(chip', s.chip) /\ (chip'.busy <=> s.chip.busy)
          BY <1>1, <3>2, <4>1, <4>2, ResetHeard
        <4>5. CASE chip' = Fresh(board.fab)
          BY <2>1, <3>3, <3>5, <4>5, InStepFresh
        <4>6. CASE Alike(chip', s.chip) /\ (chip'.busy <=> s.chip.busy)
          <5>1. Alike(chip', chip) /\ ~ chip'.busy
            BY <4>3, <4>6 DEF Alike
          <5> QED
            BY <2>1, <3>3, <5>1, InStepStill
        <4> QED
          BY <3>3, <4>4, <4>5, <4>6
      <3> QED
        BY <1>7, <3>3, <3>4, <3>5
    <2>2. u \in {"in", "asleep", "lost"}
      BY <1>6, <1>7
    <2> HIDE DEF u
    <2>3. CallWith(Checked(j), handle, u)
      BY <1>3, <1>9 DEF u
    <2> QED
      BY <1>4, <2>1, <2>2, <2>3, Trusted
  <1> QED
    BY <1>8, <1>9

LEMMA ConfigureKnown ==
  ASSUME Known, NEW h \in Handles, Configure(h)
  PROVE  Known'
  <1>1. /\ handle' = h /\ board' = board /\ chip' = chip /\ mem' = mem
        /\ trust' \in {"in", "asleep", "lost"}
        /\ trust' # "lost" => trust' = trust /\ [h EXCEPT !.dual = handle.dual] = handle
    BY DEF Configure, Known
  <1>2. Now' \in Legal'
    BY <1>1 DEF Known, Legal, Now
  <1>3. trust' # "lost" =>
          /\ handle'.inited = handle.inited /\ handle'.iface = handle.iface
          /\ handle'.type = handle.type /\ handle'.am = handle.am /\ handle'.dummy = handle.dummy
    <2>1. h.inited = [h EXCEPT !.dual = handle.dual].inited
          /\ h.iface = [h EXCEPT !.dual = handle.dual].iface
          /\ h.type = [h EXCEPT !.dual = handle.dual].type
          /\ h.am = [h EXCEPT !.dual = handle.dual].am
          /\ h.dummy = [h EXCEPT !.dual = handle.dual].dummy
      BY DEF Handles
    <2> QED
      BY <1>1, <2>1
  <1> QED
    BY <1>1, <1>2, <1>3 DEF Known, InStep, Quad, Large, Three

LEMMA ConfiguringKnown ==
  ASSUME Known,
         \/ \E b \in BOOLEAN : w25qxx_set_dual_quad_spi(b)
         \/ \E t \in {"small", "large"} : w25qxx_set_type(t)
         \/ \E i \in {"SPI", "QSPI"} : w25qxx_set_interface(i)
         \/ \E t \in {"small", "large"}, i \in {"SPI", "QSPI"}, b \in BOOLEAN :
              w25qxx_advance_init(t, i, b)
  PROVE  Known'
  <1>1. /\ \A b \in BOOLEAN : [handle EXCEPT !.dual = b] \in Handles
        /\ \A t \in {"small", "large"} : [handle EXCEPT !.type = t] \in Handles
        /\ \A i \in {"SPI", "QSPI"} : [handle EXCEPT !.iface = i] \in Handles
    BY DEF Known, Handles
  <1>2. \A t \in {"small", "large"}, i \in {"SPI", "QSPI"}, b \in BOOLEAN :
          [Zeroed EXCEPT !.type = t, !.iface = i, !.dual = b] \in Handles
    BY DEF Zeroed, Handles
  <1> QED
    BY <1>1, <1>2, ConfigureKnown DEF w25qxx_set_dual_quad_spi, w25qxx_set_type,
       w25qxx_set_interface, w25qxx_advance_init

-------------------------------------------------------------------------------
(* Initialising.                                                           *)
IdCmd     == Cmd("id")
ParamsCmd == CmdData("params", <<8>>)
AddrCmd   == Cmd("addr3")

LEMMA Joined ==
  ASSUME NEW S, NEW x \in Seq(S), NEW y \in Seq(S), NEW z, z = x \o y
  PROVE  /\ z \in Seq(S) /\ Len(z) = Len(x) + Len(y)
         /\ \A i \in 1 .. Len(x) : z[i] = x[i]
         /\ \A i \in 1 .. Len(y) : z[Len(x) + i] = y[i]
  <1>1. PICK n \in Nat, k \in Nat : n = Len(x) /\ k = Len(y)
    OBVIOUS
  <1>2. /\ z \in Seq(S) /\ Len(z) = Len(x) + Len(y)
        /\ \A i \in 1 .. n + k : z[i] = IF i <= n THEN x[i] ELSE y[i - n]
    BY <1>1, ConcatProperties
  <1>3. \A i \in 1 .. n : i \in 1 .. n + k /\ i <= n
    OBVIOUS
  <1>4. \A i \in 1 .. k : n + i \in 1 .. n + k /\ ~ (n + i <= n) /\ (n + i) - n = i
    OBVIOUS
  <1> QED
    BY <1>1, <1>2, <1>3, <1>4

LEMMA InitShape ==
  ASSUME NEW fix \in BOOLEAN, NEW cmds, cmds = InitCommands(fix), NEW last,
         last = cmds \o <<AddrCmd>>
  PROVE  /\ \E S : cmds \in Seq(S)
         /\ Len(cmds) \in 4 .. 9
         /\ \A i \in 1 .. Len(cmds) : WellFormed(cmds[i])
         /\ cmds[Len(cmds)] = IdCmd
         /\ Quad => cmds[Len(cmds) - 1] = ParamsCmd
         /\ Len(last) = Len(cmds) + 1
         /\ \A i \in 1 .. Len(cmds) : last[i] = cmds[i]
         /\ last[Len(cmds) + 1] = AddrCmd
         /\ \A i \in 1 .. Len(last) : WellFormed(last[i])
  <1> DEFINE r == Plain("release")   e == Plain("rsten")   x == Plain("reset")
             s == Plain("status2")   v == Plain("volsr")   w == Plain("wsr2")
             q == Plain("qpi")       p == ParamsCmd        d == IdCmd
             a == AddrCmd
             S == {r, e, x, s, v, w, q, p, d, a}
  <1>1. /\ WellFormed(r) /\ WellFormed(e) /\ WellFormed(x) /\ WellFormed(s) /\ WellFormed(v)
        /\ WellFormed(w) /\ WellFormed(q) /\ WellFormed(p) /\ WellFormed(d) /\ WellFormed(a)
    BY Geometry DEF Plain, Cmd, CmdData, IdCmd, ParamsCmd, AddrCmd, WellFormed, Programming
  <1>2. PICK f, l, g, m, h, o, b, z :
          /\ f = IF fix THEN <<v, w>> ELSE << >>
          /\ l = <<q, p>> /\ g = <<s>> \o f
          /\ m = IF ~ Quad THEN << >> ELSE g \o l
          /\ h = <<r, e, x>> /\ o = h \o m /\ b = <<d>> /\ z = <<a>>
    OBVIOUS
  <1>3. cmds = o \o b
    BY <1>2, Zenon DEF InitCommands, IdCmd, ParamsCmd
  <1>4. \A y \in S : WellFormed(y)
    BY <1>1
  <1>5. last = cmds \o z
    BY <1>2
  <1> HIDE DEF r, e, x, s, v, w, q, p, d, a
  <1>6. /\ h \in Seq(S) /\ Len(h) = 3 /\ b \in Seq(S) /\ Len(b) = 1 /\ b[1] = d
        /\ z \in Seq(S) /\ Len(z) = 1 /\ z[1] = a /\ <<s>> \in Seq(S) /\ Len(<<s>>) = 1
        /\ l \in Seq(S) /\ Len(l) = 2 /\ l[2] = p
    BY <1>2
  <1>7. PICK n \in Nat : /\ m \in Seq(S) /\ Len(m) = n /\ n \in {0, 3, 5}
                         /\ Quad => n # 0 /\ m[n] = p
    <2>1. CASE ~ Quad
      <3>1. m = << >>
        BY <1>2, <2>1
      <3>2. m \in Seq(S) /\ Len(m) = 0
        BY <3>1, EmptySeq
      <3> QED
        BY <2>1, <3>2
    <2>2. CASE Quad
      <3>1. PICK u \in {0, 2} : f \in Seq(S) /\ Len(f) = u
        <4>1. CASE fix
          <5>1. f = <<v, w>>
            BY <1>2, <4>1
          <5>2. f \in Seq(S) /\ Len(f) = 2
            BY <5>1
          <5> QED
            BY <5>2
        <4>2. CASE ~ fix
          <5>1. f = << >>
            BY <1>2, <4>2
          <5>2. f \in Seq(S) /\ Len(f) = 0
            BY <5>1, EmptySeq
          <5> QED
            BY <5>2
        <4> QED
          BY <4>1, <4>2
      <3>2. g = <<s>> \o f /\ m = g \o l
        BY <1>2, <2>2
      <3> HIDE DEF S
      <3>3. g \in Seq(S) /\ Len(g) = 1 + u
        BY <1>6, <3>1, <3>2, Joined
      <3>4. /\ m \in Seq(S) /\ Len(m) = (1 + u) + 2
            /\ \A i \in 1 .. 2 : m[(1 + u) + i] = l[i]
        <4>1. PICK y \in Nat : y = 1 + u
          OBVIOUS
        <4>2. /\ m \in Seq(S) /\ Len(m) = y + 2
              /\ \A i \in 1 .. 2 : m[y + i] = l[i]
          <5>1. g \in Seq(S) /\ Len(g) = y /\ m = g \o l
            BY <3>2, <3>3, <4>1
          <5>2. l \in Seq(S) /\ Len(l) = 2 /\ 2 \in Nat
            BY <1>6
          <5>3. /\ m \in Seq(S) /\ Len(m) = Len(g) + Len(l)
                /\ \A i \in 1 .. Len(l) : m[Len(g) + i] = l[i]
            <6>1. g \in Seq(S) /\ l \in Seq(S) /\ m = g \o l
              BY <5>1, <5>2
            <6> QED
              BY <6>1, Joined
          <5> QED
            BY <5>1, <5>2, <5>3
        <4> QED
          BY <4>1, <4>2
      <3>5. (1 + u) + 2 \in {3, 5} /\ (1 + u) + 2 \in Nat
        OBVIOUS
      <3>6. m[(1 + u) + 2] = p
        BY <1>6, <3>4
      <3> QED
        BY <3>4, <3>5, <3>6
    <2> QED
      BY <2>1, <2>2
  <1> HIDE DEF S
  <1>8. /\ o \in Seq(S) /\ Len(o) = 3 + n
        /\ \A i \in 1 .. n : o[3 + i] = m[i]
    BY <1>2, <1>6, <1>7, Joined
  <1>9. /\ cmds \in Seq(S) /\ Len(cmds) = (3 + n) + 1
        /\ \A i \in 1 .. 3 + n : cmds[i] = o[i]
        /\ \A i \in 1 .. 1 : cmds[(3 + n) + i] = b[i]
    <2>1. PICK y \in Nat : y = 3 + n
      BY <1>7
    <2>2. /\ cmds \in Seq(S) /\ Len(cmds) = y + 1
          /\ \A i \in 1 .. y : cmds[i] = o[i]
          /\ \A i \in 1 .. 1 : cmds[y + i] = b[i]
      <3>1. o \in Seq(S) /\ Len(o) = y /\ cmds = o \o b
        BY <1>3, <1>8, <2>1
      <3>2. b \in Seq(S) /\ Len(b) = 1 /\ 1 \in Nat
        BY <1>6
      <3>3. /\ cmds \in Seq(S) /\ Len(cmds) = Len(o) + Len(b)
            /\ \A i \in 1 .. Len(o) : cmds[i] = o[i]
            /\ \A i \in 1 .. Len(b) : cmds[Len(o) + i] = b[i]
        <4>1. o \in Seq(S) /\ b \in Seq(S) /\ cmds = o \o b
          BY <3>1, <3>2
        <4> QED
          BY <4>1, Joined
      <3> QED
        BY <3>1, <3>2, <3>3
    <2> QED
      BY <2>1, <2>2
  <1>10. /\ last \in Seq(S) /\ Len(last) = ((3 + n) + 1) + 1
         /\ \A i \in 1 .. (3 + n) + 1 : last[i] = cmds[i]
         /\ \A i \in 1 .. 1 : last[((3 + n) + 1) + i] = z[i]
    <2>1. PICK y \in Nat : y = (3 + n) + 1
      BY <1>7
    <2>2. /\ last \in Seq(S) /\ Len(last) = y + 1
          /\ \A i \in 1 .. y : last[i] = cmds[i]
          /\ \A i \in 1 .. 1 : last[y + i] = z[i]
      <3>1. cmds \in Seq(S) /\ Len(cmds) = y /\ last = cmds \o z
        BY <1>5, <1>9, <2>1
      <3>2. z \in Seq(S) /\ Len(z) = 1 /\ 1 \in Nat
        BY <1>6
      <3>3. /\ last \in Seq(S) /\ Len(last) = Len(cmds) + Len(z)
            /\ \A i \in 1 .. Len(cmds) : last[i] = cmds[i]
            /\ \A i \in 1 .. Len(z) : last[Len(cmds) + i] = z[i]
        <4>1. cmds \in Seq(S) /\ z \in Seq(S) /\ last = cmds \o z
          BY <3>1, <3>2
        <4> QED
          BY <4>1, Joined
      <3> QED
        BY <3>1, <3>2, <3>3
    <2> QED
      BY <2>1, <2>2
  <1>11. /\ \A i \in 1 .. Len(cmds) : WellFormed(cmds[i])
         /\ \A i \in 1 .. Len(last) : WellFormed(last[i])
    BY <1>4, <1>9, <1>10, ElementOfSeq
  <1>12. cmds[Len(cmds)] = IdCmd
    BY <1>6, <1>9 DEF d
  <1>13. last[Len(cmds) + 1] = AddrCmd
    BY <1>6, <1>9, <1>10 DEF a
  <1>14. Quad => cmds[Len(cmds) - 1] = ParamsCmd
    <2> SUFFICES ASSUME Quad
                 PROVE  cmds[Len(cmds) - 1] = p
      BY DEF p
    <2>1. n \in {3, 5} /\ m[n] = p
      BY <1>7
    <2>2. 3 + n \in 1 .. 3 + n /\ n \in 1 .. n
      BY <2>1
    <2>3. cmds[3 + n] = p
      BY <1>8, <1>9, <2>1, <2>2
    <2>4. ((3 + n) + 1) - 1 = 3 + n
      BY <2>1
    <2> QED
      BY <1>9, <2>3, <2>4
  <1>15. (3 + n) + 1 \in 4 .. 9
    BY <1>7
  <1> QED
    BY <1>9, <1>10, <1>11, <1>12, <1>13, <1>14, <1>15

LEMMA SentPrefix ==
  ASSUME NEW cmds, NEW last, NEW n \in 0 .. MaxSent, \A i \in 1 .. n : last[i] = cmds[i]
  PROVE  \A k \in 0 .. n : Sent(last, k) = Sent(cmds, k)
  <1> DEFINE P(k) == k \in 0 .. n => Sent(last, k) = Sent(cmds, k)
  <1>1. P(0)
    BY SentSteps
  <1>2. ASSUME NEW k \in Nat, P(k)
        PROVE  P(k + 1)
    <2> SUFFICES ASSUME k + 1 \in 0 .. n
                 PROVE  Sent(last, k + 1) = Sent(cmds, k + 1)
      OBVIOUS
    <2>1. k + 1 \in 1 .. MaxSent /\ k + 1 \in 1 .. n /\ k \in 0 .. n /\ (k + 1) - 1 = k
      BY DEF MaxSent
    <2>2. Sent(last, k) = Sent(cmds, k) /\ last[k + 1] = cmds[k + 1]
      BY <1>2, <2>1
    <2>3. /\ Sent(last, k + 1) = Hears(board.large, board.fab, Sent(last, k), last[k + 1])
          /\ Sent(cmds, k + 1) = Hears(board.large, board.fab, Sent(cmds, k), cmds[k + 1])
      BY <2>1, SentSteps
    <2> QED
      BY <2>2, <2>3
  <1> DEFINE C == {k \in Nat : ~ P(k)}
  <1> HIDE DEF P
  <1>3. C = {}
    <2> SUFFICES ASSUME C # {}
                 PROVE  FALSE
      OBVIOUS
    <2>1. PICK k \in C : \A l \in C : k =< l
      BY LeastNumber DEF C
    <2>2. k \in Nat /\ k # 0 /\ ~ P(k)
      BY <1>1, <2>1 DEF C
    <2>3. P(k - 1)
      BY <2>1, <2>2 DEF C
    <2>4. k - 1 \in Nat /\ (k - 1) + 1 = k
      BY <2>2
    <2> QED
      BY <1>2, <2>2, <2>3, <2>4
  <1> QED
    BY <1>3 DEF P

(* Asking for the identity changes nothing.                                *)
LEMMA IdHeard ==
  ASSUME NEW large, NEW fab, NEW s \in State, NEW k, k.op = "id", NEW c, c = s.chip,
         NEW t, t = Hears(large, fab, s, k).chip
  PROVE  /\ (t.qpi <=> c.qpi) /\ (t.four <=> c.four) /\ (t.down <=> c.down)
         /\ t.dummy = c.dummy /\ (t.busy <=> c.busy)
  <1>1. t = c \/ t = [c EXCEPT !.armed = FALSE]
    BY Zenon DEF Hears, Obeyed, Erasing, Programming
  <1>2. c \in Chip
    BY DEF State
  <1> QED
    BY <1>1, <1>2 DEF Chip

(* After the parameters have been set, and the chip still understands.     *)
LEMMA ParamsHeard ==
  ASSUME NEW large, NEW fab, NEW s \in State, Quad, NEW k, k = ParamsCmd,
         NEW t, t = Hears(large, fab, s, k).chip, t.qpi, ~ t.down, ~ t.busy
  PROVE  t.dummy = 8
  <1>1. k.op = "params" /\ k.lines = 4 /\ k.addressed = FALSE /\ k.d[1] = 8
    BY DEF ParamsCmd, CmdData, Cmd
  <1>2. PICK c : c = s.chip
    OBVIOUS
  <1>3. CASE Understands(c, k)
    <2>1. k.op = "params" /\ c.qpi
      BY <1>1, <1>3 DEF Understands
    <2> QED
      BY <1>1, <1>2, <1>3, <2>1, ModeEffects
  <1>4. CASE ~ Understands(c, k)
    <2>1. t = c
      BY <1>2, <1>4 DEF Hears
    <2> QED
      BY <1>1, <1>4, <2>1 DEF Understands
  <1> QED
    BY <1>3, <1>4

LEMMA InitialisedChip ==
  ASSUME Known, NEW fix \in BOOLEAN, NEW cmds, cmds = InitCommands(fix), NEW last,
         last = IF Large THEN cmds \o <<Cmd("addr3")>> ELSE cmds,
         Identified(Sent(cmds, Len(cmds))), NEW t, t = Sent(last, Len(last)).chip
  PROVE  /\ Sent(last, Len(last)) \in Legal
         /\ Large <=> board.large
         /\ t.qpi <=> Quad
         /\ ~ t.four /\ ~ t.down /\ ~ t.busy
         /\ Quad => t.dummy = 8
  <1>1. PICK n, more :
          /\ n \in 4 .. 9 /\ Len(cmds) = n /\ more = cmds \o <<AddrCmd>>
          /\ \A i \in 1 .. n : WellFormed(cmds[i])
          /\ cmds[n] = IdCmd
          /\ Quad => cmds[n - 1] = ParamsCmd
          /\ Len(more) = n + 1
          /\ \A i \in 1 .. n : more[i] = cmds[i]
          /\ more[n + 1] = AddrCmd
          /\ \A i \in 1 .. n + 1 : WellFormed(more[i])
    <2>1. PICK n, more : n = Len(cmds) /\ more = cmds \o <<AddrCmd>>
      OBVIOUS
    <2>2. n \in 4 .. 9 /\ Len(more) = n + 1 /\ cmds[n] = IdCmd /\ more[n + 1] = AddrCmd
          /\ (Quad => cmds[n - 1] = ParamsCmd)
      BY <2>1, InitShape
    <2>3. /\ \A i \in 1 .. n : WellFormed(cmds[i])
          /\ \A i \in 1 .. n : more[i] = cmds[i]
          /\ \A i \in 1 .. Len(more) : WellFormed(more[i])
      <3>1. \A i \in 1 .. Len(cmds) : WellFormed(cmds[i])
        BY <2>1, InitShape
      <3>2. \A i \in 1 .. Len(cmds) : more[i] = cmds[i]
        BY <2>1, InitShape
      <3>3. \A i \in 1 .. Len(more) : WellFormed(more[i])
        BY <2>1, InitShape
      <3> QED
        BY <2>1, <3>1, <3>2, <3>3
    <2>4. \A i \in 1 .. n + 1 : WellFormed(more[i])
      BY <2>2, <2>3
    <2> QED
      BY <2>1, <2>2, <2>3, <2>4, Zenon
  <1>2. /\ n \in 0 .. MaxSent /\ n + 1 \in 0 .. MaxSent /\ n \in 1 .. MaxSent
        /\ n - 1 \in 1 .. MaxSent /\ n + 1 \in 1 .. MaxSent
        /\ n - 1 \in 0 .. n /\ (n - 1) - 1 \in 0 .. n /\ n \in 0 .. n
        /\ (n + 1) - 1 = n /\ n + 1 \in 0 .. n + 1
    <2>1. n \in 4 .. 9
      BY <1>1
    <2> QED
      BY <2>1 DEF MaxSent
  <1>3. board \in Boards /\ Now \in Legal
    BY DEF Known
  <1>4. \A k \in 0 .. n : Sent(cmds, k) \in Legal
    BY <1>1, <1>2, <1>3, SentStays
  <1>5. \A k \in 0 .. n + 1 : Sent(more, k) \in Legal
    BY <1>1, <1>2, <1>3, SentStays
  <1>6. PICK s0, s1, s2, s3 :
          /\ s0 = Sent(cmds, (n - 1) - 1) /\ s1 = Sent(cmds, n - 1) /\ s2 = Sent(cmds, n)
          /\ s3 = Sent(more, n + 1)
    OBVIOUS
  <1>7. s0 \in Legal /\ s1 \in Legal /\ s2 \in Legal /\ s3 \in Legal
    BY <1>2, <1>4, <1>5, <1>6
  <1>8. s2 = Hears(board.large, board.fab, s1, IdCmd)
    BY <1>1, <1>2, <1>6, SentSteps
  <1>9. Quad => s1 = Hears(board.large, board.fab, s0, ParamsCmd)
    BY <1>1, <1>2, <1>6, SentSteps
  <1>10. s3 = Hears(board.large, board.fab, s2, AddrCmd)
    <2>1. Sent(more, n) = Sent(cmds, n)
      <3>1. n \in 0 .. MaxSent /\ n \in 0 .. n /\ \A i \in 1 .. n : more[i] = cmds[i]
        BY <1>1, <1>2
      <3> QED
        BY <3>1, SentPrefix
    <2>2. Sent(more, n + 1) = Hears(board.large, board.fab, Sent(more, (n + 1) - 1), more[n + 1])
      BY <1>2, SentSteps
    <2> QED
      BY <1>1, <1>2, <1>6, <2>1, <2>2
  <1>11. Understands(s2.chip, IdCmd) /\ (Large <=> board.large)
    BY <1>1, <1>6 DEF Identified, IdCmd
  <1>12. IdCmd.op = "id" /\ IdCmd.lines = (IF Quad THEN 4 ELSE 1) /\ IdCmd.addressed = FALSE
    BY AllCommand DEF IdCmd
  <1>13. AddrCmd.op = "addr3" /\ AddrCmd.lines = (IF Quad THEN 4 ELSE 1) /\ AddrCmd.addressed = FALSE
    BY AllCommand DEF AddrCmd
  <1>14. (s2.chip.qpi <=> Quad) /\ ~ s2.chip.down /\ ~ s2.chip.busy
    BY <1>11, <1>12 DEF Understands
  <1>15. s0 \in State /\ s1 \in State /\ s2 \in State
    BY <1>7 DEF Legal
  <1>16. /\ (s2.chip.qpi <=> s1.chip.qpi) /\ (s2.chip.down <=> s1.chip.down)
         /\ s2.chip.dummy = s1.chip.dummy /\ (s2.chip.busy <=> s1.chip.busy)
    BY <1>8, <1>12, <1>15, IdHeard
  <1>17. Quad => s2.chip.dummy = 8
    <2> SUFFICES ASSUME Quad PROVE s1.chip.dummy = 8
      BY <1>16
    <2>1. s1.chip.qpi /\ ~ s1.chip.down /\ ~ s1.chip.busy
      BY <1>14, <1>16
    <2> QED
      BY <1>9, <1>15, <2>1, ParamsHeard
  <1>18. CASE Large
    <2>1. t = s3.chip /\ Sent(last, Len(last)) = s3
      BY <1>1, <1>6, <1>18 DEF AddrCmd
    <2>2. Understands(s2.chip, AddrCmd)
      BY <1>11, <1>12, <1>13, <1>14 DEF Understands
    <2>3. /\ ~ t.four /\ (t.qpi <=> s2.chip.qpi) /\ (t.down <=> s2.chip.down)
          /\ t.dummy = s2.chip.dummy /\ (t.busy <=> s2.chip.busy)
      BY <1>10, <1>13, <1>15, <2>1, <2>2, ModeEffects
    <2> QED
      BY <1>7, <1>11, <1>14, <1>17, <2>1, <2>3
  <1>19. CASE ~ Large
    <2>1. t = s2.chip /\ Sent(last, Len(last)) = s2
      BY <1>1, <1>6, <1>19
    <2>2. ~ s2.chip.four
      BY <1>7, <1>11, <1>19 DEF Legal
    <2> QED
      BY <1>7, <1>11, <1>14, <1>17, <2>1, <2>2
  <1> QED
    BY <1>18, <1>19

LEMMA InitDoneKnown ==
  ASSUME Known, NEW fix \in BOOLEAN, NEW h \in Handles, board' = board, InitDone(h, fix),
         h = IF Quad THEN [handle EXCEPT !.param = 8, !.dummy = 8] ELSE handle
  PROVE  Known'
  <1>1. PICK cmds, last :
          /\ cmds = InitCommands(fix)
          /\ last = IF Large THEN cmds \o <<Cmd("addr3")>> ELSE cmds
          /\ Identified(Sent(cmds, Len(cmds)))
          /\ handle' = [h EXCEPT !.am = 3, !.inited = TRUE]
          /\ chip' = Sent(last, Len(last)).chip
          /\ mem' = Sent(last, Len(last)).mem
          /\ trust' = "in"
    BY DEF InitDone
  <1>2. /\ Sent(last, Len(last)) \in Legal
        /\ Large <=> board.large
        /\ chip'.qpi <=> Quad
        /\ ~ chip'.four /\ ~ chip'.down /\ ~ chip'.busy
        /\ Quad => chip'.dummy = 8
    BY <1>1, InitialisedChip
  <1>3. Now' \in Legal'
    BY <1>1, <1>2 DEF Now, Legal, State
  <1>4. /\ handle' \in Handles /\ handle'.inited /\ handle'.am = 3
        /\ handle'.iface = h.iface /\ handle'.type = h.type /\ handle'.dummy = h.dummy
    BY <1>1 DEF Handles
  <1>5. h.iface = handle.iface /\ h.type = handle.type /\ (Quad => h.dummy = 8)
    BY DEF Known, Handles
  <1> QED
    BY <1>1, <1>2, <1>3, <1>4, <1>5 DEF Known, InStep, Quad, Large, Three

LEMMA InitFailsKnown ==
  ASSUME Known, NEW fix \in BOOLEAN, NEW h \in Handles, board' = board, InitFails(h, fix)
  PROVE  Known'
  <1>1. PICK cmds, more, k :
          /\ k \in 0 .. Carried(more) /\ cmds = InitCommands(fix)
          /\ more = cmds \o <<AddrCmd>> \/ more = cmds \o << >>
          /\ chip' = Sent(more, k).chip /\ mem' = Sent(more, k).mem
          /\ handle' \in {h, handle}
          /\ trust' = "lost"
    BY DEF InitFails, AddrCmd
  <1>2. PICK last : last = cmds \o <<AddrCmd>>
    OBVIOUS
  <1>3. /\ \E S : cmds \in Seq(S)
        /\ Len(cmds) \in 4 .. 9
        /\ \A i \in 1 .. Len(cmds) : WellFormed(cmds[i])
        /\ Len(last) = Len(cmds) + 1
        /\ \A i \in 1 .. Len(last) : WellFormed(last[i])
    BY <1>1, <1>2, InitShape
  <1>4. Len(more) \in 0 .. MaxSent /\ \A i \in 1 .. Len(more) : WellFormed(more[i])
    <2>1. CASE more = cmds \o <<AddrCmd>>
      <3>1. more = last
        BY <1>2, <2>1
      <3>2. Len(last) \in 0 .. MaxSent
        <4>1. PICK n \in 4 .. 9 : Len(cmds) = n
          BY <1>3
        <4>2. Len(last) = n + 1
          BY <1>3, <4>1
        <4>3. n + 1 \in 0 .. MaxSent
          BY DEF MaxSent
        <4> QED
          BY <4>2, <4>3
      <3>3. \A i \in 1 .. Len(last) : WellFormed(last[i])
        BY <1>3
      <3> QED
        BY <3>1, <3>2, <3>3, Zenon
    <2>2. CASE more = cmds \o << >>
      <3>1. cmds \o << >> = cmds
        <4>1. PICK S : cmds \in Seq(S)
          BY <1>3
        <4> QED
          BY <4>1, ConcatEmptySeq
      <3> QED
        BY <1>3, <2>2, <3>1 DEF MaxSent
    <2> QED
      BY <1>1, <2>1, <2>2
  <1>5. k \in 0 .. Len(more)
    BY <1>1, <1>4 DEF Carried
  <1>6. Sent(more, k) \in Legal
    BY <1>4, <1>5, SentStays DEF Known
  <1>7. Now' \in Legal'
    BY <1>1, <1>6 DEF Now, Legal, State
  <1> QED
    BY <1>1, <1>7 DEF Known, InStep

LEMMA InitKnown ==
  ASSUME Known, w25qxx_init
  PROVE  Known'
  <1> DEFINE h == IF Quad THEN [handle EXCEPT !.param = 8, !.dummy = 8] ELSE handle
  <1>1. h \in Handles
    BY DEF Known, Handles
  <1>2. PICK fix \in BOOLEAN : InitDone(h, fix) \/ InitFails(h, fix)
    BY DEF w25qxx_init
  <1>3. board' = board
    BY DEF w25qxx_init
  <1> QED
    BY <1>1, <1>2, <1>3, InitDoneKnown, InitFailsKnown

-------------------------------------------------------------------------------
(* Sectors, pages, and what is cut from a sequence.                        *)
LEMMA Multiples ==
  ASSUME NEW n \in Nat, n > 0, NEW x \in Int, NEW y \in Int, n * x < n * y
  PROVE  (n * x) + n <= n * y
  <1>1. x < y
    <2> SUFFICES ASSUME y <= x
                 PROVE  FALSE
      OBVIOUS
    <2>1. PICK d \in Nat : x = y + d
      <3>1. x - y \in Nat /\ x = y + (x - y)
        OBVIOUS
      <3> QED
        BY <3>1
    <2>2. n * x = n * y + n * d /\ n * d >= 0
      BY <2>1
    <2> QED
      BY <2>2
  <1>2. PICK d \in Nat : y = x + 1 + d
    <2>1. y - x - 1 \in Nat /\ y = x + 1 + (y - x - 1)
      BY <1>1
    <2> QED
      BY <2>1
  <1>3. n * y = n * x + n + n * d /\ n * d >= 0
    BY <1>2
  <1> QED
    BY <1>3

LEMMA SectorFacts ==
  ASSUME NEW a \in Addr
  PROVE  /\ SectorOf(a) \in Addr /\ SectorOf(a) \in Nat /\ a \in Nat
         /\ SectorOf(a) <= a /\ a < SectorOf(a) + SECTOR
         /\ SectorOf(a) + SECTOR <= 2 * BANK
         /\ SectorOf(a) % SECTOR = 0 /\ SectorOf(a) \div SECTOR = a \div SECTOR
         /\ a % SECTOR = a - SectorOf(a)
         /\ a \div SECTOR \in Nat
  <1>1. a \in Nat /\ a < 2 * BANK /\ BANK \in Nat /\ SECTOR \in Nat /\ SECTOR > 0
    BY Geometry DEF Addr
  <1>2. PICK q \in Nat, r \in 0 .. SECTOR - 1 :
          a = (SECTOR * q) + r /\ q = a \div SECTOR /\ r = a % SECTOR
    BY <1>1, Division
  <1>3. PICK b \in Int : BANK = SECTOR * b
    <2>1. PICK c, z : c = BANK \div SECTOR /\ z = BANK % SECTOR
      OBVIOUS
    <2>4. BANK = (SECTOR * c) + z /\ c \in Int
      <3>1. BANK \in Int
        BY <1>1
      <3> QED
        BY <1>1, <2>1, <3>1, Division
    <2>2. z = 0
      <3>1. BANK % SECTOR = 0
        BY GeometryAssumption
      <3> QED
        BY <2>1, <3>1
    <2>3. BANK = SECTOR * c
      BY <1>1, <2>2, <2>4
    <2> QED
      BY <2>3, <2>4
  <1>4. SectorOf(a) = SECTOR * q
    BY <1>1, <1>2 DEF SectorOf
  <1>5. 2 * BANK = SECTOR * (2 * b) /\ 2 * b \in Int
    BY <1>1, <1>3
  <1>6. SECTOR * q < SECTOR * (2 * b)
    BY <1>1, <1>2, <1>5
  <1>7. (SECTOR * q) + SECTOR <= 2 * BANK
    BY <1>1, <1>2, <1>5, <1>6, Multiples
  <1>8. SECTOR * q \in Int /\ SECTOR * q >= 0
    BY <1>1, <1>2
  <1>9. (SECTOR * q) \div SECTOR = q /\ (SECTOR * q) % SECTOR = 0
    <2>1. SECTOR * q <= SECTOR * q /\ SECTOR * q < (SECTOR * q) + SECTOR
      BY <1>1, <1>8
    <2>2. (SECTOR * q) \div SECTOR = q /\ (SECTOR * q) % SECTOR = SECTOR * q - (SECTOR * q)
      BY <1>1, <1>2, <1>8, <2>1, Quotient
    <2> QED
      BY <1>8, <2>2
  <1> HIDE DEF SectorOf
  <1>10. PICK s \in Nat : s = SECTOR * q
    BY <1>8
  <1> QED
    BY <1>1, <1>2, <1>4, <1>7, <1>9, <1>10 DEF Addr

(* The addresses of a sector.                                              *)
LEMMA InSector ==
  ASSUME NEW a \in Addr, NEW x \in Nat
  PROVE  x \div SECTOR = a \div SECTOR <=> (SectorOf(a) <= x /\ x < SectorOf(a) + SECTOR)
  <1>1. SECTOR \in Nat /\ SECTOR > 0 /\ a \in Nat
    BY Geometry
  <1>2. PICK q \in Nat : q = a \div SECTOR /\ SectorOf(a) = SECTOR * q
    <2>1. a \div SECTOR \in Nat
      BY SectorFacts
    <2> QED
      BY <1>1, <2>1 DEF SectorOf
  <1>3. x \div SECTOR = q => SECTOR * q <= x /\ x < (SECTOR * q) + SECTOR
    <2>1. x = (SECTOR * (x \div SECTOR)) + (x % SECTOR) /\ x % SECTOR \in 0 .. SECTOR - 1
      BY <1>1, Division
    <2>2. PICK r \in 0 .. SECTOR - 1 : r = x % SECTOR
      BY <2>1
    <2> SUFFICES ASSUME x \div SECTOR = q
                 PROVE  SECTOR * q <= x /\ x < (SECTOR * q) + SECTOR
      OBVIOUS
    <2>3. x = (SECTOR * q) + r
      BY <2>1, <2>2
    <2> QED
      BY <1>1, <2>3
  <1>4. SECTOR * q <= x /\ x < (SECTOR * q) + SECTOR => x \div SECTOR = q
    BY <1>1, Quotient
  <1> QED
    BY <1>2, <1>3, <1>4

(* Where a sector or a page ends, the next one begins.                     *)
LEMMA NextMultiple ==
  ASSUME NEW a \in Nat, NEW n \in Nat, n > 0
  PROVE  (a + (n - (a % n))) % n = 0
  <1>1. PICK q, r : q = a \div n /\ r = a % n
    OBVIOUS
  <1>8. q \in Int /\ r \in 0 .. n - 1 /\ a = (n * q) + r
    <2>1. a \in Int
      OBVIOUS
    <2> QED
      BY <1>1, <2>1, Division
  <1>2. a + (n - r) = (n * q) + n
    BY <1>8
  <1>3. (n * q) + n = n * (q + 1) /\ q + 1 \in Int
    BY <1>8
  <1>4. PICK s \in Int : s = n * (q + 1)
    BY <1>3
  <1>5. s % n = s - n * (q + 1)
    <2>1. PICK y \in Int : y = q + 1
      BY <1>3
    <2>2. n * y <= s /\ s < (n * y) + n
      BY <1>4, <2>1
    <2>3. s % n = s - n * y
      BY <2>2, Quotient
    <2> QED
      BY <2>1, <2>3
  <1>6. a + (n - r) = s /\ s - n * (q + 1) = 0
    BY <1>2, <1>3, <1>4, <1>8
  <1>7. (a + (n - r)) % n = 0
    BY <1>5, <1>6
  <1> QED
    BY <1>1, <1>7

LEMMA SameSector ==
  ASSUME NEW x \in Addr, NEW k \in Nat, (x % SECTOR) + k < SECTOR
  PROVE  (x + k) \div SECTOR = x \div SECTOR /\ (x + k) % SECTOR = (x % SECTOR) + k
  <1>1. SECTOR \in Nat /\ SECTOR > 0 /\ x \in Nat
    BY Geometry
  <1>2. PICK q \in Int, r \in 0 .. SECTOR - 1 :
          x = (SECTOR * q) + r /\ r = x % SECTOR /\ q = x \div SECTOR
    BY <1>1, Division
  <1>3. SECTOR * q <= x + k /\ x + k < (SECTOR * q) + SECTOR
    BY <1>1, <1>2
  <1>4. (x + k) \div SECTOR = q /\ (x + k) % SECTOR = x + k - (SECTOR * q)
    BY <1>1, <1>3, Quotient
  <1> QED
    BY <1>1, <1>2, <1>4

LEMMA Cut ==
  ASSUME NEW S, NEW s \in Seq(S), NEW n \in 1 .. Len(s)
  PROVE  /\ SubSeq(s, 1, n) \in Seq(S) /\ Len(SubSeq(s, 1, n)) = n
         /\ \A i \in 1 .. n : SubSeq(s, 1, n)[i] = s[i]
         /\ SubSeq(s, n + 1, Len(s)) \in Seq(S)
         /\ Len(SubSeq(s, n + 1, Len(s))) = Len(s) - n
         /\ \A i \in 1 .. Len(s) - n : SubSeq(s, n + 1, Len(s))[i] = s[n + i]
  <1>1. PICK l \in Nat : l = Len(s)
    OBVIOUS
  <1>2. \A i \in 1 .. l : s[i] \in S
    BY <1>1, ElementOfSeq
  <1>3. /\ SubSeq(s, 1, n) \in Seq(S) /\ Len(SubSeq(s, 1, n)) = n
        /\ \A i \in 1 .. n : SubSeq(s, 1, n)[i] = s[i]
    <2>1. n \in Int /\ 1 \in Int /\ n >= 1 /\ \A i \in 1 .. n : s[i] \in S
      BY <1>1, <1>2
    <2>2. /\ SubSeq(s, 1, n) \in Seq(S) /\ Len(SubSeq(s, 1, n)) = IF 1 <= n THEN n - 1 + 1 ELSE 0
          /\ \A i \in 1 .. n - 1 + 1 : SubSeq(s, 1, n)[i] = s[1 + i - 1]
      BY <2>1, SubSeqProperties
    <2> QED
      BY <2>1, <2>2
  <1>4. PICK m \in Int : m = n + 1
    OBVIOUS
  <1>5. \A i \in m .. l : s[i] \in S
    BY <1>1, <1>2, <1>4
  <1>6. /\ SubSeq(s, m, l) \in Seq(S) /\ Len(SubSeq(s, m, l)) = IF m <= l THEN l - m + 1 ELSE 0
        /\ \A i \in 1 .. l - m + 1 : SubSeq(s, m, l)[i] = s[m + i - 1]
    BY <1>5, SubSeqProperties
  <1>7. (IF m <= l THEN l - m + 1 ELSE 0) = l - n /\ l - m + 1 = l - n
        /\ \A i \in 1 .. l - n : m + i - 1 = n + i
    BY <1>1, <1>4
  <1>8. \A i \in 1 .. l - n : SubSeq(s, m, l)[i] = s[n + i]
    BY <1>6, <1>7
  <1> QED
    BY <1>1, <1>3, <1>4, <1>6, <1>7, <1>8

-------------------------------------------------------------------------------
(* The write under way.                                                    *)
JobStates == [st : {"idle", "read", "erase", "pages"}, a : Addr, d : Seq(SUBSET Bits),
              buf : Seq(Byte), at : Addr, src : Seq(Byte)]

Requests == [a : Addr, d : Seq(SUBSET Bits), old : [Addr -> Byte], sound : BOOLEAN,
             open : {TRUE}]

InRequest(j, r) ==
    /\ r \in Requests /\ r.a <= j.a /\ j.d # << >>
    /\ j.a + Len(j.d) = r.a + Len(r.d) /\ r.a + Len(r.d) <= 2 * BANK

JobFine(j, r) ==
    /\ j \in JobStates
    /\ j.st = "idle" => j = Idle /\ r = None
    /\ j.st # "idle" => InRequest(j, r)
    /\ j.st = "erase" => j.buf \in [1 .. SECTOR -> Byte]
    /\ j.st = "pages" => /\ j.src # << >> /\ (j.at % SECTOR) + Len(j.src) <= SECTOR
                         /\ j.at \div SECTOR = j.a \div SECTOR

Underway == /\ JobFine(job, asked)
            /\ job.st # "idle" => res = -1
            /\ res \in {-1, 0, 1, 3, 4, 5}
            /\ misread \in BOOLEAN

LEMMA NotEmpty ==
  ASSUME NEW S, NEW s \in Seq(S)
  PROVE  Len(s) \in Nat /\ (s # << >> <=> Len(s) >= 1)
  <1>1. Len(s) \in Nat
    OBVIOUS
  <1> QED
    BY <1>1, EmptySeq

LEMMA AnySmaller ==
  ASSUME NEW x \in Int, NEW y \in Int
  PROVE  /\ Smaller(x, y) \in {x, y} /\ Smaller(x, y) <= x /\ Smaller(x, y) <= y
         /\ Smaller(x, y) # y => Smaller(x, y) = x
  BY DEF Smaller

LEMMA RemainFacts ==
  ASSUME Underway, job.st # "idle"
  PROVE  /\ Remain \in 1 .. Len(job.d) /\ (job.a % SECTOR) + Remain <= SECTOR
         /\ job.a % SECTOR \in 0 .. SECTOR - 1
         /\ Remain # Len(job.d) => Remain = SECTOR - (job.a % SECTOR)
         /\ job.a \in Addr /\ job.d \in Seq(SUBSET Bits) /\ Len(job.d) \in Nat
         /\ job.a + Len(job.d) <= 2 * BANK
  <1>1. /\ job.a \in Addr /\ job.d \in Seq(SUBSET Bits) /\ job.d # << >>
        /\ job.a + Len(job.d) <= 2 * BANK
    BY DEF Underway, JobFine, JobStates, InRequest
  <1>2. PICK l : l = Len(job.d) /\ l \in Nat /\ l >= 1
    <2>1. PICK s : s = job.d
      OBVIOUS
    <2>2. s \in Seq(SUBSET Bits) /\ s # << >>
      BY <1>1, <2>1
    <2>3. Len(s) \in Nat /\ Len(s) >= 1
      BY <2>2, NotEmpty
    <2> QED
      BY <2>1, <2>3
  <1>3. job.a \in Int /\ SECTOR \in Nat /\ SECTOR > 0
    <2>1. job.a \in Addr
      BY <1>1
    <2>2. job.a \in Nat
      BY <2>1, Geometry
    <2> QED
      BY <2>2, Geometry
  <1>4. PICK r \in 0 .. SECTOR - 1 : r = job.a % SECTOR
    BY <1>3, Division
  <1>5. PICK m : m = Remain
    OBVIOUS
  <1>6. m = Smaller(SECTOR - r, l)
    BY <1>2, <1>4, <1>5 DEF Remain
  <1>7. SECTOR - r \in Int /\ SECTOR - r >= 1
    BY <1>3, <1>4
  <1>8. /\ m \in {SECTOR - r, l} /\ m <= SECTOR - r /\ m <= l
        /\ m # l => m = SECTOR - r
    BY <1>2, <1>6, <1>7, AnySmaller
  <1>9. m \in 1 .. l /\ r + m <= SECTOR
    BY <1>2, <1>3, <1>4, <1>7, <1>8
  <1> QED
    BY <1>1, <1>2, <1>4, <1>5, <1>8, <1>9

LEMMA PageRemainFacts ==
  ASSUME Underway, job.st = "pages"
  PROVE  /\ PageRemain \in 1 .. Len(job.src) /\ (job.at % PAGE) + PageRemain <= PAGE
         /\ job.at % PAGE \in 0 .. PAGE - 1 /\ job.at % SECTOR \in 0 .. SECTOR - 1
         /\ PageRemain # Len(job.src) => PageRemain = PAGE - (job.at % PAGE)
         /\ job.at \in Addr /\ job.src \in Seq(Byte) /\ Len(job.src) \in Nat
         /\ (job.at % SECTOR) + Len(job.src) <= SECTOR
  <1>1. /\ job.at \in Addr /\ job.src \in Seq(Byte) /\ job.src # << >>
        /\ (job.at % SECTOR) + Len(job.src) <= SECTOR
    BY DEF Underway, JobFine, JobStates
  <1>2. PICK l : l = Len(job.src) /\ l \in Nat /\ l >= 1
    <2>1. PICK s : s = job.src
      OBVIOUS
    <2>2. s \in Seq(Byte) /\ s # << >>
      BY <1>1, <2>1
    <2>3. Len(s) \in Nat /\ Len(s) >= 1
      BY <2>2, NotEmpty
    <2> QED
      BY <2>1, <2>3
  <1>3. job.at \in Int /\ PAGE \in Nat /\ PAGE > 0 /\ SECTOR \in Nat /\ SECTOR > 0
    <2>1. job.at \in Addr
      BY <1>1
    <2>2. job.at \in Nat
      BY <2>1, Geometry
    <2> QED
      BY <2>2, Geometry
  <1>4. PICK r \in 0 .. PAGE - 1 : r = job.at % PAGE
    BY <1>3, Division
  <1>5. job.at % SECTOR \in 0 .. SECTOR - 1
    BY <1>3, Division
  <1>6. PICK m : m = PageRemain
    OBVIOUS
  <1>7. m = Smaller(PAGE - r, l)
    BY <1>2, <1>4, <1>6 DEF PageRemain
  <1>8. PAGE - r \in Int /\ PAGE - r >= 1
    BY <1>3, <1>4
  <1>9. /\ m \in {PAGE - r, l} /\ m <= PAGE - r /\ m <= l
        /\ m # l => m = PAGE - r
    BY <1>2, <1>7, <1>8, AnySmaller
  <1>10. m \in 1 .. l /\ r + m <= PAGE
    BY <1>2, <1>3, <1>4, <1>8, <1>9
  <1> QED
    BY <1>1, <1>2, <1>4, <1>5, <1>6, <1>9, <1>10

LEMMA BytesOfBits ==
  ASSUME NEW s \in Seq(SUBSET Bits)
  PROVE  s \in Seq(Byte)
  BY DEF Byte

LEMMA BecomesPages ==
  ASSUME Underway, job.st = "read"
  PROVE  JobFine(Program(job.a, SubSeq(job.d, 1, Remain)), asked)
  <1>1. PICK s : s = SubSeq(job.d, 1, Remain)
    OBVIOUS
  <1>2. PICK j : j = Program(job.a, s)
    OBVIOUS
  <1>3. /\ s \in Seq(SUBSET Bits) /\ Len(s) = Remain
    BY <1>1, RemainFacts, Cut
  <1>4. s \in Seq(Byte) /\ s # << >>
    BY <1>3, RemainFacts, BytesOfBits, EmptySeq
  <1>5. job \in JobStates /\ InRequest(job, asked)
    BY DEF Underway, JobFine
  <1>6. /\ j \in JobStates /\ j.st = "pages" /\ j.a = job.a /\ j.d = job.d
        /\ j.at = job.a /\ j.src = s
    BY <1>2, <1>4, <1>5 DEF Program, JobStates
  <1>7. InRequest(j, asked)
    BY <1>5, <1>6 DEF InRequest
  <1>8. (j.at % SECTOR) + Len(j.src) <= SECTOR /\ j.src # << >>
    BY <1>3, <1>4, <1>6, RemainFacts
  <1>9. JobFine(j, asked)
    BY <1>6, <1>7, <1>8 DEF JobFine
  <1> QED
    BY <1>1, <1>2, <1>9

LEMMA BecomesErase ==
  ASSUME Underway, job.st = "read", NEW buf \in [1 .. SECTOR -> Byte]
  PROVE  JobFine([job EXCEPT !.st = "erase", !.buf = buf], asked)
  <1>1. PICK j : j = [job EXCEPT !.st = "erase", !.buf = buf]
    OBVIOUS
  <1>2. job \in JobStates /\ InRequest(job, asked)
    BY DEF Underway, JobFine
  <1>3. buf \in Seq(Byte)
    BY Geometry
  <1>4. /\ j \in JobStates /\ j.st = "erase" /\ j.a = job.a /\ j.d = job.d /\ j.buf = buf
    BY <1>1, <1>2, <1>3 DEF JobStates
  <1>5. InRequest(j, asked)
    BY <1>2, <1>4 DEF InRequest
  <1>6. JobFine(j, asked)
    BY <1>4, <1>5 DEF JobFine
  <1> QED
    BY <1>1, <1>6

LEMMA MergedType ==
  ASSUME Underway, job.st = "erase"
  PROVE  Merged \in Seq(Byte) /\ Len(Merged) = SECTOR /\ Merged \in [1 .. SECTOR -> Byte]
  <1>1. job.buf \in [1 .. SECTOR -> Byte] /\ SECTOR \in Nat
    BY Geometry DEF Underway, JobFine
  <1>2. ASSUME NEW i \in 1 .. SECTOR, i - (job.a % SECTOR) \in 1 .. Remain
        PROVE  job.d[i - (job.a % SECTOR)] \in Byte
    <2>1. job.d \in Seq(Byte) /\ Remain \in 1 .. Len(job.d) /\ Len(job.d) \in Nat
      BY RemainFacts, BytesOfBits
    <2>2. i - (job.a % SECTOR) \in 1 .. Len(job.d)
      BY <1>2, <2>1
    <2> QED
      BY <2>1, <2>2, ElementOfSeq
  <1>3. Merged \in [1 .. SECTOR -> Byte]
    BY <1>1, <1>2 DEF Merged
  <1>4. Merged \in Seq(Byte) /\ Len(Merged) = SECTOR
    <2>1. PICK m : m = Merged
      OBVIOUS
    <2>2. m \in [1 .. SECTOR -> Byte]
      BY <1>3, <2>1
    <2>3. m \in Seq(Byte) /\ Len(m) = SECTOR
      BY <1>1, <2>2
    <2> QED
      BY <2>1, <2>3
  <1> QED
    BY <1>3, <1>4

LEMMA RewritesSector ==
  ASSUME Underway, job.st = "erase"
  PROVE  JobFine([Program(SectorOf(job.a), Merged) EXCEPT !.buf = << >>], asked)
  <1>1. PICK s : s = Merged
    OBVIOUS
  <1>2. PICK j : j = [Program(SectorOf(job.a), s) EXCEPT !.buf = << >>]
    OBVIOUS
  <1>3. s \in Seq(Byte) /\ Len(s) = SECTOR /\ SECTOR \in Nat /\ SECTOR > 0
    BY <1>1, MergedType, Geometry
  <1>4. s # << >>
    BY <1>3, EmptySeq
  <1>5. job \in JobStates /\ InRequest(job, asked)
    BY DEF Underway, JobFine
  <1>6. /\ SectorOf(job.a) \in Addr /\ SectorOf(job.a) % SECTOR = 0
        /\ SectorOf(job.a) \div SECTOR = job.a \div SECTOR
    BY <1>5, SectorFacts DEF JobStates
  <1>7. << >> \in Seq(Byte)
    BY EmptySeq
  <1>8. /\ j \in JobStates /\ j.st = "pages" /\ j.a = job.a /\ j.d = job.d
        /\ j.at = SectorOf(job.a) /\ j.src = s
    BY <1>2, <1>3, <1>5, <1>6, <1>7 DEF Program, JobStates
  <1>9. InRequest(j, asked)
    BY <1>5, <1>8 DEF InRequest
  <1>10. (j.at % SECTOR) + Len(j.src) <= SECTOR /\ j.src # << >>
    BY <1>3, <1>4, <1>6, <1>8
  <1>11. JobFine(j, asked)
    BY <1>6, <1>8, <1>9, <1>10 DEF JobFine
  <1> QED
    BY <1>1, <1>2, <1>11

LEMMA NextPage ==
  ASSUME Underway, job.st = "pages", Len(job.src) # PageRemain
  PROVE  JobFine(Program(job.at + PageRemain,
                         SubSeq(job.src, PageRemain + 1, Len(job.src))), asked)
  <1>1. PICK m, l, x : m = PageRemain /\ l = Len(job.src) /\ x = job.at
    OBVIOUS
  <1>2. /\ l \in Nat /\ m \in 1 .. l /\ m # l /\ x \in Addr
        /\ job.src \in Seq(Byte) /\ (x % SECTOR) + l <= SECTOR /\ x % SECTOR \in 0 .. SECTOR - 1
    BY <1>1, RemainFacts, PageRemainFacts
  <1>3. PICK s : s = SubSeq(job.src, m + 1, l)
    OBVIOUS
  <1>4. s \in Seq(Byte) /\ Len(s) = l - m
    BY <1>1, <1>2, <1>3, Cut
  <1>5. s # << >>
    BY <1>2, <1>4, EmptySeq
  <1>6. SECTOR \in Nat /\ SECTOR > 0 /\ x \in Nat /\ BANK \in Nat
    BY <1>2, Geometry
  <1>7. PICK r \in 0 .. SECTOR - 1 : r = x % SECTOR
    BY <1>2
  <1>8. (x % SECTOR) + m < SECTOR /\ m \in Nat
    BY <1>2, <1>6, <1>7
  <1>9. (x + m) \div SECTOR = x \div SECTOR /\ (x + m) % SECTOR = r + m
    BY <1>2, <1>7, <1>8, SameSector
  <1>10. x + m \in Addr
    <2>1. /\ SectorOf(x) \in Nat /\ SectorOf(x) + SECTOR <= 2 * BANK
          /\ r = x - SectorOf(x)
      BY <1>2, <1>7, SectorFacts
    <2>2. x + m < 2 * BANK
      BY <1>6, <1>7, <1>8, <2>1
    <2> QED
      BY <1>6, <1>8, <2>2 DEF Addr
  <1>11. job \in JobStates /\ InRequest(job, asked) /\ x \div SECTOR = job.a \div SECTOR
    BY <1>1 DEF Underway, JobFine
  <1>12. PICK j : j = Program(x + m, s)
    OBVIOUS
  <1>13. /\ j \in JobStates /\ j.st = "pages" /\ j.a = job.a /\ j.d = job.d
         /\ j.at = x + m /\ j.src = s
    BY <1>4, <1>10, <1>11, <1>12 DEF Program, JobStates
  <1>14. InRequest(j, asked)
    BY <1>11, <1>13 DEF InRequest
  <1>15. (j.at % SECTOR) + Len(j.src) <= SECTOR
    BY <1>2, <1>4, <1>6, <1>7, <1>9, <1>13
  <1>16. JobFine(j, asked)
    BY <1>5, <1>9, <1>11, <1>13, <1>14, <1>15 DEF JobFine
  <1> QED
    BY <1>1, <1>3, <1>12, <1>16

LEMMA IdleFine == JobFine(Idle, None) /\ Idle \in JobStates
  <1>1. << >> \in Seq(SUBSET Bits) /\ << >> \in Seq(Byte)
    BY EmptySeq
  <1>2. Idle \in JobStates /\ Idle.st = "idle"
    BY <1>1, Geometry DEF Idle, JobStates
  <1> QED
    BY <1>2 DEF JobFine

LEMMA NextSector ==
  ASSUME Underway, job.st = "pages", Len(job.d) # Remain
  PROVE  JobFine([Idle EXCEPT !.st = "read", !.a = job.a + Remain,
                              !.d = SubSeq(job.d, Remain + 1, Len(job.d))], asked)
  <1>1. PICK m, l, x : m = Remain /\ l = Len(job.d) /\ x = job.a
    OBVIOUS
  <1>2. /\ l \in Nat /\ m \in 1 .. l /\ m # l /\ x \in Addr
        /\ job.d \in Seq(SUBSET Bits) /\ x + l <= 2 * BANK
    BY <1>1, RemainFacts
  <1>3. PICK s : s = SubSeq(job.d, m + 1, l)
    OBVIOUS
  <1>4. s \in Seq(SUBSET Bits) /\ Len(s) = l - m
    BY <1>1, <1>2, <1>3, Cut
  <1>5. s # << >>
    BY <1>2, <1>4, EmptySeq
  <1>6. x \in Nat /\ BANK \in Nat
    BY <1>2, Geometry
  <1>7. x + m \in Addr
    BY <1>2, <1>6 DEF Addr
  <1>8. PICK j : j = [Idle EXCEPT !.st = "read", !.a = x + m, !.d = s]
    OBVIOUS
  <1>9. /\ j \in JobStates /\ j.st = "read" /\ j.a = x + m /\ j.d = s
    BY <1>4, <1>7, <1>8, IdleFine DEF JobStates, Idle
  <1>10. InRequest(job, asked)
    BY DEF Underway, JobFine
  <1>11. /\ asked \in Requests /\ asked.a <= x /\ x + l = asked.a + Len(asked.d)
         /\ asked.a + Len(asked.d) <= 2 * BANK
    BY <1>1, <1>10 DEF InRequest
  <1>12. asked.a \in Nat
    <2>1. asked.a \in Addr
      BY <1>11 DEF Requests
    <2> QED
      BY <2>1, Geometry
  <1>13. asked.a <= j.a /\ j.a + Len(j.d) = asked.a + Len(asked.d)
    <2>1. (x + m) + (l - m) = x + l
      BY <1>2, <1>6
    <2>2. asked.a <= x + m
      BY <1>2, <1>6, <1>11, <1>12
    <2> QED
      BY <1>4, <1>9, <1>11, <2>1, <2>2
  <1>14. InRequest(j, asked)
    BY <1>5, <1>9, <1>11, <1>13 DEF InRequest
  <1>15. JobFine(j, asked)
    BY <1>9, <1>14 DEF JobFine
  <1> QED
    BY <1>1, <1>3, <1>8, <1>15

LEMMA BeginFine ==
  ASSUME Known, NEW a \in Addr, NEW d \in Seq(SUBSET Bits), d # << >>,
         a + Len(d) <= 2 * BANK, NEW b \in BOOLEAN
  PROVE  JobFine([Idle EXCEPT !.st = "read", !.a = a, !.d = d],
                 [a |-> a, d |-> d, old |-> mem, sound |-> b, open |-> TRUE])
  <1>1. PICK j, r : /\ j = [Idle EXCEPT !.st = "read", !.a = a, !.d = d]
                    /\ r = [a |-> a, d |-> d, old |-> mem, sound |-> b, open |-> TRUE]
    OBVIOUS
  <1>2. j \in JobStates /\ j.st = "read" /\ j.a = a /\ j.d = d
    BY <1>1, IdleFine DEF JobStates, Idle
  <1>3. mem \in [Addr -> Byte]
    BY DEF Known, Legal, State, Now
  <1>4. r \in Requests /\ r.a = a /\ r.d = d
    BY <1>1, <1>3 DEF Requests
  <1>5. a \in Nat
    BY Geometry
  <1>6. a <= a
    BY <1>5
  <1>7. InRequest(j, r)
    BY <1>2, <1>4, <1>6 DEF InRequest
  <1>8. JobFine(j, r)
    BY <1>2, <1>7 DEF JobFine
  <1> QED
    BY <1>1, <1>8

(* The command that a read ends with.                                      *)
LEMMA LastCommand ==
  ASSUME NEW k
  PROVE  LET cmds == AfterBank(k) IN
         /\ cmds[Len(cmds)] = k /\ cmds # << >>
         /\ ~ Banked => cmds = <<k>>
         /\ Banked => cmds = <<Cmd("wren"), Bank(k.a), k>>
  <1>1. CASE Banked
    <2>1. PICK w, b : w = Cmd("wren") /\ b = Bank(k.a)
      OBVIOUS
    <2>2. AfterBank(k) = <<w, b, k>>
      BY <1>1, <2>1 DEF AfterBank
    <2>3. Len(<<w, b, k>>) = 3 /\ <<w, b, k>>[3] = k /\ <<w, b, k>> # << >>
      OBVIOUS
    <2> QED
      BY <1>1, <2>1, <2>2, <2>3
  <1>2. CASE ~ Banked
    <2>1. AfterBank(k) = <<k>>
      BY <1>2 DEF AfterBank
    <2>2. Len(<<k>>) = 1 /\ <<k>>[1] = k /\ <<k>> # << >>
      OBVIOUS
    <2> QED
      BY <1>2, <2>1, <2>2
  <1> QED
    BY <1>1, <1>2

LEMMA AnswerType ==
  ASSUME NEW s \in State, board.large \in BOOLEAN, NEW k, k.a \in Addr, NEW n \in Nat,
         k.a + n <= 2 * BANK
  PROVE  Answer(s, k, n) \in [1 .. n -> Byte]
  <1>1. Torn \in Byte
    BY DEF Byte
  <1>2. ASSUME NEW i \in 1 .. n
        PROVE  s.mem[Place(board.large, s.chip, k.a + i - 1)] \in Byte
    <2>1. k.a \in Nat
      BY Geometry
    <2>2. PICK x : x = k.a + i - 1
      OBVIOUS
    <2>3. x \in Addr
      BY <1>2, <2>1, <2>2, Geometry DEF Addr
    <2>4. s.chip \in Chip /\ s.mem \in [Addr -> Byte]
      BY DEF State
    <2>5. Place(board.large, s.chip, x) \in Addr
      BY <2>3, <2>4, PlaceInside
    <2> QED
      BY <2>2, <2>4, <2>5
  <1> QED
    BY <1>1, <1>2 DEF Answer

LEMMA SectorRead ==
  ASSUME Known, Underway, job.st = "read", NEW o \in Outcomes(a_w25qxx_read(SectorOf(job.a))),
         o.ret = 0, NEW k,
         k = a_w25qxx_read(SectorOf(job.a)).cmds[Len(a_w25qxx_read(SectorOf(job.a)).cmds)]
  PROVE  /\ Addressable
         /\ k = CmdTo("fast", SectorOf(job.a), IF Quad THEN <<handle.dummy>> ELSE << >>)
         /\ k.a = SectorOf(job.a)
         /\ Answer([chip |-> o.chip, mem |-> o.mem], k, SECTOR) \in [1 .. SECTOR -> Byte]
  <1>1. PICK j : j = a_w25qxx_read(SectorOf(job.a))
    OBVIOUS
  <1>2. job.a \in Addr
    BY RemainFacts
  <1>3. Tame(j)
    BY <1>1, <1>2, SectorFacts, TameChanging
  <1>4. [chip |-> o.chip, mem |-> o.mem] \in Legal /\ o.ret \in {j.done, j.late, j.bus}
        /\ (~ o.ok => o.ret \in {j.late, j.bus}) /\ (o.ok => o.ret = j.done)
    <2>1. Sendable(j)
      BY <1>3 DEF Tame
    <2> QED
      BY <1>1, <2>1, OutcomeLegal DEF Known
  <1>5. Addressable
    <2> SUFFICES ASSUME ~ Addressable
                 PROVE  FALSE
      OBVIOUS
    <2>1. j = Refuse(1)
      BY <1>1 DEF a_w25qxx_read
    <2>2. j.done = 1 /\ j.bus = 1 /\ j.late = 0 /\ j.cmds = << >> /\ Len(j.cmds) = 0 /\ j.wait = FALSE
      BY <2>1 DEF Refuse, Send
    <2>3. o.ok
      <3>1. o = Result(Sent(j.cmds, Len(j.cmds)), j.done, TRUE)
        BY <1>1, <2>2, OutcomeCases
      <3> QED
        BY <3>1 DEF Result
    <2> QED
      BY <1>4, <2>2, <2>3
  <1>6. PICK c : c = CmdTo("fast", SectorOf(job.a), IF Quad THEN <<handle.dummy>> ELSE << >>)
    OBVIOUS
  <1>7. j = Send(AfterBank(c))
    BY <1>1, <1>5, <1>6 DEF a_w25qxx_read, ReadBy
  <1>8. j.cmds = AfterBank(c)
    BY <1>7 DEF Send
  <1>9. k = c
    BY <1>1, <1>8, LastCommand
  <1>10. c.a = SectorOf(job.a)
    BY <1>6 DEF CmdTo, Cmd
  <1>11. [chip |-> o.chip, mem |-> o.mem] \in State /\ board.large \in BOOLEAN
    BY <1>4, BoardType DEF Known, Legal
  <1>12. Answer([chip |-> o.chip, mem |-> o.mem], c, SECTOR) \in [1 .. SECTOR -> Byte]
    BY <1>2, <1>10, <1>11, SectorFacts, Geometry, AnswerType
  <1> QED
    BY <1>5, <1>6, <1>9, <1>10, <1>12

-------------------------------------------------------------------------------
(* What the steps of a write keep.                                         *)
LEMMA SameUnderway ==
  ASSUME JobFine(job', asked'), job'.st # "idle" => res' = -1, res' \in {-1, 0, 1, 3, 4, 5},
         misread' \in BOOLEAN
  PROVE  Underway'
  BY DEF Underway

LEMMA ReturnedFine ==
  ASSUME Underway, NEW code \in {0, 1, 3, 4, 5}, Returns(code), misread' = misread
  PROVE  Underway'
  <1>1. job' = Idle /\ asked' = None /\ res' = code
    BY DEF Returns
  <1>2. JobFine(job', asked')
    BY <1>1, IdleFine
  <1>3. job'.st = "idle"
    BY <1>1 DEF Idle
  <1>4. misread' \in BOOLEAN
    BY DEF Underway
  <1> QED
    BY <1>1, <1>2, <1>3, <1>4, SameUnderway

LEMMA GoneFine ==
  ASSUME Underway, NEW j, JobFine(j, asked), Goes(j), misread' = misread
  PROVE  Underway'
  <1>1. job' = j /\ asked' = asked /\ res' = -1
    BY DEF Goes
  <1>2. JobFine(job', asked')
    BY <1>1
  <1>3. misread' \in BOOLEAN
    BY DEF Underway
  <1> QED
    BY <1>1, <1>2, <1>3, SameUnderway

LEMMA RestFine ==
  ASSUME Underway, job.st = "idle", job' = job, asked' = asked, res' = -1, misread' \in BOOLEAN
  PROVE  Underway'
  <1>1. JobFine(job', asked')
    BY DEF Underway
  <1> QED
    BY <1>1, SameUnderway

LEMMA StepKnown ==
  ASSUME Known, NEW j, Tame(j), NEW o, Step(j, o)
  PROVE  Known' /\ misread' = misread
  <1>1. o \in Outcomes(j) /\ chip' = o.chip /\ mem' = o.mem /\ Keeps(o, trust)
        /\ UNCHANGED <<board, handle>> /\ misread' = misread
    BY DEF Step
  <1> QED
    BY <1>1, OutcomeKnown

LEMMA WriteReadKeeps ==
  ASSUME Known, Underway, WriteRead
  PROVE  Known' /\ Underway'
  <1>1. PICK j : j = a_w25qxx_read(SectorOf(job.a))
    OBVIOUS
  <1>2. job.st = "read" /\ job.a \in Addr
    BY RemainFacts DEF WriteRead
  <1>3. Tame(j)
    BY <1>1, <1>2, SectorFacts, TameChanging
  <1>4. PICK o \in Outcomes(j) :
          /\ Step(j, o)
          /\ IF o.ret # 0 THEN Returns(4)
             ELSE LET k == j.cmds[Len(j.cmds)]
                      buf == Answer([chip |-> o.chip, mem |-> o.mem], k, SECTOR) IN
                  \/ Goes(Program(job.a, SubSeq(job.d, 1, Remain)))
                  \/ Goes([job EXCEPT !.st = "erase", !.buf = buf])
    BY <1>1 DEF WriteRead
  <1>5. Known' /\ misread' = misread
    BY <1>3, <1>4, StepKnown
  <1>6. CASE o.ret # 0
    BY <1>4, <1>5, <1>6, ReturnedFine
  <1>7. CASE o.ret = 0 /\ Goes(Program(job.a, SubSeq(job.d, 1, Remain)))
    BY <1>2, <1>5, <1>7, GoneFine, BecomesPages
  <1>8. CASE o.ret = 0 /\ ~ Goes(Program(job.a, SubSeq(job.d, 1, Remain)))
    <2>1. PICK k, buf : /\ k = j.cmds[Len(j.cmds)]
                        /\ buf = Answer([chip |-> o.chip, mem |-> o.mem], k, SECTOR)
      OBVIOUS
    <2>2. buf \in [1 .. SECTOR -> Byte]
      BY <1>1, <1>2, <1>4, <1>8, <2>1, SectorRead
    <2>3. Goes([job EXCEPT !.st = "erase", !.buf = buf])
      BY <1>4, <1>8, <2>1
    <2> QED
      BY <1>2, <1>5, <2>2, <2>3, GoneFine, BecomesErase
  <1> QED
    BY <1>5, <1>6, <1>7, <1>8, <1>4

LEMMA WriteEraseKeeps ==
  ASSUME Known, Underway, WriteErase
  PROVE  Known' /\ Underway'
  <1>1. PICK j : j = a_w25qxx_erase_sector(SectorOf(job.a))
    OBVIOUS
  <1>2. job.st = "erase" /\ job.a \in Addr
    BY RemainFacts DEF WriteErase
  <1>3. Tame(j)
    BY <1>1, <1>2, SectorFacts, TameChanging
  <1>4. PICK o \in Outcomes(j) :
          /\ Step(j, o)
          /\ IF o.ret # 0 THEN Returns(5)
             ELSE Goes([Program(SectorOf(job.a), Merged) EXCEPT !.buf = << >>])
    BY <1>1 DEF WriteErase
  <1>5. Known' /\ misread' = misread
    BY <1>3, <1>4, StepKnown
  <1>6. CASE o.ret # 0
    BY <1>4, <1>5, <1>6, ReturnedFine
  <1>7. CASE o.ret = 0
    BY <1>2, <1>4, <1>5, <1>7, GoneFine, RewritesSector
  <1> QED
    BY <1>5, <1>6, <1>7

LEMMA SectorDoneKeeps ==
  ASSUME Underway, job.st = "pages", SectorDone, misread' = misread
  PROVE  Underway'
  <1>1. CASE Len(job.d) = Remain
    <2>1. Returns(0)
      BY <1>1 DEF SectorDone
    <2> QED
      BY <2>1, ReturnedFine
  <1>2. CASE Len(job.d) # Remain
    <2>1. Goes([Idle EXCEPT !.st = "read", !.a = job.a + Remain,
                            !.d = SubSeq(job.d, Remain + 1, Len(job.d))])
      BY <1>2 DEF SectorDone
    <2> QED
      BY <1>2, <2>1, GoneFine, NextSector
  <1> QED
    BY <1>1, <1>2

LEMMA WritePageKeeps ==
  ASSUME Known, Underway, WritePage
  PROVE  Known' /\ Underway'
  <1>1. PICK j, s : s = SubSeq(job.src, 1, PageRemain) /\ j = a_w25qxx_page_program(job.at, s)
    OBVIOUS
  <1>2. job.st = "pages" /\ job.at \in Addr /\ s \in Seq(Byte)
    <2>1. job.st = "pages"
      BY DEF WritePage
    <2> QED
      BY <1>1, <2>1, PageRemainFacts, Cut
  <1>3. Tame(j)
    BY <1>1, <1>2, TameChanging
  <1>4. PICK o \in Outcomes(j) :
          /\ Step(j, o)
          /\ IF o.ret # 0 THEN Returns(1)
             ELSE IF Len(job.src) = PageRemain THEN SectorDone
             ELSE Goes(Program(job.at + PageRemain,
                               SubSeq(job.src, PageRemain + 1, Len(job.src))))
    BY <1>1 DEF WritePage
  <1>5. Known' /\ misread' = misread
    BY <1>3, <1>4, StepKnown
  <1>6. CASE o.ret # 0
    BY <1>4, <1>5, <1>6, ReturnedFine
  <1>7. CASE o.ret = 0 /\ Len(job.src) = PageRemain
    BY <1>2, <1>4, <1>5, <1>7, SectorDoneKeeps
  <1>8. CASE o.ret = 0 /\ Len(job.src) # PageRemain
    BY <1>2, <1>4, <1>5, <1>8, GoneFine, NextPage
  <1> QED
    BY <1>5, <1>6, <1>7, <1>8

Rests == /\ job.st = "idle" /\ job' = job /\ asked' = asked /\ res' = -1

LEMMA StillKnown ==
  ASSUME Known, UNCHANGED <<board, handle, chip, mem, trust>>
  PROVE  Known'
  BY DEF Known, Now, Legal, InStep, Quad, Large, Three

LEMMA CallRests ==
  ASSUME NEW j, NEW h, NEW t, CallWith(j, h, t)
  PROVE  Rests /\ misread' = misread
  BY DEF CallWith, Rests

LEMMA JustCallRests ==
  ASSUME NEW j, Call(j)
  PROVE  Rests /\ misread' = misread
  BY CallRests DEF Call

LEMMA ConfigureRests ==
  ASSUME NEW h, Configure(h)
  PROVE  Rests /\ misread' = misread
  BY DEF Configure, Rests

LEMMA ConfiguringRests ==
  ASSUME Configuring
  PROVE  Rests /\ misread' = misread
  <1>1. CASE \E b \in BOOLEAN : w25qxx_set_dual_quad_spi(b)
    BY <1>1, ConfigureRests DEF w25qxx_set_dual_quad_spi
  <1>2. CASE \E t \in {"small", "large"} : w25qxx_set_type(t)
    BY <1>2, ConfigureRests DEF w25qxx_set_type
  <1>3. CASE \E i \in {"SPI", "QSPI"} : w25qxx_set_interface(i)
    BY <1>3, ConfigureRests DEF w25qxx_set_interface
  <1>4. CASE \E t \in {"small", "large"}, i \in {"SPI", "QSPI"}, b \in BOOLEAN :
               w25qxx_advance_init(t, i, b)
    BY <1>4, ConfigureRests DEF w25qxx_advance_init
  <1>5. CASE w25qxx_init
    BY <1>5 DEF w25qxx_init, Rests
  <1>6. CASE w25qxx_deinit
    BY <1>6, CallRests DEF w25qxx_deinit
  <1> QED
    BY <1>1, <1>2, <1>3, <1>4, <1>5, <1>6 DEF Configuring

LEMMA ModesRest ==
  ASSUME Modes
  PROVE  Rests /\ misread' = misread
  <1>1. CASE \E m \in {3, 4} : SetAddressMode(m)
    BY <1>1, CallRests DEF SetAddressMode
  <1>2. CASE \E d \in {2, 8} : SetReadParameters(d)
    BY <1>2 DEF SetReadParameters, Rests
  <1>3. CASE EnterQspi \/ ExitQspi
    BY <1>3, CallRests DEF EnterQspi, ExitQspi
  <1>4. CASE PowerDown \/ ReleasePowerDown
    BY <1>4, CallRests DEF PowerDown, ReleasePowerDown
  <1>5. CASE Call(w25qxx_enable_reset) \/ Call(w25qxx_erase_program_suspend)
    BY <1>5, JustCallRests
  <1>6. CASE ResetDevice \/ w25qxx_advance_reset \/ Resume
    BY <1>6, CallRests DEF ResetDevice, w25qxx_advance_reset, Resume
  <1>7. CASE \E op \in {"down", "wren"} : WriteReadReg(op)
    BY <1>7, CallRests DEF WriteReadReg
  <1> QED
    BY <1>1, <1>2, <1>3, <1>4, <1>5, <1>6, <1>7 DEF Modes

LEMMA ModesKnown ==
  ASSUME Known, Modes
  PROVE  Known'
  <1>1. CASE \E m \in {3, 4} : SetAddressMode(m)
    BY <1>1, AddressModeKnown
  <1>2. CASE \E d \in {2, 8} : SetReadParameters(d)
    BY <1>2, ReadParametersKnown
  <1>3. CASE EnterQspi \/ ExitQspi \/ (\E op \in {"down", "wren"} : WriteReadReg(op))
    BY <1>3, LostCallsKnown
  <1>4. CASE PowerDown
    BY <1>4, PowerDownKnown
  <1>5. CASE ReleasePowerDown
    BY <1>5, ReleaseKnown
  <1>6. CASE Call(w25qxx_enable_reset) \/ Call(w25qxx_erase_program_suspend)
    BY <1>6, TameProtecting, CallKnown
  <1>7. CASE ResetDevice \/ w25qxx_advance_reset
    BY <1>7, ResetKnown
  <1>8. CASE Resume
    BY <1>8, ResumeKnown
  <1> QED
    BY <1>1, <1>2, <1>3, <1>4, <1>5, <1>6, <1>7, <1>8 DEF Modes

LEMMA AskingKeeps ==
  ASSUME Known, Asking
  PROVE  Known' /\ Rests /\ misread' = misread
  <1>1. \A a \in Places : a \in Addr
    BY CallsAssumption
  <1>2. \E j : Tame(j) /\ Call(j)
    BY <1>1, TameAsking, Zenon DEF Asking
  <1> QED
    BY <1>2, CallKnown, JustCallRests

LEMMA ProtectingKeeps ==
  ASSUME Known, Protecting
  PROVE  Known' /\ Rests /\ misread' = misread
  <1>1. \A a \in Places : a \in Addr
    BY CallsAssumption
  <1>2. \E j : Tame(j) /\ Call(j)
    BY <1>1, TameProtecting, Zenon DEF Protecting
  <1> QED
    BY <1>2, CallKnown, JustCallRests

LEMMA ChangingKeeps ==
  ASSUME Known, Changing
  PROVE  Known' /\ Rests /\ misread' = misread
  <1>1. \A a \in Places : a \in Addr
    BY CallsAssumption
  <1>2. \A p \in Pages : p[1] \in Addr /\ p[2] \in Seq(Byte)
    BY CallsAssumption, BytesOfBits
  <1>3. \E j : Tame(j) /\ Call(j)
    BY <1>1, <1>2, TameChanging, Zenon DEF Changing
  <1> QED
    BY <1>3, CallKnown, JustCallRests

LEMMA ReadingKeeps ==
  ASSUME Known, Underway, Reading
  PROVE  Known' /\ Rests /\ misread' \in BOOLEAN
  <1>1. \A a \in Places : a \in Addr
    BY CallsAssumption
  <1>2. \E j, n : Tame(j) /\ Read(j, n)
    BY <1>1, TameReading, Zenon DEF Reading
  <1>3. PICK j, n : Tame(j) /\ Read(j, n)
    BY <1>2
  <1>4. Known'
    BY <1>3, ReadKnown
  <1>5. Rests /\ misread' \in BOOLEAN
    BY <1>3 DEF Read, Rests
  <1> QED
    BY <1>4, <1>5

LEMMA BeginKeeps ==
  ASSUME Known, Underway, NEW w \in Writes, WriteBegin(w[1], w[2])
  PROVE  Known' /\ Underway'
  <1>1. PICK a, d : a = w[1] /\ d = w[2]
    OBVIOUS
  <1>2. a \in Addr /\ d \in Seq(SUBSET Bits) /\ d # << >> /\ a + Len(d) <= 2 * BANK
    BY <1>1, CallsAssumption
  <1>3. UNCHANGED <<board, handle, chip, mem, trust>> /\ misread' = misread
    BY DEF WriteBegin
  <1>4. Known'
    BY <1>3, StillKnown
  <1>5. CASE ~ handle.inited
    <2>1. Returns(3)
      BY <1>5 DEF WriteBegin
    <2> QED
      BY <1>3, <1>4, <2>1, ReturnedFine
  <1>6. CASE handle.inited
    <2>1. PICK b : b = Sound(a, d) /\ b \in BOOLEAN
      BY DEF Sound
    <2>2. /\ job' = [Idle EXCEPT !.st = "read", !.a = a, !.d = d]
          /\ asked' = [a |-> a, d |-> d, old |-> mem, sound |-> b, open |-> TRUE]
          /\ res' = -1
      BY <1>1, <1>6, <2>1 DEF WriteBegin
    <2>3. JobFine(job', asked')
      BY <1>2, <2>1, <2>2, BeginFine
    <2>4. misread' \in BOOLEAN
      BY <1>3 DEF Underway
    <2>5. Underway'
      BY <2>2, <2>3, <2>4, SameUnderway
    <2> QED
      BY <1>4, <2>5
  <1> QED
    BY <1>5, <1>6

LEMMA RestartKeeps ==
  ASSUME Known, Underway, NEW s \in Legal, Restart(s)
  PROVE  Known' /\ Underway' /\ misread' = misread
  <1>1. /\ chip' = s.chip /\ mem' = s.mem /\ handle' = Zeroed /\ trust' = "lost"
        /\ board' = board /\ misread' = misread
    BY DEF Restart
  <1>2. Zeroed \in Handles
    BY DEF Zeroed, Handles
  <1>3. Now' \in Legal'
    <2>1. s.chip = chip' /\ s.mem = mem' /\ s = [chip |-> s.chip, mem |-> s.mem]
      BY <1>1 DEF Legal, State
    <2>2. Now' = s
      BY <2>1 DEF Now
    <2>3. Legal' = Legal
      BY <1>1 DEF Legal
    <2> QED
      BY <2>2, <2>3
  <1>4. Known'
    BY <1>1, <1>2, <1>3 DEF Known, InStep
  <1>5. CASE job.st = "idle"
    <2>1. job' = job /\ asked' = asked /\ res' = -1
      BY <1>5 DEF Restart
    <2>2. misread' \in BOOLEAN
      BY <1>1 DEF Underway
    <2> QED
      BY <1>1, <1>4, <1>5, <2>1, <2>2, RestFine
  <1>6. CASE job.st # "idle"
    <2>1. Returns(1)
      BY <1>6 DEF Restart
    <2> QED
      BY <1>1, <1>4, <2>1, ReturnedFine
  <1> QED
    BY <1>5, <1>6

LEMMA FreshType ==
  ASSUME board \in Boards
  PROVE  Fresh(board.fab) \in Chip
  BY DEF Boards, Fresh, Chip

LEMMA FaultsKeep ==
  ASSUME Known, Underway, Faults
  PROVE  Known' /\ Underway' /\ misread' = misread
  <1>1. chip \in Chip /\ mem \in [Addr -> Byte] /\ Now \in Legal /\ board \in Boards
        /\ (chip.four => board.large)
    BY DEF Known, Legal, State, Now
  <1>2. CASE ChipEnds
    <2>1. /\ chip.busy /\ chip' = Ended(chip) /\ UNCHANGED <<board, handle, mem, trust>>
          /\ UNCHANGED <<job, res, misread, asked>>
      BY <1>2 DEF ChipEnds
    <2>2. trust = "lost"
      BY <2>1 DEF Known, InStep
    <2>3. chip' \in Chip
      BY <1>1, <2>1, RegisterTypes
    <2>4. chip'.four = chip.four /\ chip'.work = {}
      BY <1>1, <2>1 DEF Ended, Chip
    <2>5. Now' \in Legal'
      BY <1>1, <2>1, <2>3, <2>4 DEF Now, Legal, State
    <2>6. Known'
      BY <2>1, <2>2, <2>5 DEF Known, InStep
    <2>7. Underway'
      BY <2>1 DEF Underway
    <2> QED
      BY <2>1, <2>6, <2>7
  <1>3. CASE PowerFails
    <2>1. PICK s : s = PowerLost(board.fab, Now)
      OBVIOUS
    <2>2. s.chip = Fresh(board.fab) /\ s.mem = TornIn(mem, chip.work)
          /\ s = [chip |-> s.chip, mem |-> s.mem]
      BY <2>1 DEF PowerLost, Now
    <2>3. s.chip \in Chip /\ s.mem \in [Addr -> Byte]
      BY <1>1, <2>2, FreshType, MemoryTypes
    <2>4. ~ s.chip.four /\ s.chip.work = {}
      BY <2>2 DEF Fresh
    <2>5. s \in Legal
      BY <2>2, <2>3, <2>4 DEF Legal, State
    <2>6. Restart(s)
      BY <1>3, <2>1 DEF PowerFails, Now
    <2> QED
      BY <2>5, <2>6, RestartKeeps
  <1>4. CASE McuResets
    <2>1. Restart(Now)
      BY <1>4 DEF McuResets, Now
    <2> QED
      BY <1>1, <2>1, RestartKeeps
  <1> QED
    BY <1>2, <1>3, <1>4 DEF Faults

-------------------------------------------------------------------------------
(* What a read delivers.                                                   *)
LEMMA BankHeard ==
  ASSUME NEW large, NEW fab, NEW s \in State, NEW k, Understands(s.chip, k),
         NEW t, t = Hears(large, fab, s, k).chip
  PROVE  /\ k.op = "wren" => t.wel
         /\ k.op = "extaddr" /\ s.chip.wel => t.ext = k.a \div BANK
         /\ k.op \in UnlessWrapped => t.ext = s.chip.ext
  <1>1. s.chip \in Chip
    BY DEF State
  <1>2. PICK c, u : c = s.chip /\ u = [c EXCEPT !.armed = FALSE]
    OBVIOUS
  <1>3. t = Obeyed(large, fab, s, k).chip
    BY DEF Hears
  <1>7. u = [s.chip EXCEPT !.armed = FALSE] /\ u \in Chip /\ u.ext = c.ext /\ (u.wel <=> c.wel)
    BY <1>1, <1>2 DEF Chip
  <1>8. k.op = "wren" => t = [u EXCEPT !.wel = TRUE]
    BY <1>3, <1>7, Zenon DEF Obeyed, Erasing, Programming
  <1>9. k.op = "extaddr" /\ u.wel => t = [u EXCEPT !.ext = k.a \div BANK, !.wel = FALSE]
    BY <1>3, <1>7, Zenon DEF Obeyed, Erasing, Programming
  <1>4. k.op = "wren" => t.wel
    BY <1>7, <1>8 DEF Chip
  <1>5. k.op = "extaddr" /\ c.wel => t.ext = k.a \div BANK
    BY <1>7, <1>9 DEF Chip
  <1>6. ASSUME k.op \in UnlessWrapped
        PROVE  t.ext = c.ext
    <2>1. t = u
      BY <1>2, <1>3, <1>6, Zenon DEF Obeyed, UnlessWrapped, Erasing, Programming
    <2> QED
      BY <1>1, <1>2, <2>1 DEF Chip
  <1> QED
    BY <1>2, <1>4, <1>5, <1>6

(* Addresses that lie in one bank.                                         *)
LEMMA SameBank ==
  ASSUME NEW a \in Addr, NEW n \in Nat, n > 0, a \div BANK = (a + n - 1) \div BANK,
         NEW i \in 1 .. n
  PROVE  (a + i - 1) \div BANK = a \div BANK
  <1>1. BANK \in Nat /\ BANK > 0 /\ a \in Int
    BY Geometry
  <1>2. PICK q \in Int, r \in 0 .. BANK - 1 : a = (BANK * q) + r /\ q = a \div BANK
    BY <1>1, Division
  <1>3. PICK b \in Int : b = a + n - 1
    BY <1>1
  <1>4. PICK z \in 0 .. BANK - 1 : b = (BANK * q) + z
    <2>1. b = BANK * (b \div BANK) + (b % BANK) /\ (b % BANK) \in 0 .. BANK - 1
      BY <1>1, <1>3, Division
    <2>2. b \div BANK = q
      BY <1>2, <1>3
    <2> QED
      BY <2>1, <2>2
  <1>5. PICK x \in Int : x = a + i - 1
    BY <1>1
  <1>6. BANK * q <= x /\ x < (BANK * q) + BANK
    BY <1>1, <1>2, <1>3, <1>4, <1>5
  <1>7. x \div BANK = q
    BY <1>1, <1>6, Quotient
  <1> QED
    BY <1>2, <1>5, <1>7

LEMMA ReadUnderstood ==
  ASSUME Known, trust = "in", NEW c, Alike(c, chip), ~ c.busy, NEW k,
         k.lines = IF Quad THEN 4 ELSE 1, k.four <=> ~ Three
  PROVE  Understands(c, k)
  <1>1. /\ chip.qpi <=> Quad
        /\ chip.four <=> ~ Three
        /\ ~ chip.down
    BY DEF Known, InStep
  <1> QED
    BY <1>1 DEF Understands, Alike

LEMMA ReadsRight ==
  ASSUME Known, trust = "in", NEW op \in UnlessWrapped, NEW a \in Addr,
         NEW n \in Nat, n > 0, Fits(a, n), NEW k,
         k = CmdTo(op, a, IF Quad THEN <<handle.dummy>> ELSE << >>),
         NEW s, s = Sent(AfterBank(k), Len(AfterBank(k)))
  PROVE  Answer(s, k, n) = Wanted(a, n)
  <1>1. PICK w, b : w = Cmd("wren") /\ b = Bank(a)
    OBVIOUS
  <1>2. /\ k.op = op /\ k.a = a /\ k.addressed = TRUE
        /\ k.lines = (IF Quad THEN 4 ELSE 1) /\ (k.four <=> ~ Three)
        /\ k.d = IF Quad THEN <<handle.dummy>> ELSE << >>
    BY DEF CmdTo, Cmd
  <1>3. /\ w.op = "wren" /\ w.lines = (IF Quad THEN 4 ELSE 1) /\ w.addressed = FALSE
        /\ b.op = "extaddr" /\ b.lines = (IF Quad THEN 4 ELSE 1) /\ b.addressed = FALSE
        /\ b.a = a
    BY <1>1 DEF Bank, Cmd
  <1>4. Simple(k) /\ Simple(w) /\ Simple(b)
    <2>1. Simple(k)
      BY AddressedCommand DEF UnlessWrapped, Special, Modal, Programming
    <2>2. Simple(w) /\ Simple(b)
      BY <1>1, PlainCommand, BankCommand DEF Special, Modal, Programming
    <2> QED
      BY <2>1, <2>2
  <1>5. PICK cmds : cmds = AfterBank(k)
    OBVIOUS
  <1>6. PICK j : j = Send(cmds)
    OBVIOUS
  <1>7. j.cmds = cmds /\ j.wait = FALSE
    BY <1>6 DEF Send
  <1>8. Tame(j)
    <2>1. op \notin Special \cup Starting
      BY DEF UnlessWrapped, Special, Modal, Starting, Erasing, Programming
    <2> QED
      BY <1>5, <1>6, <2>1, TameAfterBank
  <1>9. InStep /\ ~ chip.busy /\ board \in Boards /\ Now \in State
    BY DEF Known, InStep, Legal
  <1>10. \A i \in 0 .. Len(cmds) : /\ Sent(cmds, i) \in State
                                   /\ Alike(Sent(cmds, i).chip, chip)
                                   /\ ~ Sent(cmds, i).chip.busy
    BY <1>7, <1>8, <1>9, TameKeeps, TameReady
  <1>11. \A i \in 1 .. 3 : Sent(cmds, i) = Hears(board.large, board.fab, Sent(cmds, i - 1), cmds[i])
    BY SentSteps DEF MaxSent
  <1>12. Sent(cmds, 0) = Now
    BY SentSteps DEF Now
  <1>13. s.mem = mem
    <2>1. k.op \notin Altering /\ w.op \notin Altering /\ b.op \notin Altering
      BY <1>2, <1>3 DEF UnlessWrapped, Altering, Erasing, Programming
    <2>2. CASE ~ Banked
      <3>1. cmds = <<k>> /\ Len(cmds) = 1 /\ cmds[1] = k
        BY <1>5, <2>2, LastCommand
      <3>2. Sent(cmds, 1) = Hears(board.large, board.fab, Now, k)
        BY <1>11, <1>12, <3>1
      <3> QED
        BY <1>5, <2>1, <3>1, <3>2, MemoryKept DEF Now
    <2>3. CASE Banked
      <3>1. cmds = <<w, b, k>>
        BY <1>1, <1>2, <1>5, <2>3, LastCommand
      <3>2. Len(cmds) = 3 /\ cmds[1] = w /\ cmds[2] = b /\ cmds[3] = k
        BY <3>1
      <3>3. /\ Sent(cmds, 1) = Hears(board.large, board.fab, Now, w)
            /\ Sent(cmds, 2) = Hears(board.large, board.fab, Sent(cmds, 1), b)
            /\ Sent(cmds, 3) = Hears(board.large, board.fab, Sent(cmds, 2), k)
        BY <1>11, <1>12, <3>2
      <3>4. Sent(cmds, 1).mem = mem /\ Sent(cmds, 2).mem = Sent(cmds, 1).mem
            /\ Sent(cmds, 3).mem = Sent(cmds, 2).mem
        BY <2>1, <3>3, MemoryKept DEF Now
      <3> QED
        BY <1>5, <3>2, <3>4
    <2> QED
      BY <2>2, <2>3
  <1>14. Len(cmds) \in 0 .. Len(cmds)
    BY <1>7, <1>8 DEF Tame, Sendable
  <1>15. s \in State /\ Alike(s.chip, chip) /\ ~ s.chip.busy
    BY <1>5, <1>10, <1>14
  <1>16. Understands(s.chip, k)
    BY <1>2, <1>15, ReadUnderstood
  <1>17. k.d # << >> => k.d[1] = s.chip.dummy
    <2>1. CASE Quad
      <3>1. k.d[1] = handle.dummy /\ chip.dummy = handle.dummy
        BY <1>2, <1>9, <2>1 DEF InStep
      <3> QED
        BY <1>15, <3>1 DEF Alike
    <2>2. CASE ~ Quad
      BY <1>2, <2>2
    <2> QED
      BY <2>1, <2>2
  <1>18. Banked => s.chip.ext = a \div BANK
    <2> SUFFICES ASSUME Banked
                 PROVE  s.chip.ext = a \div BANK
      OBVIOUS
    <2>1. cmds = <<w, b, k>>
      BY <1>1, <1>2, <1>5, LastCommand
    <2>2. Len(cmds) = 3 /\ cmds[1] = w /\ cmds[2] = b /\ cmds[3] = k
      BY <2>1
    <2>3. /\ Sent(cmds, 1) = Hears(board.large, board.fab, Now, w)
          /\ Sent(cmds, 2) = Hears(board.large, board.fab, Sent(cmds, 1), b)
          /\ Sent(cmds, 3) = Hears(board.large, board.fab, Sent(cmds, 2), k)
      BY <1>11, <1>12, <2>2
    <2>4. PICK s1, s2, s3 : s1 = Sent(cmds, 1) /\ s2 = Sent(cmds, 2) /\ s3 = Sent(cmds, 3)
      OBVIOUS
    <2>5. /\ s1 \in State /\ Alike(s1.chip, chip) /\ ~ s1.chip.busy
          /\ s2 \in State /\ Alike(s2.chip, chip) /\ ~ s2.chip.busy
      BY <1>10, <2>2, <2>4
    <2>6. Understands(chip, w) /\ Understands(s1.chip, b) /\ Understands(s2.chip, k)
      <3>1. Understands(chip, w)
        BY <1>3, UnderstoodInStep
      <3>2. Understands(chip, b)
        BY <1>3, UnderstoodInStep
      <3>3. Understands(s1.chip, b)
        BY <1>3, <2>5, <3>2 DEF Understands, Alike
      <3> QED
        BY <1>2, <2>5, <3>1, <3>3, ReadUnderstood
    <2>7. Now.chip = chip
      BY DEF Now
    <2>8. s1.chip.wel
      BY <1>3, <1>9, <2>3, <2>4, <2>6, <2>7, BankHeard
    <2>9. s2.chip.ext = a \div BANK
      BY <1>3, <2>3, <2>4, <2>5, <2>6, <2>8, BankHeard
    <2>10. s3.chip.ext = s2.chip.ext
      BY <1>2, <2>3, <2>4, <2>5, <2>6, BankHeard
    <2> QED
      BY <1>5, <2>2, <2>4, <2>9, <2>10
  <1>19. ASSUME NEW i \in 1 .. n
         PROVE  Place(board.large, s.chip, a + i - 1) = a + i - 1
    <2>1. PICK x : x = a + i - 1
      OBVIOUS
    <2>2. a \in Nat /\ BANK \in Nat /\ BANK > 0
      BY Geometry
    <2>3. x \in Addr /\ x \in Nat
      BY <1>19, <2>1, <2>2 DEF Fits, Capacity, Addr
    <2>4. s.chip \in Chip /\ board.large \in BOOLEAN
      BY <1>15, BoardType DEF State, Known
    <2>5. CASE ~ Three
      <3>1. s.chip.four
        BY <1>9, <1>15, <2>5 DEF InStep, Alike
      <3> QED
        BY <2>1, <2>3, <2>4, <3>1, PlaceInside
    <2>6. CASE Three /\ ~ board.large
      <3>1. x < BANK
        BY <1>19, <2>1, <2>2, <2>6 DEF Fits, Capacity
      <3> QED
        BY <2>1, <2>3, <2>4, <2>6, <3>1, PlaceInside
    <2>7. CASE Three /\ board.large
      <3>1. Banked
        BY <1>9, <2>7 DEF InStep, Banked
      <3>2. x \div BANK = a \div BANK
        BY <1>19, <2>1, <2>7, SameBank DEF Fits
      <3>3. s.chip.ext = x \div BANK
        BY <1>18, <3>1, <3>2
      <3> QED
        BY <2>1, <2>3, <2>4, <2>7, <3>3, PlaceInside
    <2> QED
      BY <2>5, <2>6, <2>7
  <1>20. Answer(s, k, n) = [i \in 1 .. n |-> mem[Place(board.large, s.chip, a + i - 1)]]
    BY <1>2, <1>13, <1>16, <1>17, Zenon DEF Answer
  <1> QED
    BY <1>19, <1>20 DEF Wanted

(* Every function that reads sends one read command, or nothing.           *)
Asks(j, a) ==
    \/ j.cmds = << >>
    \/ \E op :
          j = Send(AfterBank(CmdTo(op, a, IF Quad THEN <<handle.dummy>> ELSE << >>)))

LEMMA AsksBy ==
  ASSUME NEW op, NEW a
  PROVE  /\ Asks(ReadBy(op, a), a)
         /\ Asks(Checked(ReadBy(op, a)), a)
         /\ Asks(ReadBySPI(op, a), a)
         /\ Asks(ReadByDual(op, a), a)
         /\ Asks(Checked(IF ~Quad /\ ~handle.dual THEN Refuse(6) ELSE ReadBy(op, a)), a)
  <1>1. \A code : Asks(Refuse(code), a)
    BY DEF Refuse, Send, Asks
  <1>2. PICK j : j = ReadBy(op, a)
    OBVIOUS
  <1>3. Asks(j, a)
    <2>1. CASE Addressable
      <3>1. j = Send(AfterBank(CmdTo(op, a, IF Quad THEN <<handle.dummy>> ELSE << >>)))
        BY <1>2, <2>1 DEF ReadBy
      <3> QED
        BY <3>1 DEF Asks
    <2>2. CASE ~ Addressable
      <3>1. j = Refuse(4)
        BY <1>2, <2>2 DEF ReadBy
      <3> QED
        BY <1>1, <3>1
    <2> QED
      BY <2>1, <2>2
  <1> QED
    BY <1>1, <1>2, <1>3, Zenon DEF Checked, ReadBySPI, ReadByDual

LEMMA ReadingAsks ==
  ASSUME NEW a
  PROVE  /\ Asks(w25qxx_read(a), a) /\ Asks(w25qxx_only_spi_read(a), a)
         /\ Asks(w25qxx_fast_read(a), a) /\ Asks(w25qxx_fast_read_dual_output(a), a)
         /\ Asks(w25qxx_fast_read_quad_output(a), a) /\ Asks(w25qxx_fast_read_dual_io(a), a)
         /\ Asks(w25qxx_fast_read_quad_io(a), a) /\ Asks(w25qxx_word_read_quad_io(a), a)
         /\ Asks(w25qxx_octal_word_read_quad_io(a), a)
  BY AsksBy, Zenon
       DEF w25qxx_read, w25qxx_only_spi_read, w25qxx_fast_read,
           w25qxx_fast_read_dual_output, w25qxx_fast_read_quad_output,
           w25qxx_fast_read_dual_io, w25qxx_fast_read_quad_io,
           w25qxx_word_read_quad_io, w25qxx_octal_word_read_quad_io

LEMMA NeverMisreads ==
  ASSUME Known, NEW a \in Addr, NEW n \in Nat, n > 0, NEW j, Tame(j), Asks(j, a), j.cmds # << >>,
         NEW o \in Outcomes(j)
  PROVE  ~ Misreads(o, j, n)
  <1> SUFFICES ASSUME Misreads(o, j, n)
               PROVE  FALSE
    OBVIOUS
  <1>1. PICK op : j = Send(AfterBank(CmdTo(op, a, IF Quad THEN <<handle.dummy>> ELSE << >>)))
    BY DEF Asks
  <1>2. PICK k : k = CmdTo(op, a, IF Quad THEN <<handle.dummy>> ELSE << >>)
    OBVIOUS
  <1>3. j.cmds = AfterBank(k) /\ j.wait = FALSE
    BY <1>1, <1>2 DEF Send
  <1>4. k.a = a /\ k.op = op
    BY <1>2 DEF CmdTo, Cmd
  <1>5. j.cmds[Len(j.cmds)] = k
    BY <1>3, LastCommand
  <1>6. /\ o.ok /\ trust = "in" /\ Fits(a, n) /\ op \in UnlessWrapped
        /\ Answer([chip |-> o.chip, mem |-> o.mem], k, n) # Wanted(a, n)
    BY <1>4, <1>5 DEF Misreads
  <1>7. PICK s : s = Sent(AfterBank(k), Len(AfterBank(k)))
    OBVIOUS
  <1>8. Answer(s, k, n) = Wanted(a, n)
    BY <1>2, <1>6, <1>7, ReadsRight
  <1>9. o = Result(s, j.done, TRUE)
    <2>1. Len(j.cmds) \in Nat
      BY DEF Tame, Sendable
    <2> QED
      BY <1>3, <1>6, <1>7, <2>1, OutcomeCases DEF Result
  <1>10. s \in State
    <2>1. Len(j.cmds) \in 0 .. Len(j.cmds)
      BY DEF Tame, Sendable
    <2> QED
      BY <1>3, <1>7, <2>1, TameKeeps
  <1>11. [chip |-> o.chip, mem |-> o.mem] = s
    BY <1>9, <1>10 DEF Result, State
  <1> QED
    BY <1>6, <1>8, <1>11

LEMMA ReadRight ==
  ASSUME Known, ~ misread, NEW a \in Addr, NEW n \in Nat, n > 0, NEW j, Tame(j), Asks(j, a),
         Read(j, n)
  PROVE  ~ misread'
  <1>1. PICK o \in Outcomes(j) : misread' = (misread \/ (j.cmds # << >> /\ Misreads(o, j, n)))
    BY DEF Read
  <1>2. j.cmds # << >> => ~ Misreads(o, j, n)
    BY NeverMisreads
  <1> QED
    BY <1>1, <1>2

LEMMA ReadingRight ==
  ASSUME Known, ~ misread, Reading
  PROVE  ~ misread'
  <1>1. \A x \in Places : x \in Addr
    BY CallsAssumption
  <1>2. \A x \in Sizes : x \in Nat /\ x > 0
    BY CallsAssumption
  <1>3. PICK a \in Places, n \in Sizes :
          \E j : Tame(j) /\ Asks(j, a) /\ Read(j, n)
    BY <1>1, TameReading, ReadingAsks, Zenon DEF Reading
  <1>4. PICK j : Tame(j) /\ Asks(j, a) /\ Read(j, n)
    BY <1>3
  <1> QED
    BY <1>1, <1>2, <1>3, <1>4, ReadRight

-------------------------------------------------------------------------------
(* The inductive invariant.                                                *)
IInv == Known /\ Underway /\ NeverMisread

LEMMA InitIInv == Init => IInv
  <1> SUFFICES ASSUME Init
               PROVE  IInv
    OBVIOUS
  <1>1. board \in Boards /\ handle = Zeroed /\ chip = Fresh(board.fab)
        /\ mem \in [Addr -> {Erased, {}}] /\ job = Idle /\ res = -1
        /\ trust = "lost" /\ misread = FALSE /\ asked = None
    BY DEF Init
  <1>2. mem \in [Addr -> Byte]
    <2>1. {Erased, {}} \subseteq Byte
      BY DEF Byte, Erased
    <2> QED
      BY <1>1, <2>1
  <1>3. chip \in Chip /\ ~ chip.four /\ chip.work = {}
    BY <1>1, FreshType DEF Fresh
  <1>4. Now \in Legal
    BY <1>2, <1>3 DEF Now, Legal, State
  <1>5. handle \in Handles
    BY <1>1 DEF Zeroed, Handles
  <1>6. Known
    BY <1>1, <1>4, <1>5 DEF Known, InStep
  <1>7. JobFine(job, asked) /\ job.st = "idle"
    BY <1>1, IdleFine DEF Idle
  <1>8. Underway
    BY <1>1, <1>7 DEF Underway
  <1> QED
    BY <1>1, <1>6, <1>8 DEF IInv, NeverMisread

LEMMA NextIInv == IInv /\ [Next]_vars => IInv'
  <1> SUFFICES ASSUME IInv, [Next]_vars
               PROVE  IInv'
    OBVIOUS
  <1>1. Known /\ Underway /\ ~ misread
    BY DEF IInv, NeverMisread
  <1>2. ASSUME Rests, misread' = misread
        PROVE  Underway' /\ NeverMisread'
    <2>1. misread' \in BOOLEAN
      BY <1>1, <1>2 DEF Underway
    <2> QED
      BY <1>1, <1>2, <2>1, RestFine DEF Rests, NeverMisread
  <1>3. CASE Configuring
    <2>1. Known'
      <3>1. CASE w25qxx_init
        BY <1>1, <3>1, InitKnown
      <3>2. CASE w25qxx_deinit
        BY <1>1, <3>2, LostCallsKnown
      <3> QED
        BY <1>1, <1>3, <3>1, <3>2, ConfiguringKnown DEF Configuring
    <2> QED
      BY <1>2, <1>3, <2>1, ConfiguringRests DEF IInv
  <1>4. CASE Modes
    BY <1>1, <1>2, <1>4, ModesKnown, ModesRest DEF IInv
  <1>5. CASE Asking
    BY <1>1, <1>2, <1>5, AskingKeeps DEF IInv
  <1>6. CASE Protecting
    BY <1>1, <1>2, <1>6, ProtectingKeeps DEF IInv
  <1>7. CASE Reading
    <2>1. Known' /\ Rests /\ misread' \in BOOLEAN /\ ~ misread'
      BY <1>1, <1>7, ReadingKeeps, ReadingRight
    <2>2. Underway'
      BY <1>1, <2>1, RestFine DEF Rests
    <2> QED
      BY <2>1, <2>2 DEF IInv, NeverMisread
  <1>8. CASE Changing
    BY <1>1, <1>2, <1>8, ChangingKeeps DEF IInv
  <1>9. CASE \E w \in Writes : WriteBegin(w[1], w[2])
    <2>1. misread' = misread
      BY <1>9 DEF WriteBegin
    <2>2. Known' /\ Underway'
      BY <1>1, <1>9, BeginKeeps
    <2> QED
      BY <1>1, <2>1, <2>2 DEF IInv, NeverMisread
  <1>10. CASE Continuing
    <2>1. Known' /\ Underway'
      BY <1>1, <1>10, WriteReadKeeps, WriteEraseKeeps, WritePageKeeps DEF Continuing
    <2>2. misread' = misread
      BY <1>10 DEF Continuing, WriteRead, WriteErase, WritePage, Step
    <2> QED
      BY <1>1, <2>1, <2>2 DEF IInv, NeverMisread
  <1>11. CASE Faults
    BY <1>1, <1>11, FaultsKeep DEF IInv, NeverMisread
  <1>12. CASE UNCHANGED vars
    <2>1. Known'
      BY <1>1, <1>12, StillKnown DEF vars
    <2>2. Underway' /\ NeverMisread'
      BY <1>1, <1>12 DEF vars, Underway, NeverMisread
    <2> QED
      BY <2>1, <2>2 DEF IInv
  <1> QED
    BY <1>3, <1>4, <1>5, <1>6, <1>7, <1>8, <1>9, <1>10, <1>11, <1>12 DEF Next, Writing

(* The inductive invariant holds in every reachable state of the driver.   *)
THEOREM Invariance == Spec => []IInv
  BY InitIInv, NextIInv, PTL DEF Spec

LEMMA IInvTypeOK == IInv => TypeOK
  <1> SUFFICES ASSUME IInv
               PROVE  TypeOK
    OBVIOUS
  <1>1. /\ board \in Boards /\ handle \in Handles /\ chip \in Chip /\ mem \in [Addr -> Byte]
        /\ trust \in {"in", "asleep", "lost"}
    BY DEF IInv, Known, Legal, State, Now
  <1>2. /\ JobFine(job, asked) /\ res \in {-1, 0, 1, 3, 4, 5} /\ misread \in BOOLEAN
    BY DEF IInv, Underway
  <1>3. job.st \in {"idle", "read", "erase", "pages"}
    BY <1>2 DEF JobFine, JobStates
  <1>4. job.st # "idle" => /\ asked.open /\ asked.a <= job.a
                           /\ job.a + Len(job.d) = asked.a + Len(asked.d) /\ job.d # << >>
    BY <1>2 DEF JobFine, InRequest, Requests
  <1>5. job.st = "pages" => job.src # << >> /\ (job.at % SECTOR) + Len(job.src) <= SECTOR
    BY <1>2 DEF JobFine
  <1>6. job.st = "idle" => job = Idle /\ asked = None
    BY <1>2 DEF JobFine
  <1> QED
    BY <1>1, <1>2, <1>3, <1>4, <1>5, <1>6 DEF TypeOK, Handles

(* No function takes the handle, the chip or a write under way out of what *)
(* they may be.                                                            *)
THEOREM TypeCorrect == Spec => []TypeOK
  BY Invariance, IInvTypeOK, PTL

(* As long as the calls return as they should, and none of the few is made *)
(* that move the chip alone, the handle says how to speak to the chip.     *)
THEOREM StaysInStep == Spec => []InStep
  <1>1. IInv => InStep
    BY DEF IInv, Known
  <1> QED
    BY <1>1, Invariance, PTL

(* In step, no read function delivers anything but what the array holds,   *)
(* whatever the interface, the length of an address and the bank.          *)
THEOREM ReadsWhatIsThere == Spec => []NeverMisread
  <1>1. IInv => NeverMisread
    BY DEF IInv
  <1> QED
    BY <1>1, Invariance, PTL

-------------------------------------------------------------------------------
(* How far a write has come: what the request asks for is in the array up  *)
(* to y, and what was there before from y on.                              *)
Cells(r) == { x \in Addr : x \div SECTOR \in
                (r.a \div SECTOR) .. ((r.a + Len(r.d) - 1) \div SECTOR) }

Written(r, y) == [x \in Addr |-> IF r.a <= x /\ x < y THEN r.d[x - r.a + 1] ELSE r.old[x]]

SectorEnd(j) == j.a + Smaller(SECTOR - (j.a % SECTOR), Len(j.d))

Safe(r, c) == /\ ~ c.susp /\ ~ Protects(c, Cells(r)) /\ r.a + Len(r.d) <= Capacity
              /\ \A x \in Cells(r) : r.old[x] # Torn

OnCourse(j, r, m) ==
    /\ \A i \in 1 .. Len(j.d) : j.d[i] = r.d[(j.a - r.a) + i]
    /\ j.st \in {"read", "erase"} => m = Written(r, j.a)
    /\ j.st = "erase" => \A i \in 1 .. SECTOR : j.buf[i] = m[SectorOf(j.a) + i - 1]
    /\ j.st = "pages" =>
        /\ m = [x \in Addr |-> IF j.at <= x /\ x < j.at + Len(j.src) THEN Erased
                               ELSE Written(r, SectorEnd(j))[x]]
        /\ \A i \in 1 .. Len(j.src) : j.src[i] = Written(r, SectorEnd(j))[j.at + i - 1]

Faithful == job.st # "idle" /\ asked.sound =>
                trust = "in" /\ Safe(asked, chip) /\ OnCourse(job, asked, mem)

(* The numbers of a write under way.                                       *)
LEMMA WriteNumbers ==
  ASSUME Underway, job.st # "idle"
  PROVE  /\ asked.a \in Nat /\ asked.a \in Addr /\ job.a \in Nat /\ job.a \in Addr
         /\ Len(asked.d) \in Nat
         /\ Len(job.d) \in Nat /\ Remain \in 1 .. Len(job.d)
         /\ asked.a <= job.a /\ job.a + Len(job.d) = asked.a + Len(asked.d)
         /\ job.a + Len(job.d) <= 2 * BANK
         /\ SectorOf(job.a) \in Nat /\ SectorOf(job.a) \in Addr
         /\ SectorOf(job.a) <= job.a
         /\ job.a % SECTOR = job.a - SectorOf(job.a)
         /\ job.a + Remain <= SectorOf(job.a) + SECTOR
         /\ SectorOf(job.a) + SECTOR <= 2 * BANK
         /\ SectorEnd(job) = job.a + Remain
         /\ asked.d \in Seq(SUBSET Bits) /\ asked.old \in [Addr -> Byte]
  <1>1. InRequest(job, asked)
    BY DEF Underway, JobFine
  <1>2. /\ asked.a \in Addr /\ asked.d \in Seq(SUBSET Bits) /\ asked.old \in [Addr -> Byte]
        /\ asked.a <= job.a /\ job.a + Len(job.d) = asked.a + Len(asked.d)
    BY <1>1 DEF InRequest, Requests
  <1>3. /\ Remain \in 1 .. Len(job.d) /\ (job.a % SECTOR) + Remain <= SECTOR
        /\ job.a \in Addr /\ Len(job.d) \in Nat /\ job.a + Len(job.d) <= 2 * BANK
    BY RemainFacts
  <1>4. /\ SectorOf(job.a) \in Addr /\ SectorOf(job.a) \in Nat /\ job.a \in Nat
        /\ SectorOf(job.a) <= job.a /\ SectorOf(job.a) + SECTOR <= 2 * BANK
        /\ job.a % SECTOR = job.a - SectorOf(job.a)
    BY <1>3, SectorFacts
  <1>5. PICK y, s, m, l : y = job.a /\ s = SectorOf(job.a) /\ m = Remain /\ l = Len(job.d)
    OBVIOUS
  <1>6. y \in Nat /\ s \in Nat /\ l \in Nat /\ m \in 1 .. l /\ (y - s) + m <= SECTOR
    BY <1>3, <1>4, <1>5
  <1>7. SECTOR \in Nat
    BY Geometry
  <1>8. y + m <= s + SECTOR
    BY <1>6, <1>7
  <1>9. SectorEnd(job) = job.a + Remain
    BY DEF SectorEnd, Remain
  <1>10. asked.a \in Nat
    BY <1>2, Geometry
  <1>11. Len(asked.d) \in Nat
    <2>1. PICK d : d = asked.d
      OBVIOUS
    <2>2. d \in Seq(SUBSET Bits)
      BY <1>2, <2>1
    <2>3. Len(d) \in Nat
      BY <2>2
    <2> QED
      BY <2>1, <2>3
  <1> QED
    BY <1>2, <1>3, <1>4, <1>5, <1>8, <1>9, <1>10, <1>11

(* One byte of it.                                                         *)
LEMMA WrittenAt ==
  ASSUME NEW r, NEW y, NEW x \in Addr
  PROVE  /\ r.a <= x /\ x < y => Written(r, y)[x] = r.d[x - r.a + 1]
         /\ ~ (r.a <= x /\ x < y) => Written(r, y)[x] = r.old[x]
  BY DEF Written

LEMMA WrittenType ==
  ASSUME Underway, job.st # "idle", NEW y \in Nat, y <= asked.a + Len(asked.d)
  PROVE  Written(asked, y) \in [Addr -> Byte]
  <1>1. PICK a, d, l : a = asked.a /\ d = asked.d /\ l = Len(d)
    OBVIOUS
  <1>2. a \in Nat /\ l \in Nat /\ y <= a + l /\ d \in Seq(Byte) /\ asked.old \in [Addr -> Byte]
    BY <1>1, WriteNumbers, BytesOfBits
  <1>3. ASSUME NEW x \in Addr, a <= x, x < y
        PROVE  d[x - a + 1] \in Byte
    <2>1. x \in Nat
      BY Geometry
    <2>2. x - a + 1 \in 1 .. l
      BY <1>2, <1>3, <2>1
    <2> QED
      BY <1>1, <1>2, <2>2, ElementOfSeq
  <1> QED
    BY <1>1, <1>2, <1>3 DEF Written

(* The array when the bytes from y to e, of the sector, have been written. *)
LEMMA WrittenOn ==
  ASSUME NEW r, NEW y \in Nat, NEW e \in Nat, r.a \in Nat, r.a <= y, y <= e,
         NEW x \in Addr, ~ (y <= x /\ x < e)
  PROVE  Written(r, e)[x] = Written(r, y)[x]
  <1>1. x \in Nat
    BY Geometry
  <1>2. (r.a <= x /\ x < e) <=> (r.a <= x /\ x < y)
    BY <1>1
  <1>3. PICK b : b = (r.a <= x /\ x < e)
    OBVIOUS
  <1> QED
    BY <1>2, WrittenAt

(* What is left of the request, byte by byte.                              *)
LEMMA LeftOver ==
  ASSUME Underway, job.st # "idle", OnCourse(job, asked, mem), NEW i \in 1 .. Remain
  PROVE  /\ job.d[i] = Written(asked, SectorEnd(job))[job.a + i - 1]
         /\ job.a + i - 1 \in Addr
  <1>1. PICK a, y, m, l : a = asked.a /\ y = job.a /\ m = Remain /\ l = Len(job.d)
    OBVIOUS
  <1>2. /\ a \in Nat /\ y \in Nat /\ l \in Nat /\ m \in 1 .. l /\ a <= y /\ y + l <= 2 * BANK
        /\ BANK \in Nat /\ SectorEnd(job) = y + m
    BY <1>1, WriteNumbers, Geometry
  <1>3. i \in 1 .. l /\ i \in 1 .. m
    BY <1>1, <1>2
  <1>4. PICK x \in Nat : x = y + i - 1
    BY <1>2, <1>3
  <1>5. x \in Addr /\ a <= x /\ x < y + m
    BY <1>2, <1>3, <1>4 DEF Addr
  <1>6. job.d[i] = asked.d[(y - a) + i]
    BY <1>1, <1>3 DEF OnCourse
  <1>7. x - a + 1 = (y - a) + i
    BY <1>2, <1>3, <1>4
  <1>8. Written(asked, y + m)[x] = asked.d[x - a + 1]
    BY <1>1, <1>5, WrittenAt
  <1> QED
    BY <1>1, <1>2, <1>4, <1>5, <1>6, <1>7, <1>8

LEMMA CourseToPages ==
  ASSUME Underway, job.st = "read", OnCourse(job, asked, mem),
         \A i \in 1 .. Remain : mem[job.a + i - 1] = Erased
  PROVE  OnCourse(Program(job.a, SubSeq(job.d, 1, Remain)), asked, mem)
  <1>1. PICK a, y, m, l : a = asked.a /\ y = job.a /\ m = Remain /\ l = Len(job.d)
    OBVIOUS
  <1>2. /\ a \in Nat /\ y \in Nat /\ l \in Nat /\ m \in 1 .. l /\ a <= y
        /\ SectorEnd(job) = y + m
    BY <1>1, WriteNumbers
  <1>3. PICK s : s = SubSeq(job.d, 1, m)
    OBVIOUS
  <1>4. Len(s) = m /\ \A i \in 1 .. m : s[i] = job.d[i]
    BY <1>1, <1>2, <1>3, RemainFacts, Cut
  <1>5. PICK j : j = Program(y, s)
    OBVIOUS
  <1>6. job \in JobStates
    BY DEF Underway, JobFine
  <1>7. j.st = "pages" /\ j.a = y /\ j.d = job.d /\ j.at = y /\ j.src = s
    BY <1>1, <1>5, <1>6 DEF Program, JobStates
  <1>8. SectorEnd(j) = y + m
    BY <1>1, <1>2, <1>7 DEF SectorEnd
  <1>9. mem = Written(asked, y)
    BY <1>1 DEF OnCourse
  <1>10. ASSUME NEW x \in Addr
         PROVE  mem[x] = IF y <= x /\ x < y + m THEN Erased ELSE Written(asked, y + m)[x]
    <2>1. x \in Nat
      BY Geometry
    <2>2. CASE y <= x /\ x < y + m
      <3>1. x - y + 1 \in 1 .. m /\ y + (x - y + 1) - 1 = x
        BY <1>2, <2>1, <2>2
      <3> QED
        BY <1>1, <2>2, <3>1
    <2>3. CASE ~ (y <= x /\ x < y + m)
      <3>1. y + m \in Nat /\ y <= y + m
        BY <1>2
      <3>2. Written(asked, y + m)[x] = Written(asked, y)[x]
        BY <1>1, <1>2, <2>3, <3>1, WrittenOn
      <3> QED
        BY <1>9, <2>3, <3>2
    <2> QED
      BY <2>2, <2>3
  <1>11. mem = [x \in Addr |-> IF y <= x /\ x < y + m THEN Erased ELSE Written(asked, y + m)[x]]
    <2>1. mem = [x \in Addr |-> mem[x]]
      BY <1>9 DEF Written
    <2> QED
      BY <1>10, <2>1
  <1>12. \A i \in 1 .. Len(s) : s[i] = Written(asked, y + m)[y + i - 1]
    BY <1>1, <1>2, <1>4, LeftOver
  <1>13. \A i \in 1 .. Len(j.d) : j.d[i] = asked.d[(j.a - asked.a) + i]
    BY <1>1, <1>7 DEF OnCourse
  <1>14. OnCourse(j, asked, mem)
    BY <1>4, <1>7, <1>8, <1>11, <1>12, <1>13 DEF OnCourse
  <1> QED
    BY <1>1, <1>3, <1>5, <1>14

LEMMA CourseToErase ==
  ASSUME Underway, job.st = "read", OnCourse(job, asked, mem), NEW buf,
         \A i \in 1 .. SECTOR : buf[i] = mem[SectorOf(job.a) + i - 1]
  PROVE  OnCourse([job EXCEPT !.st = "erase", !.buf = buf], asked, mem)
  <1>1. PICK j : j = [job EXCEPT !.st = "erase", !.buf = buf]
    OBVIOUS
  <1>2. job \in JobStates
    BY DEF Underway, JobFine
  <1>3. j.st = "erase" /\ j.a = job.a /\ j.d = job.d /\ j.buf = buf
    BY <1>1, <1>2 DEF JobStates
  <1>4. OnCourse(j, asked, mem)
    BY <1>3 DEF OnCourse
  <1> QED
    BY <1>1, <1>4

LEMMA CourseToRewrite ==
  ASSUME Underway, job.st = "erase", OnCourse(job, asked, mem), NEW m2,
         m2 = ErasedIn(mem, Aligned(SECTOR, SectorOf(job.a)))
  PROVE  OnCourse([Program(SectorOf(job.a), Merged) EXCEPT !.buf = << >>], asked, m2)
  <1>1. PICK a, y, m, l, s : /\ a = asked.a /\ y = job.a /\ m = Remain /\ l = Len(job.d)
                             /\ s = SectorOf(job.a)
    OBVIOUS
  <1>2. /\ a \in Nat /\ y \in Nat /\ l \in Nat /\ m \in 1 .. l /\ a <= y /\ s \in Nat /\ s \in Addr
        /\ s <= y /\ y + m <= s + SECTOR /\ y % SECTOR = y - s /\ SectorEnd(job) = y + m
        /\ SECTOR \in Nat /\ SECTOR > 0 /\ s + SECTOR <= 2 * BANK /\ BANK \in Nat
        /\ y \in Addr
    BY <1>1, WriteNumbers, Geometry
  <1>3. PICK src : src = Merged
    OBVIOUS
  <1>4. Len(src) = SECTOR
    BY <1>3, MergedType
  <1>5. PICK j : j = [Program(s, src) EXCEPT !.buf = << >>]
    OBVIOUS
  <1>6. job \in JobStates
    BY DEF Underway, JobFine
  <1>7. j.st = "pages" /\ j.a = y /\ j.d = job.d /\ j.at = s /\ j.src = src
    BY <1>1, <1>5, <1>6 DEF Program, JobStates
  <1>8. SectorEnd(j) = y + m
    BY <1>1, <1>2, <1>7 DEF SectorEnd
  <1>9. mem = Written(asked, y) /\ \A i \in 1 .. SECTOR : job.buf[i] = mem[s + i - 1]
    BY <1>1 DEF OnCourse
  <1>10. ASSUME NEW x \in Addr
         PROVE  x \in Aligned(SECTOR, s) <=> (s <= x /\ x < s + SECTOR)
    <2>1. x \in Nat
      BY Geometry
    <2>2. s \div SECTOR = y \div SECTOR
      BY <1>1, <1>2, SectorFacts
    <2>3. x \div SECTOR = y \div SECTOR <=> (s <= x /\ x < s + SECTOR)
      BY <1>1, <1>2, <2>1, InSector
    <2> QED
      BY <2>2, <2>3 DEF Aligned
  <1>11. ASSUME NEW x \in Addr
         PROVE  m2[x] = IF s <= x /\ x < s + SECTOR THEN Erased ELSE Written(asked, y + m)[x]
    <2>1. m2[x] = IF s <= x /\ x < s + SECTOR THEN Erased ELSE mem[x]
      BY <1>1, <1>10 DEF ErasedIn
    <2>2. x \in Nat
      BY Geometry
    <2>3. ~ (s <= x /\ x < s + SECTOR) => Written(asked, y + m)[x] = Written(asked, y)[x]
      <3> SUFFICES ASSUME ~ (s <= x /\ x < s + SECTOR)
                   PROVE  Written(asked, y + m)[x] = Written(asked, y)[x]
        OBVIOUS
      <3>1. PICK e \in Nat : e = y + m /\ y <= e
        BY <1>2
      <3>2. ~ (y <= x /\ x < e)
        BY <1>2, <2>2, <3>1
      <3>3. asked.a \in Nat /\ asked.a <= y
        BY <1>1, <1>2
      <3>4. Written(asked, e)[x] = Written(asked, y)[x]
        BY <1>2, <3>1, <3>2, <3>3, WrittenOn
      <3> QED
        BY <3>1, <3>4
    <2> QED
      BY <1>9, <2>1, <2>3
  <1>12. m2 = [x \in Addr |-> IF s <= x /\ x < s + Len(src) THEN Erased ELSE Written(asked, y + m)[x]]
    <2>1. m2 = [x \in Addr |-> m2[x]]
      BY DEF ErasedIn
    <2>2. \A x \in Addr : m2[x] = IF s <= x /\ x < s + Len(src) THEN Erased
                                  ELSE Written(asked, y + m)[x]
      BY <1>4, <1>11
    <2> QED
      BY <2>1, <2>2
  <1>13. ASSUME NEW i \in 1 .. SECTOR
         PROVE  src[i] = Written(asked, y + m)[s + i - 1]
    <2>1. src[i] = IF i - (y - s) \in 1 .. m THEN job.d[i - (y - s)] ELSE job.buf[i]
      BY <1>1, <1>2, <1>3 DEF Merged
    <2>2. PICK x \in Nat : x = s + i - 1
      BY <1>2
    <2>3. x \in Addr
      BY <1>2, <2>2 DEF Addr
    <2>4. CASE i - (y - s) \in 1 .. m
      <3>1. PICK k \in 1 .. m : k = i - (y - s)
        BY <2>4
      <3>2. y + k - 1 = x
        BY <1>2, <2>2, <3>1
      <3>3. job.d[k] = Written(asked, y + m)[y + k - 1]
        BY <1>1, <1>2, LeftOver
      <3> QED
        BY <2>1, <2>2, <2>4, <3>1, <3>2, <3>3
    <2>5. CASE i - (y - s) \notin 1 .. m
      <3>1. ~ (y <= x /\ x < y + m)
        BY <1>2, <2>2, <2>5
      <3>2. y + m \in Nat /\ y <= y + m
        BY <1>2
      <3>3. Written(asked, y + m)[x] = Written(asked, y)[x]
        BY <1>1, <1>2, <2>3, <3>1, <3>2, WrittenOn
      <3>4. src[i] = mem[x]
        BY <1>9, <2>1, <2>2, <2>5
      <3> QED
        BY <1>9, <2>2, <3>3, <3>4
    <2> QED
      BY <2>4, <2>5
  <1>14. \A i \in 1 .. Len(j.d) : j.d[i] = asked.d[(j.a - asked.a) + i]
    BY <1>1, <1>7 DEF OnCourse
  <1>15. OnCourse(j, asked, m2)
    BY <1>4, <1>7, <1>8, <1>12, <1>13, <1>14 DEF OnCourse
  <1> QED
    BY <1>1, <1>3, <1>5, <1>15

(* A page programmed with bytes of the sector.                             *)
LEMMA AndErased ==
  ASSUME NEW v \in Byte
  PROVE  And(Erased, v) = v
  BY GeometryAssumption DEF And, Erased, Torn, Byte

LEMMA PageWritten ==
  ASSUME Underway, job.st = "pages", OnCourse(job, asked, mem), NEW m2, NEW s,
         s = SubSeq(job.src, 1, PageRemain), m2 = Programmed(mem, job.at, s)
  PROVE  /\ m2 = [x \in Addr |->
                    IF job.at + PageRemain <= x /\ x < job.at + Len(job.src) THEN Erased
                    ELSE Written(asked, SectorEnd(job))[x]]
         /\ \A x \in Addr : ~ (job.at <= x /\ x < job.at + Len(job.src)) => m2[x] = mem[x]
  <1>1. PICK t, p, n : t = job.at /\ p = PageRemain /\ n = Len(job.src)
    OBVIOUS
  <1>2. PICK W : W = Written(asked, SectorEnd(job))
    OBVIOUS
  <1>3. /\ n \in Nat /\ p \in 1 .. n /\ (t % PAGE) + p <= PAGE /\ t \in Addr /\ t \in Nat
        /\ job.src \in Seq(Byte) /\ PAGE \in Nat /\ PAGE > 0 /\ t % PAGE \in 0 .. PAGE - 1
    BY <1>1, PageRemainFacts, Geometry
  <1>4. Len(s) = p /\ \A i \in 1 .. p : s[i] = job.src[i]
    BY <1>1, <1>3, Cut
  <1>5. p \in Nat /\ p <= PAGE - (t % PAGE)
    <2>1. PICK r \in 0 .. PAGE - 1 : r = t % PAGE
      BY <1>3
    <2> QED
      BY <1>3, <2>1
  <1>6. mem = [x \in Addr |-> IF t <= x /\ x < t + n THEN Erased ELSE W[x]]
        /\ \A i \in 1 .. n : job.src[i] = W[t + i - 1]
    BY <1>1, <1>2 DEF OnCourse
  <1>7. ASSUME NEW x \in Addr
        PROVE  /\ m2[x] = IF t + p <= x /\ x < t + n THEN Erased ELSE W[x]
               /\ ~ (t <= x /\ x < t + n) => m2[x] = mem[x]
    <2>1. x \in Nat
      BY Geometry
    <2>2. /\ (x \div PAGE = t \div PAGE /\ (x - t) % PAGE < p) <=> (t <= x /\ x < t + p)
          /\ t <= x /\ x < t + p => (x - t) % PAGE = x - t
      BY <1>3, <1>5, <2>1, SamePage
    <2>3. m2[x] = IF x \div PAGE = t \div PAGE /\ (x - t) % PAGE < p
                  THEN And(mem[x], s[((x - t) % PAGE) + 1]) ELSE mem[x]
      BY <1>1, <1>4 DEF Programmed
    <2>4. CASE t <= x /\ x < t + p
      <3>1. m2[x] = And(mem[x], s[(x - t) + 1])
        BY <2>2, <2>3, <2>4
      <3>2. PICK i \in 1 .. p : i = (x - t) + 1
        BY <1>3, <2>1, <2>4
      <3>3. i \in 1 .. n /\ t + i - 1 = x /\ x < t + n
        BY <1>3, <2>1, <2>4, <3>2
      <3>4. s[i] = W[x] /\ s[i] \in Byte
        <4>1. job.src[i] \in Byte
          BY <1>1, <1>3, <3>3, ElementOfSeq
        <4> QED
          BY <1>4, <1>6, <3>2, <3>3, <4>1
      <3>5. mem[x] = Erased
        BY <1>6, <2>4, <3>3
      <3>6. m2[x] = W[x]
        BY <3>1, <3>2, <3>4, <3>5, AndErased
      <3>7. ~ (t + p <= x)
        BY <1>3, <2>1, <2>4
      <3> QED
        BY <2>4, <3>3, <3>6, <3>7
    <2>5. CASE ~ (t <= x /\ x < t + p)
      <3>1. m2[x] = mem[x]
        BY <2>2, <2>3, <2>5
      <3>2. (t + p <= x /\ x < t + n) <=> (t <= x /\ x < t + n)
        BY <1>3, <2>1, <2>5
      <3> QED
        BY <1>6, <3>1, <3>2
    <2> QED
      BY <2>4, <2>5
  <1>8. m2 = [x \in Addr |-> IF t + p <= x /\ x < t + n THEN Erased ELSE W[x]]
    <2>1. m2 = [x \in Addr |-> m2[x]]
      BY DEF Programmed
    <2> QED
      BY <1>7, <2>1
  <1> QED
    BY <1>1, <1>2, <1>7, <1>8

LEMMA CourseToPage ==
  ASSUME Underway, job.st = "pages", OnCourse(job, asked, mem), NEW m2,
         m2 = Programmed(mem, job.at, SubSeq(job.src, 1, PageRemain)),
         Len(job.src) # PageRemain
  PROVE  OnCourse(Program(job.at + PageRemain,
                          SubSeq(job.src, PageRemain + 1, Len(job.src))), asked, m2)
  <1>1. PICK t, p, n : t = job.at /\ p = PageRemain /\ n = Len(job.src)
    OBVIOUS
  <1>2. PICK W : W = Written(asked, SectorEnd(job))
    OBVIOUS
  <1>3. n \in Nat /\ p \in 1 .. n /\ t \in Addr /\ t \in Nat /\ job.src \in Seq(Byte)
    BY <1>1, PageRemainFacts, Geometry
  <1>4. PICK s : s = SubSeq(job.src, p + 1, n)
    OBVIOUS
  <1>5. Len(s) = n - p /\ \A i \in 1 .. n - p : s[i] = job.src[p + i]
    BY <1>1, <1>3, <1>4, Cut
  <1>6. PICK j : j = Program(t + p, s)
    OBVIOUS
  <1>7. job \in JobStates
    BY DEF Underway, JobFine
  <1>8. j.st = "pages" /\ j.a = job.a /\ j.d = job.d /\ j.at = t + p /\ j.src = s
    BY <1>1, <1>6, <1>7 DEF Program, JobStates
  <1>9. SectorEnd(j) = SectorEnd(job)
    BY <1>8 DEF SectorEnd
  <1>10. m2 = [x \in Addr |-> IF t + p <= x /\ x < t + n THEN Erased ELSE W[x]]
    BY <1>1, <1>2, PageWritten
  <1>11. (t + p) + (n - p) = t + n
    BY <1>3
  <1>12. ASSUME NEW i \in 1 .. n - p
         PROVE  s[i] = W[(t + p) + i - 1]
    <2>1. PICK k \in 1 .. n : k = p + i
      BY <1>3
    <2>2. job.src[k] = W[t + k - 1]
      BY <1>1, <1>2 DEF OnCourse
    <2>3. t + k - 1 = (t + p) + i - 1
      BY <1>3, <2>1
    <2> QED
      BY <1>5, <2>1, <2>2, <2>3
  <1>13. \A i \in 1 .. Len(j.d) : j.d[i] = asked.d[(j.a - asked.a) + i]
    BY <1>8 DEF OnCourse
  <1>14. /\ m2 = [x \in Addr |-> IF j.at <= x /\ x < j.at + Len(j.src) THEN Erased
                                 ELSE Written(asked, SectorEnd(j))[x]]
         /\ \A i \in 1 .. Len(j.src) : j.src[i] = Written(asked, SectorEnd(j))[j.at + i - 1]
    BY <1>2, <1>5, <1>8, <1>9, <1>10, <1>11, <1>12
  <1>15. OnCourse(j, asked, m2)
    BY <1>8, <1>13, <1>14 DEF OnCourse
  <1> QED
    BY <1>1, <1>4, <1>6, <1>15

(* The last page of a sector.                                              *)
LEMMA LastPage ==
  ASSUME Underway, job.st = "pages", OnCourse(job, asked, mem), NEW m2,
         m2 = Programmed(mem, job.at, SubSeq(job.src, 1, PageRemain)),
         Len(job.src) = PageRemain
  PROVE  m2 = Written(asked, SectorEnd(job))
  <1>1. PICK t, n : t = job.at /\ n = Len(job.src)
    OBVIOUS
  <1>2. PICK W : W = Written(asked, SectorEnd(job))
    OBVIOUS
  <1>3. m2 = [x \in Addr |-> IF t + n <= x /\ x < t + n THEN Erased ELSE W[x]]
    BY <1>1, <1>2, PageWritten
  <1>4. n \in Nat /\ t \in Nat
    BY <1>1, PageRemainFacts, Geometry
  <1>5. \A x \in Addr : ~ (t + n <= x /\ x < t + n)
    BY <1>4, Geometry
  <1>6. m2 = [x \in Addr |-> W[x]]
    BY <1>3, <1>5
  <1>7. W = [x \in Addr |-> W[x]]
    BY <1>2 DEF Written
  <1> QED
    BY <1>2, <1>6, <1>7

LEMMA CourseToSector ==
  ASSUME Underway, job.st = "pages", OnCourse(job, asked, mem), Len(job.d) # Remain,
         NEW m2, m2 = Written(asked, SectorEnd(job))
  PROVE  OnCourse([Idle EXCEPT !.st = "read", !.a = job.a + Remain,
                               !.d = SubSeq(job.d, Remain + 1, Len(job.d))], asked, m2)
  <1>1. PICK a, y, m, l : a = asked.a /\ y = job.a /\ m = Remain /\ l = Len(job.d)
    OBVIOUS
  <1>2. /\ a \in Nat /\ y \in Nat /\ l \in Nat /\ m \in 1 .. l /\ a <= y
        /\ SectorEnd(job) = y + m
    BY <1>1, WriteNumbers
  <1>3. PICK s : s = SubSeq(job.d, m + 1, l)
    OBVIOUS
  <1>4. Len(s) = l - m /\ \A i \in 1 .. l - m : s[i] = job.d[m + i]
    BY <1>1, <1>2, <1>3, RemainFacts, Cut
  <1>5. PICK j : j = [Idle EXCEPT !.st = "read", !.a = y + m, !.d = s]
    OBVIOUS
  <1>6. j.st = "read" /\ j.a = y + m /\ j.d = s
    BY <1>5 DEF Idle
  <1>7. ASSUME NEW i \in 1 .. l - m
        PROVE  s[i] = asked.d[((y + m) - a) + i]
    <2>1. PICK k \in 1 .. l : k = m + i
      BY <1>2
    <2>2. job.d[k] = asked.d[(y - a) + k]
      BY <1>1 DEF OnCourse
    <2>3. (y - a) + k = ((y + m) - a) + i
      BY <1>2, <2>1
    <2> QED
      BY <1>4, <2>1, <2>2, <2>3
  <1>8. OnCourse(j, asked, m2)
    BY <1>1, <1>2, <1>4, <1>6, <1>7 DEF OnCourse
  <1> QED
    BY <1>1, <1>3, <1>5, <1>8

(* A request that has been written to its end.                             *)
LEMMA AllWritten ==
  ASSUME Underway, job.st # "idle", Len(job.d) = Remain
  PROVE  Written(asked, SectorEnd(job)) = Store!Overlaid(asked)
  <1>1. PICK a, l : a = asked.a /\ l = Len(asked.d)
    OBVIOUS
  <1>2. a \in Nat /\ l \in Nat /\ SectorEnd(job) = a + l
    BY <1>1, WriteNumbers
  <1>3. ASSUME NEW x \in Addr
        PROVE  (a <= x /\ x < a + l) <=> x \in Store!Covered(asked)
    <2>1. x \in Nat
      BY Geometry
    <2>2. x - a \in 0 .. l - 1 <=> (a <= x /\ x < a + l)
      BY <1>2, <2>1
    <2> QED
      BY <1>1, <2>2 DEF Store!Covered
  <1>4. Written(asked, a + l) = [x \in Addr |-> IF x \in Store!Covered(asked)
                                                 THEN asked.d[x - asked.a + 1] ELSE asked.old[x]]
    BY <1>1, <1>3 DEF Written
  <1> QED
    BY <1>2, <1>4 DEF Store!Overlaid

(* Bytes outside the sectors of a request are as they were.                *)
LEMMA OutsideSpared ==
  ASSUME Underway, job.st # "idle", OnCourse(job, asked, mem), NEW m2,
         \A x \in Addr : x \div SECTOR # job.a \div SECTOR => m2[x] = mem[x]
  PROVE  \A x \in Addr \ Store!Touched(asked) : m2[x] = asked.old[x]
  <1>1. PICK a, y, l : a = asked.a /\ y = job.a /\ l = Len(asked.d)
    OBVIOUS
  <1>2. /\ a \in Nat /\ y \in Nat /\ y \in Addr /\ l \in Nat /\ a <= y /\ y < a + l
        /\ SectorEnd(job) \in Nat /\ SectorEnd(job) <= a + l /\ y <= a + l
    BY <1>1, WriteNumbers
  <1> SUFFICES ASSUME NEW x \in Addr, x \notin Store!Touched(asked)
               PROVE  m2[x] = asked.old[x]
    OBVIOUS
  <1>3. x \in Nat
    BY Geometry
  <1>4. \A z \in Addr : z - a \in 0 .. l - 1 => x \div SECTOR # z \div SECTOR
    BY <1>1 DEF Store!Touched, Store!Covered, SectorNumber
  <1>5. x \div SECTOR # y \div SECTOR
    <2>1. y - a \in 0 .. l - 1
      BY <1>2
    <2> QED
      BY <1>2, <1>4, <2>1
  <1>6. ~ (a <= x /\ x < a + l)
    <2>1. x - a \notin 0 .. l - 1
      BY <1>4
    <2> QED
      BY <1>2, <1>3, <2>1
  <1>7. Written(asked, y)[x] = asked.old[x] /\ Written(asked, SectorEnd(job))[x] = asked.old[x]
    <2>1. ~ (a <= x /\ x < y) /\ ~ (a <= x /\ x < SectorEnd(job))
      BY <1>2, <1>3, <1>6
    <2> QED
      BY <1>1, <2>1, WrittenAt
  <1>8. mem[x] = asked.old[x]
    <2>1. CASE job.st \in {"read", "erase"}
      BY <1>1, <1>7, <2>1 DEF OnCourse
    <2>2. CASE job.st = "pages"
      <3>1. PICK t, n : t = job.at /\ n = Len(job.src)
        OBVIOUS
      <3>2. /\ n \in Nat /\ t \in Nat /\ t \in Addr /\ (t % SECTOR) + n <= SECTOR
            /\ t \div SECTOR = y \div SECTOR
        BY <1>1, <2>2, <3>1, PageRemainFacts, Geometry DEF Underway, JobFine
      <3>3. /\ SectorOf(t) \in Nat /\ SectorOf(t) <= t /\ t % SECTOR = t - SectorOf(t)
        BY <3>2, SectorFacts
      <3>4. t + n <= SectorOf(t) + SECTOR
        BY <3>2, <3>3, Geometry
      <3>5. ~ (SectorOf(t) <= x /\ x < SectorOf(t) + SECTOR)
        BY <1>3, <1>5, <3>2, InSector
      <3>6. ~ (t <= x /\ x < t + n)
        BY <1>3, <3>2, <3>3, <3>4, <3>5, Geometry
      <3>7. mem[x] = Written(asked, SectorEnd(job))[x]
        BY <2>2, <3>1, <3>6 DEF OnCourse
      <3> QED
        BY <1>7, <3>7
    <2>3. job.st \in {"read", "erase", "pages"}
      BY DEF Underway, JobFine, JobStates
    <2> QED
      BY <2>1, <2>2, <2>3
  <1> QED
    BY <1>1, <1>5, <1>8

-------------------------------------------------------------------------------
(* A chip that is in step, not suspended, and spoken to with commands that *)
(* change neither the array nor its protection.                            *)
Guarded(c, d) == (c.susp <=> d.susp) /\ (c.prot <=> d.prot) /\ (c.wps <=> d.wps) /\ c.locks = d.locks

Quiet == {s \in State : /\ Alike(s.chip, chip) /\ ~ s.chip.busy
                        /\ Guarded(s.chip, chip) /\ s.mem = mem}

Harmless(k) == WellFormed(k) /\ k.op \notin Modal \cup Altering \cup Guarding \cup Starting

LEMMA QuietStep ==
  ASSUME Known, NEW s \in Quiet, NEW k, Harmless(k)
  PROVE  Hears(board.large, board.fab, s, k) \in Quiet
  <1>1. board.large \in BOOLEAN /\ board.fab \in [qe : BOOLEAN]
    BY BoardType DEF Known
  <1>2. s \in State /\ Alike(s.chip, chip) /\ ~ s.chip.busy /\ Guarded(s.chip, chip) /\ s.mem = mem
    BY DEF Quiet
  <1>3. WellFormed(k) /\ k.op \notin Modal /\ k.op \notin Altering /\ k.op \notin Guarding
        /\ k.op \notin Starting /\ k.op # "resume"
    BY DEF Harmless, Guarding
  <1>4. PICK t : t = Hears(board.large, board.fab, s, k)
    OBVIOUS
  <1>5. t \in State
    BY <1>1, <1>2, <1>3, <1>4, HearsState
  <1>6. /\ t.chip.qpi = s.chip.qpi /\ t.chip.four = s.chip.four
        /\ t.chip.down = s.chip.down /\ t.chip.dummy = s.chip.dummy
    BY <1>2, <1>3, <1>4, ModesKept
  <1>7. ~ t.chip.busy
    BY <1>2, <1>3, <1>4, StaysReady
  <1>8. /\ t.chip.susp = s.chip.susp /\ t.chip.prot = s.chip.prot
        /\ t.chip.wps = s.chip.wps /\ t.chip.locks = s.chip.locks
    BY <1>2, <1>3, <1>4, GuardsKept
  <1>9. t.mem = mem
    BY <1>2, <1>3, <1>4, MemoryKept
  <1>10. Alike(t.chip, chip)
    BY <1>2, <1>6 DEF Alike
  <1>11. Guarded(t.chip, chip)
    BY <1>2, <1>8 DEF Guarded
  <1> QED
    BY <1>4, <1>5, <1>7, <1>9, <1>10, <1>11 DEF Quiet

LEMMA QuietNow ==
  ASSUME Known, trust = "in"
  PROVE  Now \in Quiet /\ [chip |-> chip, mem |-> mem] \in Quiet
  <1>1. Now \in State /\ ~ chip.busy
    BY DEF Known, Legal, InStep
  <1>2. Alike(chip, chip) /\ Guarded(chip, chip)
    BY DEF Alike, Guarded
  <1> QED
    BY <1>1, <1>2 DEF Quiet, Now

LEMMA QuietSent ==
  ASSUME Known, trust = "in", NEW cmds, NEW n \in 0 .. MaxSent, \A i \in 1 .. n : Harmless(cmds[i])
  PROVE  \A k \in 0 .. n : Sent(cmds, k) \in Quiet
  BY QuietNow, QuietStep, SentKeeps

LEMMA QuietHears ==
  ASSUME Known, trust = "in", NEW s \in Quiet, NEW k, k.lines = (IF Quad THEN 4 ELSE 1),
         k.addressed => (k.four <=> ~ Three)
  PROVE  Understands(s.chip, k)
  <1>1. /\ chip.qpi <=> Quad
        /\ chip.four <=> ~ Three
        /\ ~ chip.down
    BY DEF Known, InStep
  <1>2. Alike(s.chip, chip) /\ ~ s.chip.busy
    BY DEF Quiet
  <1> QED
    BY <1>1, <1>2 DEF Understands, Alike

LEMMA AddressableInStep ==
  ASSUME Known, trust = "in"
  PROVE  Addressable /\ (Banked <=> (Three /\ board.large))
  <1>1. (chip.four <=> ~ Three) /\ (Large <=> board.large) /\ (chip.four => board.large)
    BY DEF Known, InStep, Legal, Now
  <1> QED
    BY <1>1 DEF Addressable, Banked

LEMMA HarmlessCommands ==
  ASSUME NEW a \in Addr
  PROVE  /\ Harmless(Cmd("wren")) /\ Harmless(Bank(a))
         /\ \A d : Harmless(CmdTo("fast", a, d))
  <1>1. Simple(Cmd("wren")) /\ Cmd("wren").op = "wren"
    BY PlainCommand DEF Special, Modal, Programming
  <1>2. Simple(Bank(a)) /\ Bank(a).op = "extaddr"
    BY BankCommand
  <1>3. ASSUME NEW d
        PROVE  Simple(CmdTo("fast", a, d)) /\ CmdTo("fast", a, d).op = "fast"
    BY AddressedCommand DEF Special, Modal, Programming
  <1>4. \A op \in {"wren", "extaddr", "fast"} :
           op \notin Modal \cup Altering \cup Guarding \cup Starting
    BY DEF Modal, Altering, Guarding, Starting, Erasing, Programming
  <1> QED
    BY <1>1, <1>2, <1>3, <1>4 DEF Harmless, Simple

(* The read that a write begins with.                                      *)
LEMMA SoundRead ==
  ASSUME Known, trust = "in", NEW a \in Addr, Fits(a, SECTOR), NEW j, j = a_w25qxx_read(a),
         NEW o \in Outcomes(j), NEW k, k = j.cmds[Len(j.cmds)]
  PROVE  /\ o.mem = mem
         /\ o.ret = 0 => /\ o.ok /\ Guarded(o.chip, chip)
                         /\ Answer([chip |-> o.chip, mem |-> o.mem], k, SECTOR) = Wanted(a, SECTOR)
  <1>1. PICK c : c = CmdTo("fast", a, IF Quad THEN <<handle.dummy>> ELSE << >>)
    OBVIOUS
  <1>2. j = Send(AfterBank(c))
    BY <1>1, AddressableInStep DEF a_w25qxx_read, ReadBy
  <1>3. j.cmds = AfterBank(c) /\ j.wait = FALSE /\ j.bus = 1 /\ j.done = 0
    BY <1>2 DEF Send
  <1>4. k = c
    BY <1>3, LastCommand
  <1>5. c.a = a
    BY <1>1 DEF CmdTo, Cmd
  <1>6. Len(j.cmds) \in {1, 3} /\ \A i \in 1 .. Len(j.cmds) : Harmless(j.cmds[i])
    <2>1. PICK w, b : w = Cmd("wren") /\ b = Bank(a)
      OBVIOUS
    <2>2. Harmless(w) /\ Harmless(b) /\ Harmless(c)
      BY <1>1, <2>1, HarmlessCommands
    <2>3. CASE Banked
      <3>1. j.cmds = <<w, b, c>>
        BY <1>3, <1>5, <2>1, <2>3, LastCommand
      <3>2. Len(<<w, b, c>>) = 3 /\ <<w, b, c>>[1] = w /\ <<w, b, c>>[2] = b /\ <<w, b, c>>[3] = c
        OBVIOUS
      <3>3. \A i \in 1 .. 3 : i \in {1, 2, 3}
        OBVIOUS
      <3> QED
        BY <2>2, <3>1, <3>2, <3>3
    <2>4. CASE ~ Banked
      <3>1. j.cmds = <<c>>
        BY <1>3, <2>4, LastCommand
      <3>2. Len(<<c>>) = 1 /\ <<c>>[1] = c
        OBVIOUS
      <3> QED
        BY <2>2, <3>1, <3>2
    <2> QED
      BY <2>3, <2>4
  <1>7. \A i \in 0 .. Len(j.cmds) : Sent(j.cmds, i) \in Quiet
    <2>1. Len(j.cmds) \in 0 .. MaxSent
      BY <1>6 DEF MaxSent
    <2> QED
      BY <1>6, <2>1, QuietSent
  <1>8. PICK n : n = Len(j.cmds) /\ n \in 0 .. n /\ n \in Nat
    BY <1>6
  <1>9. \/ \E i \in 0 .. n : o = Result(Sent(j.cmds, i), j.bus, FALSE)
        \/ o = Result(Sent(j.cmds, n), j.done, TRUE)
    BY <1>3, <1>8, OutcomeCases
  <1>10. \A s \in Quiet : s.mem = mem /\ Guarded(s.chip, chip) /\ s = [chip |-> s.chip, mem |-> s.mem]
    BY DEF Quiet, State
  <1>11. CASE \E i \in 0 .. n : o = Result(Sent(j.cmds, i), j.bus, FALSE)
    <2>1. PICK i \in 0 .. n : o = Result(Sent(j.cmds, i), j.bus, FALSE)
      BY <1>11
    <2>2. o.mem = Sent(j.cmds, i).mem /\ o.ret = 1
      BY <1>3, <2>1 DEF Result
    <2> QED
      BY <1>7, <1>8, <1>10, <2>2
  <1>12. CASE o = Result(Sent(j.cmds, n), j.done, TRUE)
    <2>1. PICK s : s = Sent(j.cmds, n)
      OBVIOUS
    <2>2. o.mem = s.mem /\ o.chip = s.chip /\ o.ok
      BY <1>12, <2>1 DEF Result
    <2>3. s \in Quiet
      BY <1>7, <1>8, <2>1
    <2>4. Answer(s, c, SECTOR) = Wanted(a, SECTOR)
      <3>1. s = Sent(AfterBank(c), Len(AfterBank(c)))
        BY <1>3, <1>8, <2>1
      <3>2. "fast" \in UnlessWrapped
        BY DEF UnlessWrapped
      <3> QED
        BY <1>1, <3>1, <3>2, Geometry, ReadsRight
    <2>5. [chip |-> o.chip, mem |-> o.mem] = s
      BY <1>10, <2>2, <2>3
    <2> QED
      BY <1>4, <1>10, <2>2, <2>3, <2>4, <2>5
  <1> QED
    BY <1>9, <1>11, <1>12

LEMMA SameProtection ==
  ASSUME NEW c, NEW d, Guarded(c, d), NEW cells
  PROVE  Protects(c, cells) <=> Protects(d, cells)
  BY DEF Guarded, Protects

LEMMA LessProtected ==
  ASSUME NEW c, NEW cells, NEW more, cells \subseteq more, ~ Protects(c, more)
  PROVE  ~ Protects(c, cells)
  BY DEF Protects

(* The command that changes the array, heard by a chip that is ready.      *)
Effect(op, a, d) == IF op = "erase4k" THEN ErasedIn(mem, Aligned(SECTOR, a))
                    ELSE Programmed(mem, a, d)
Hit(op, a, d)    == IF op = "erase4k" THEN Aligned(SECTOR, a)
                    ELSE { x \in Aligned(PAGE, a) : (x - a) % PAGE < Len(d) }

LEMMA Altered ==
  ASSUME board \in Boards, NEW s \in Quiet, s.chip.wel, ~ chip.susp, NEW k,
         k.op \in {"erase4k", "program"}, k.op = "program" => k.d # << >>,
         Understands(s.chip, k), Place(board.large, s.chip, k.a) = k.a,
         ~ Protects(chip, Hit(k.op, k.a, k.d)), NEW t,
         t = Hears(board.large, board.fab, s, k)
  PROVE  /\ t.mem = Effect(k.op, k.a, k.d)
         /\ t.chip.busy /\ Guarded(t.chip, chip)
  <1>1. s \in State /\ Guarded(s.chip, chip) /\ s.mem = mem
    BY DEF Quiet
  <1>2. PICK c : c = [s.chip EXCEPT !.armed = FALSE]
    OBVIOUS
  <1>3. /\ c \in Chip /\ (c.wel <=> s.chip.wel) /\ (c.susp <=> s.chip.susp)
        /\ (c.prot <=> s.chip.prot) /\ (c.wps <=> s.chip.wps) /\ c.locks = s.chip.locks
        /\ c.ext = s.chip.ext /\ (c.four <=> s.chip.four)
    BY <1>1, <1>2 DEF State, Chip
  <1>4. Place(board.large, c, k.a) = k.a
    BY <1>3 DEF Place
  <1>5. Reached(board.large, c, k) = Hit(k.op, k.a, k.d)
    <2>1. PICK p : p = Place(board.large, c, k.a)
      OBVIOUS
    <2>2. CASE k.op = "erase4k"
      BY <1>4, <2>2, Zenon DEF Reached, Hit
    <2>3. CASE k.op = "program"
      BY <1>4, <2>3, Zenon DEF Reached, Hit
    <2> QED
      BY <2>2, <2>3
  <1>6. Guarded(c, chip) /\ c.wel /\ ~ c.susp
    BY <1>1, <1>3 DEF Guarded
  <1>7. ~ Protects(c, Reached(board.large, c, k))
    BY <1>5, <1>6, SameProtection
  <1>8. Executes(board.large, c, k)
    BY <1>6, <1>7 DEF Executes
  <1>9. t = Obeyed(board.large, board.fab, s, k)
    BY DEF Hears
  <1>10. PICK R : R = Reached(board.large, c, k)
    OBVIOUS
  <1>11. PICK C : C = [c EXCEPT !.wel = FALSE, !.busy = TRUE, !.work = R]
    OBVIOUS
  <1>12. t.chip = C /\ t.mem = Effect(k.op, k.a, k.d)
    <2>1. CASE k.op = "erase4k"
      <3>1. PICK M : M = ErasedIn(s.mem, R)
        OBVIOUS
      <3>2. Obeyed(board.large, board.fab, s, k) = [chip |-> C, mem |-> M]
        BY <1>2, <1>8, <1>10, <1>11, <2>1, <3>1, SMT DEF Obeyed, Erasing, Programming
      <3>3. t.chip = C /\ t.mem = M
        BY <1>9, <3>2
      <3>4. R = Aligned(SECTOR, k.a)
        BY <1>5, <1>10, <2>1 DEF Hit
      <3>5. M = ErasedIn(mem, Aligned(SECTOR, k.a))
        BY <1>1, <3>1, <3>4
      <3> QED
        BY <2>1, <3>3, <3>5 DEF Effect
    <2>2. CASE k.op = "program"
      <3>1. PICK M : M = Programmed(s.mem, Place(board.large, c, k.a), k.d)
        OBVIOUS
      <3>2. Obeyed(board.large, board.fab, s, k) = [chip |-> C, mem |-> M]
        <4>1. k.d # << >> /\ k.op \in Programming /\ k.op \notin Erasing
          BY <2>2 DEF Programming, Erasing
        <4> QED
          BY <1>2, <1>8, <1>10, <1>11, <2>2, <3>1, <4>1, Zenon DEF Obeyed
      <3>3. t.chip = C /\ t.mem = M
        BY <1>9, <3>2
      <3>4. M = Programmed(mem, k.a, k.d)
        BY <1>1, <1>4, <3>1
      <3> QED
        BY <2>2, <3>3, <3>4 DEF Effect
    <2> QED
      BY <2>1, <2>2
  <1>13. t.chip.busy /\ Guarded(t.chip, chip)
    BY <1>3, <1>6, <1>11, <1>12 DEF Guarded, Chip
  <1> QED
    BY <1>12, <1>13

(* The commands of a change.                                               *)
LEMMA ChangeCommands ==
  ASSUME Known, trust = "in", NEW op, NEW a, NEW d
  PROVE  Change(op, a, d, 1, 1) =
           SendWait(IF Banked THEN <<Cmd("wren"), Bank(a), Cmd("wren"), CmdTo(op, a, d)>>
                    ELSE <<Cmd("wren"), CmdTo(op, a, d)>>, 1)
  <1>1. PICK w, b, k : w = Cmd("wren") /\ b = Bank(a) /\ k = CmdTo(op, a, d)
    OBVIOUS
  <1>2. Change(op, a, d, 1, 1) =
          SendWait(<<w>> \o (IF Banked THEN <<b, w>> ELSE << >>) \o <<k>>, 1)
    BY <1>1, AddressableInStep, Zenon DEF Change
  <1>3. CASE Banked
    <2>1. <<w>> \o (IF Banked THEN <<b, w>> ELSE << >>) \o <<k>> = <<w, b, w, k>>
      BY <1>3, JoinedCommands, Zenon
    <2> QED
      BY <1>1, <1>2, <1>3, <2>1, Zenon
  <1>4. CASE ~ Banked
    <2>1. <<w>> \o (IF Banked THEN <<b, w>> ELSE << >>) \o <<k>> = <<w, k>>
      BY <1>4, JoinedCommands, Zenon
    <2> QED
      BY <1>1, <1>2, <1>4, <2>1, Zenon
  <1> QED
    BY <1>3, <1>4

LEMMA ChangeShape ==
  ASSUME Known, trust = "in", NEW op, NEW a, NEW d
  PROVE  LET cmds == Change(op, a, d, 1, 1).cmds IN
         /\ Banked => /\ Len(cmds) = 4 /\ cmds[1] = Cmd("wren") /\ cmds[2] = Bank(a)
                      /\ cmds[3] = Cmd("wren") /\ cmds[4] = CmdTo(op, a, d)
         /\ ~ Banked => Len(cmds) = 2 /\ cmds[1] = Cmd("wren") /\ cmds[2] = CmdTo(op, a, d)
  <1>1. PICK w, b, k : w = Cmd("wren") /\ b = Bank(a) /\ k = CmdTo(op, a, d)
    OBVIOUS
  <1>2. PICK cmds : cmds = Change(op, a, d, 1, 1).cmds
    OBVIOUS
  <1>3. cmds = IF Banked THEN <<w, b, w, k>> ELSE <<w, k>>
    <2>1. PICK c : c = IF Banked THEN <<w, b, w, k>> ELSE <<w, k>>
      OBVIOUS
    <2>2. Change(op, a, d, 1, 1) = SendWait(c, 1)
      BY <1>1, <2>1, ChangeCommands, Zenon
    <2>3. cmds = c
      BY <1>2, <2>2 DEF SendWait, Send
    <2> QED
      BY <2>1, <2>3
  <1>4. /\ Len(<<w, b, w, k>>) = 4 /\ <<w, b, w, k>>[1] = w /\ <<w, b, w, k>>[2] = b
        /\ <<w, b, w, k>>[3] = w /\ <<w, b, w, k>>[4] = k
    OBVIOUS
  <1>5. Len(<<w, k>>) = 2 /\ <<w, k>>[1] = w /\ <<w, k>>[2] = k
    OBVIOUS
  <1>6. CASE Banked
    BY <1>1, <1>2, <1>3, <1>4, <1>6
  <1>7. CASE ~ Banked
    BY <1>1, <1>2, <1>3, <1>5, <1>7
  <1> QED
    BY <1>6, <1>7

(* Enabling leaves the bank alone.                                         *)
LEMMA EnablingHeard ==
  ASSUME NEW large, NEW fab, NEW s \in State, NEW k, k.op = "wren",
         NEW t, t = Hears(large, fab, s, k).chip
  PROVE  t.ext = s.chip.ext
  <1>1. PICK u : u = [s.chip EXCEPT !.armed = FALSE]
    OBVIOUS
  <1>2. t = s.chip \/ t = [u EXCEPT !.wel = TRUE]
    BY <1>1, Zenon DEF Hears, Obeyed, Erasing, Programming
  <1> QED
    BY <1>1, <1>2 DEF State, Chip

LEMMA EnabledPlace ==
  ASSUME Known, trust = "in", NEW op \in {"erase4k", "program"}, NEW a \in Addr, a < Capacity,
         NEW d, NEW j, j = Change(op, a, d, 1, 1)
  PROVE  \E m \in {1, 3} :
            /\ Len(j.cmds) = m + 1 /\ j.cmds[m + 1] = CmdTo(op, a, d)
            /\ \A i \in 0 .. m : Sent(j.cmds, i) \in Quiet
            /\ Sent(j.cmds, m).chip.wel
            /\ Place(board.large, Sent(j.cmds, m).chip, a) = a
  <1>13. PICK n, s : n = Len(j.cmds) /\ s = Sent(j.cmds, n - 1)
    OBVIOUS
  <1>1. PICK k, w, b : k = CmdTo(op, a, d) /\ w = Cmd("wren") /\ b = Bank(a)
    OBVIOUS
  <1>2. /\ Banked => /\ n = 4 /\ j.cmds[1] = w /\ j.cmds[2] = b
                     /\ j.cmds[3] = w /\ j.cmds[4] = k
        /\ ~ Banked => n = 2 /\ j.cmds[1] = w /\ j.cmds[2] = k
    <2>1. PICK cmds : cmds = j.cmds
      OBVIOUS
    <2>2. /\ Banked => /\ Len(cmds) = 4 /\ cmds[1] = w /\ cmds[2] = b
                       /\ cmds[3] = w /\ cmds[4] = k
          /\ ~ Banked => Len(cmds) = 2 /\ cmds[1] = w /\ cmds[2] = k
      BY <1>1, <2>1, ChangeShape
    <2>3. n = Len(cmds)
      BY <1>13, <2>1
    <2> QED
      BY <2>1, <2>2, <2>3
  <1>3. n \in {2, 4} /\ j.cmds[n] = k
    BY <1>2
  <1>4. Harmless(w) /\ Harmless(b)
    BY <1>1, HarmlessCommands
  <1>5. \A i \in 1 .. n - 1 : Harmless(j.cmds[i])
    <2>1. CASE Banked
      <3>1. \A i \in 1 .. 4 - 1 : i \in {1, 2, 3}
        OBVIOUS
      <3> QED
        BY <1>2, <1>4, <2>1, <3>1
    <2>2. CASE ~ Banked
      <3>1. \A i \in 1 .. 2 - 1 : i = 1
        OBVIOUS
      <3> QED
        BY <1>2, <1>4, <2>2, <3>1
    <2> QED
      BY <2>1, <2>2
  <1>6. \A i \in 0 .. n - 1 : Sent(j.cmds, i) \in Quiet
    <2>1. n - 1 \in 0 .. MaxSent
      BY <1>3 DEF MaxSent
    <2> QED
      BY <1>5, <2>1, QuietSent
  <1>7. /\ w.op = "wren" /\ w.lines = (IF Quad THEN 4 ELSE 1) /\ w.addressed = FALSE
        /\ b.op = "extaddr" /\ b.lines = (IF Quad THEN 4 ELSE 1) /\ b.addressed = FALSE
        /\ b.a = a
    BY <1>1 DEF Bank, Cmd
  <1>8. \A i \in 1 .. 3 : Sent(j.cmds, i) = Hears(board.large, board.fab, Sent(j.cmds, i - 1), j.cmds[i])
    BY SentSteps DEF MaxSent
  <1>9. \A r \in Quiet : r \in State /\ r.chip \in Chip /\ Understands(r.chip, w) /\ Understands(r.chip, b)
                         /\ (r.chip.four <=> chip.four)
    <2> SUFFICES ASSUME NEW r \in Quiet
                 PROVE  r \in State /\ r.chip \in Chip /\ Understands(r.chip, w)
                        /\ Understands(r.chip, b) /\ (r.chip.four <=> chip.four)
      OBVIOUS
    <2>1. r \in State /\ r.chip \in Chip /\ (r.chip.four <=> chip.four)
      BY DEF Quiet, State, Alike
    <2>2. Understands(r.chip, w)
      BY <1>7, QuietHears
    <2>3. Understands(r.chip, b)
      BY <1>7, QuietHears
    <2> QED
      BY <2>1, <2>2, <2>3
  <1>10. board \in Boards /\ (chip.four <=> ~ Three) /\ a \in Nat /\ BANK \in Nat
    BY Geometry DEF Known, InStep
  <1>14. s.chip.wel /\ Place(board.large, s.chip, a) = a
    <2>11. CASE Banked
      <3>1. n = 4 /\ j.cmds[1] = w /\ j.cmds[2] = b /\ j.cmds[3] = w
        BY <1>2, <2>11
      <3>2. PICK s0, s1, s2, s3 : /\ s0 = Sent(j.cmds, 0) /\ s1 = Sent(j.cmds, 1)
                                  /\ s2 = Sent(j.cmds, 2) /\ s3 = Sent(j.cmds, 3)
        OBVIOUS
      <3>12. n - 1 = 3 /\ 0 \in 0 .. n - 1 /\ 1 \in 0 .. n - 1 /\ 2 \in 0 .. n - 1 /\ 3 \in 0 .. n - 1
        <4>1. n = 4
          BY <3>1
        <4> QED
          BY <4>1
      <3>3. s0 \in Quiet /\ s1 \in Quiet /\ s2 \in Quiet /\ s3 \in Quiet
        BY <1>6, <3>2, <3>12, Zenon
      <3>4. /\ s1 = Hears(board.large, board.fab, s0, w)
            /\ s2 = Hears(board.large, board.fab, s1, b)
            /\ s3 = Hears(board.large, board.fab, s2, w)
        BY <1>8, <3>1, <3>2
      <3>5. s1.chip.wel
        BY <1>7, <1>9, <3>3, <3>4, BankHeard
      <3>6. s2.chip.ext = a \div BANK
        BY <1>7, <1>9, <3>3, <3>4, <3>5, BankHeard
      <3>7. s3.chip.wel
        BY <1>7, <1>9, <3>3, <3>4, BankHeard
      <3>8. s3.chip.ext = s2.chip.ext
        BY <1>7, <1>9, <3>3, <3>4, EnablingHeard
      <3>9. s = s3
        BY <1>13, <3>2, <3>12, Zenon
      <3>10. board.large
        BY <2>11, AddressableInStep
      <3>11. Place(board.large, s3.chip, a) = a
        BY <1>9, <1>10, <3>3, <3>6, <3>8, <3>10, BoardType, PlaceInside
      <3> QED
        BY <3>7, <3>9, <3>11
    <2>12. CASE ~ Banked
      <3>1. n = 2 /\ j.cmds[1] = w
        BY <1>2, <2>12
      <3>2. PICK s0, s1 : s0 = Sent(j.cmds, 0) /\ s1 = Sent(j.cmds, 1)
        OBVIOUS
      <3>12. n - 1 = 1 /\ 0 \in 0 .. n - 1 /\ 1 \in 0 .. n - 1
        <4>1. n = 2
          BY <3>1
        <4> QED
          BY <4>1
      <3>3. s0 \in Quiet /\ s1 \in Quiet
        BY <1>6, <3>2, <3>12, Zenon
      <3>4. s1 = Hears(board.large, board.fab, s0, w)
        BY <1>8, <3>1, <3>2
      <3>5. s1.chip.wel
        BY <1>7, <1>9, <3>3, <3>4, BankHeard
      <3>6. s = s1
        BY <1>13, <3>2, <3>12, Zenon
      <3>7. ~ Three \/ ~ board.large
        BY <2>12, AddressableInStep
      <3>8. CASE ~ Three
        <4>1. s1.chip.four
          BY <1>9, <1>10, <3>3, <3>8
        <4>2. Place(board.large, s1.chip, a) = a
          BY <1>9, <1>10, <3>3, <4>1, BoardType, PlaceInside
        <4> QED
          BY <3>5, <3>6, <4>2
      <3>9. CASE ~ board.large
        <4>1. a < BANK
          BY <1>10, <3>9 DEF Capacity
        <4>2. Place(board.large, s1.chip, a) = a
          BY <1>9, <1>10, <3>3, <3>9, <4>1, BoardType, PlaceInside
        <4> QED
          BY <3>5, <3>6, <4>2
      <3> QED
        BY <3>7, <3>8, <3>9
    <2> QED
      BY <2>11, <2>12
  <1>15. PICK m \in {1, 3} : m = n - 1 /\ n = m + 1
    BY <1>3
  <1>16. /\ Len(j.cmds) = m + 1 /\ j.cmds[m + 1] = CmdTo(op, a, d)
         /\ s = Sent(j.cmds, m) /\ \A i \in 0 .. m : Sent(j.cmds, i) \in Quiet
    BY <1>1, <1>3, <1>6, <1>13, <1>15
  <1> QED
    BY <1>14, <1>16

(* A change of the array, by a chip in step that does not protect it, does *)
(* what it should or nothing, and tells which.                             *)
LEMMA ChangeWorks ==
  ASSUME Known, trust = "in", ~ chip.susp, NEW op \in {"erase4k", "program"},
         NEW a \in Addr, a < Capacity, NEW d, op = "program" => d \in Seq(Byte) /\ d # << >>,
         ~ Protects(chip, Hit(op, a, d)), NEW j, j = Change(op, a, d, 1, 1),
         NEW o \in Outcomes(j)
  PROVE  /\ o.mem = mem \/ o.mem = Effect(op, a, d)
         /\ o.ret = 0 => o.ok /\ o.mem = Effect(op, a, d) /\ Guarded(o.chip, chip)
  <1>1. j.wait = TRUE /\ j.done = 0 /\ j.late = 1 /\ j.bus = 1
    <2>1. PICK c : c = IF Banked THEN <<Cmd("wren"), Bank(a), Cmd("wren"), CmdTo(op, a, d)>>
                       ELSE <<Cmd("wren"), CmdTo(op, a, d)>>
      OBVIOUS
    <2>2. j = SendWait(c, 1)
      BY <2>1, ChangeCommands, Zenon
    <2> QED
      BY <2>2 DEF SendWait, Send
  <1>2. PICK m \in {1, 3} : /\ Len(j.cmds) = m + 1 /\ j.cmds[m + 1] = CmdTo(op, a, d)
                            /\ \A i \in 0 .. m : Sent(j.cmds, i) \in Quiet
                            /\ Sent(j.cmds, m).chip.wel
                            /\ Place(board.large, Sent(j.cmds, m).chip, a) = a
    BY EnabledPlace
  <1>13. PICK n, k, s, t : n = m + 1 /\ k = CmdTo(op, a, d) /\ s = Sent(j.cmds, m)
                           /\ t = Sent(j.cmds, n)
    OBVIOUS
  <1>3. /\ n = Len(j.cmds) /\ n \in {2, 4} /\ m = n - 1 /\ j.cmds[n] = k
        /\ \A i \in 0 .. m : Sent(j.cmds, i) \in Quiet
        /\ s.chip.wel /\ Place(board.large, s.chip, a) = a
    BY <1>2, <1>13
  <1>4. t = Hears(board.large, board.fab, s, k)
    <2>1. n \in 1 .. MaxSent
      BY <1>3 DEF MaxSent
    <2> QED
      BY <1>3, <1>13, <2>1, SentSteps
  <1>5. s \in Quiet
    <2>1. m \in 0 .. m
      BY <1>2
    <2> QED
      BY <1>3, <1>13, <2>1, Zenon
  <1>6. /\ k.op = op /\ k.a = a /\ k.d = d /\ k.lines = (IF Quad THEN 4 ELSE 1)
        /\ (k.four <=> ~ Three)
    BY <1>13 DEF CmdTo, Cmd
  <1>7. Understands(s.chip, k)
    BY <1>5, <1>6, QuietHears
  <1>8. board \in Boards
    BY DEF Known
  <1>9. t.mem = Effect(op, a, d) /\ t.chip.busy /\ Guarded(t.chip, chip)
    <2>1. k.op \in {"erase4k", "program"} /\ (k.op = "program" => k.d # << >>)
      BY <1>6
    <2>2. Place(board.large, s.chip, k.a) = k.a /\ ~ Protects(chip, Hit(k.op, k.a, k.d))
      BY <1>3, <1>6
    <2>3. t.mem = Effect(k.op, k.a, k.d) /\ t.chip.busy /\ Guarded(t.chip, chip)
      BY <1>3, <1>4, <1>5, <1>7, <1>8, <2>1, <2>2, Altered
    <2> QED
      BY <1>6, <2>3
  <1>10. \/ \E i \in 0 .. n : o = Result(Sent(j.cmds, i), j.bus, FALSE)
         \/ o \in Polled(t, j)
    <2>1. Len(j.cmds) \in Nat
      BY <1>3
    <2> QED
      BY <1>1, <1>3, <1>13, <2>1, OutcomeCases
  <1>11. CASE \E i \in 0 .. n : o = Result(Sent(j.cmds, i), j.bus, FALSE)
    <2>1. PICK i \in 0 .. n : o = Result(Sent(j.cmds, i), j.bus, FALSE)
      BY <1>11
    <2>2. PICK r : r = Sent(j.cmds, i)
      OBVIOUS
    <2>3. o.mem = r.mem /\ o.ret = 1
      BY <1>1, <2>1, <2>2 DEF Result
    <2>4. i \in 0 .. m \/ i = n
      BY <1>3
    <2>5. r.mem = mem \/ r.mem = Effect(op, a, d)
      <3>1. CASE i \in 0 .. m
        <4>1. r \in Quiet
          BY <1>3, <2>2, <3>1, Zenon
        <4> QED
          BY <4>1 DEF Quiet
      <3>2. CASE i = n
        BY <1>9, <1>13, <2>2, <3>2
      <3> QED
        BY <2>4, <3>1, <3>2
    <2> QED
      BY <2>3, <2>5
  <1>12. CASE o \in Polled(t, j)
    <2>1. /\ o.mem = t.mem
          /\ \/ o.chip = Ended(t.chip) /\ o.ok
             \/ o.chip = t.chip /\ o.ok
             \/ o.ret = 1
      <3>1. PICK h : h = Understands(t.chip, Cmd("status1"))
        OBVIOUS
      <3>2. \/ o = [chip |-> Ended(t.chip), mem |-> t.mem, ret |-> j.done, ok |-> TRUE]
            \/ o = [chip |-> t.chip, mem |-> t.mem, ret |-> j.done, ok |-> TRUE]
            \/ o = [chip |-> t.chip, mem |-> t.mem, ret |-> j.late, ok |-> FALSE]
        BY <1>12, PolledCases
      <3> QED
        BY <1>1, <3>2
    <2>2. Guarded(Ended(t.chip), chip)
      <3>1. \E c : c = t.chip /\ c \in Chip
        <4>1. s \in State /\ board.large \in BOOLEAN /\ board.fab \in [qe : BOOLEAN]
          BY <1>5, <1>8, BoardType DEF Quiet
        <4>2. CASE op = "erase4k"
          <5>1. op \notin Special
            BY <4>2 DEF Special, Modal, Programming
          <5>2. WellFormed(k)
            BY <1>13, <5>1, AddressedCommand DEF Simple
          <5> QED
            BY <1>4, <4>1, <5>2, HearsState DEF State
        <4>3. CASE op = "program"
          <5>1. op \in Programming /\ d \in Seq(Byte)
            BY <4>3 DEF Programming
          <5>2. WellFormed(k)
            BY <1>13, <5>1, AddressedCommand DEF Simple
          <5> QED
            BY <1>4, <4>1, <5>2, HearsState DEF State
        <4> QED
          BY <4>2, <4>3
      <3> QED
        BY <1>9 DEF Guarded, Ended
    <2> QED
      BY <1>9, <2>1, <2>2
  <1> QED
    BY <1>10, <1>11, <1>12

-------------------------------------------------------------------------------
(* Where the sectors of a request lie.                                     *)
LEMMA Monotone ==
  ASSUME NEW n \in Nat, n > 0, NEW x \in Nat, NEW y \in Nat, x <= y
  PROVE  x \div n <= y \div n
  <1>1. PICK p \in Int, r \in 0 .. n - 1 : x = (n * p) + r /\ p = x \div n
    BY Division
  <1>2. PICK q \in Int, z \in 0 .. n - 1 : y = (n * q) + z /\ q = y \div n
    BY Division
  <1> SUFFICES ASSUME q < p
               PROVE  FALSE
    BY <1>1, <1>2
  <1>3. PICK d \in Nat : p = q + 1 + d
    <2>1. p - q - 1 \in Nat /\ p = q + 1 + (p - q - 1)
      BY <1>1, <1>2
    <2> QED
      BY <2>1
  <1>4. n * p = n * q + n + n * d /\ n * d >= 0
    BY <1>2, <1>3
  <1> QED
    BY <1>1, <1>2, <1>4

LEMMA OwnSector ==
  ASSUME Underway, job.st # "idle", NEW x \in Addr, x \div SECTOR = job.a \div SECTOR
  PROVE  x \in Cells(asked)
  <1>1. PICK a, y, l : a = asked.a /\ y = job.a /\ l = Len(asked.d)
    OBVIOUS
  <1>2. PICK e : e = a + l - 1
    OBVIOUS
  <1>3. a \in Nat /\ y \in Nat /\ y \in Addr /\ e \in Nat /\ a <= y /\ y <= e
    <2>1. PICK m, k : m = Remain /\ k = Len(job.d)
      OBVIOUS
    <2>2. a \in Nat /\ y \in Nat /\ y \in Addr /\ l \in Nat /\ k \in Nat /\ m \in 1 .. k
          /\ a <= y /\ y + k = a + l
      BY <1>1, <2>1, WriteNumbers
    <2> QED
      BY <1>2, <2>2
  <1>4. SECTOR \in Nat /\ SECTOR > 0
    BY Geometry
  <1>5. a \div SECTOR <= y \div SECTOR /\ y \div SECTOR <= e \div SECTOR
    BY <1>3, <1>4, Monotone
  <1>6. a \div SECTOR \in Int /\ y \div SECTOR \in Int /\ e \div SECTOR \in Int
    BY <1>3, <1>4, Division
  <1>7. x \div SECTOR \in (a \div SECTOR) .. (e \div SECTOR)
    BY <1>1, <1>5, <1>6
  <1> QED
    BY <1>1, <1>2, <1>7 DEF Cells

(* What erasing the sector, and programming a page of it, reach.           *)
LEMMA SectorHit ==
  ASSUME Underway, job.st # "idle"
  PROVE  \A d : \A x \in Hit("erase4k", SectorOf(job.a), d) :
            x \in Addr /\ x \div SECTOR = job.a \div SECTOR
  <1>1. SectorOf(job.a) \div SECTOR = job.a \div SECTOR
    BY WriteNumbers, SectorFacts
  <1> QED
    BY <1>1 DEF Hit, Aligned

LEMMA PageHit ==
  ASSUME Underway, job.st = "pages", NEW d, d = SubSeq(job.src, 1, PageRemain),
         NEW x \in Addr, x \in Hit("program", job.at, d)
  PROVE  x \div SECTOR = job.a \div SECTOR
  <1>1. PICK t, p, n : t = job.at /\ p = PageRemain /\ n = Len(job.src)
    OBVIOUS
  <1>2. /\ n \in Nat /\ p \in 1 .. n /\ (t % PAGE) + p <= PAGE /\ t \in Addr /\ t \in Nat
        /\ job.src \in Seq(Byte) /\ PAGE \in Nat /\ PAGE > 0 /\ t % PAGE \in 0 .. PAGE - 1
        /\ (t % SECTOR) + n <= SECTOR
    BY <1>1, PageRemainFacts, Geometry
  <1>3. Len(d) = p
    BY <1>1, <1>2, Cut
  <1>4. p \in Nat /\ p <= PAGE - (t % PAGE)
    <2>1. PICK r \in 0 .. PAGE - 1 : r = t % PAGE
      BY <1>2
    <2> QED
      BY <1>2, <2>1
  <1>5. x \div PAGE = t \div PAGE /\ (x - t) % PAGE < p
    BY <1>1, <1>3 DEF Hit, Aligned
  <1>6. x \in Nat
    BY Geometry
  <1>7. t <= x /\ x < t + p
    BY <1>2, <1>4, <1>5, <1>6, SamePage
  <1>8. SectorOf(t) \in Nat /\ SectorOf(t) <= t /\ t % SECTOR = t - SectorOf(t)
    BY <1>2, SectorFacts
  <1>9. t + n <= SectorOf(t) + SECTOR
    BY <1>2, <1>8, Geometry
  <1>10. SectorOf(t) <= x /\ x < SectorOf(t) + SECTOR
    BY <1>2, <1>6, <1>7, <1>8, <1>9, Geometry
  <1>11. x \div SECTOR = t \div SECTOR
    BY <1>2, <1>6, <1>10, InSector
  <1>12. t \div SECTOR = job.a \div SECTOR
    BY <1>1 DEF Underway, JobFine
  <1> QED
    BY <1>11, <1>12

(* A sector lies in one bank, and in the chip if one of its bytes does.    *)
LEMMA SectorFits ==
  ASSUME board.large \in BOOLEAN, NEW a \in Addr, a < Capacity
  PROVE  Fits(SectorOf(a), SECTOR)
  <1>1. a \in Nat /\ BANK \in Nat /\ BANK > 0 /\ SECTOR \in Nat /\ SECTOR > 0
    BY Geometry
  <1>2. PICK b \in Int : BANK = SECTOR * b
    <2>1. PICK c, z : c = BANK \div SECTOR /\ z = BANK % SECTOR
      OBVIOUS
    <2>2. BANK = (SECTOR * c) + z /\ c \in Int
      <3>1. BANK \in Int
        BY <1>1
      <3> QED
        BY <1>1, <2>1, <3>1, Division
    <2>3. z = 0
      <3>1. BANK % SECTOR = 0
        BY GeometryAssumption
      <3> QED
        BY <2>1, <3>1
    <2> QED
      BY <1>1, <2>2, <2>3
  <1>3. PICK q \in Int, s \in Nat : s = SectorOf(a) /\ s = SECTOR * q /\ s <= a
    <2>1. SectorOf(a) \in Nat /\ SectorOf(a) <= a /\ a \div SECTOR \in Nat
      BY SectorFacts
    <2>2. PICK c \in Nat : c = a \div SECTOR
      BY <2>1
    <2>3. SectorOf(a) = SECTOR * c
      BY <1>1, <2>2 DEF SectorOf
    <2> QED
      BY <2>1, <2>2, <2>3
  <1>4. ASSUME NEW e \in Int, s < BANK * e
        PROVE  s + SECTOR <= BANK * e
    <2>1. BANK * e = SECTOR * (b * e) /\ b * e \in Int
      BY <1>1, <1>2
    <2>2. PICK c \in Int : c = b * e
      BY <2>1
    <2>3. SECTOR * q < SECTOR * c
      BY <1>3, <1>4, <2>1, <2>2
    <2>4. (SECTOR * q) + SECTOR <= SECTOR * c
      BY <1>1, <2>3, Multiples
    <2> QED
      BY <1>3, <2>1, <2>2, <2>4
  <1>5. s + SECTOR <= Capacity
    <2>1. s < Capacity
      <3>1. Capacity \in Nat
        BY <1>1 DEF Capacity
      <3> QED
        BY <1>1, <1>3, <3>1
    <2>2. Capacity = BANK * 2 \/ Capacity = BANK * 1
      BY <1>1 DEF Capacity
    <2>3. CASE Capacity = BANK * 2
      BY <1>4, <2>1, <2>3
    <2>4. CASE Capacity = BANK * 1
      BY <1>4, <2>1, <2>4
    <2> QED
      BY <2>2, <2>3, <2>4
  <1>6. s \div BANK = (s + SECTOR - 1) \div BANK
    <2>1. PICK e \in Int, r \in 0 .. BANK - 1 : s = (BANK * e) + r /\ e = s \div BANK
      BY <1>1, Division
    <2>2. PICK f \in Int : f = BANK * e
      BY <1>1
    <2>3. BANK * (e + 1) = f + BANK
      BY <1>1, <2>2
    <2>4. PICK g \in Int : g = e + 1
      OBVIOUS
    <2>5. s + SECTOR <= f + BANK
      <3>1. s < BANK * g
        BY <1>1, <2>1, <2>2, <2>3, <2>4
      <3> QED
        BY <1>4, <2>3, <2>4, <3>1
    <2>6. PICK x \in Int : x = s + SECTOR - 1
      BY <1>1
    <2>7. f <= x /\ x < f + BANK
      BY <1>1, <2>1, <2>2, <2>5, <2>6
    <2>8. x \div BANK = e
      BY <1>1, <2>2, <2>6, <2>7, Quotient
    <2> QED
      BY <2>1, <2>6, <2>8
  <1> QED
    BY <1>3, <1>5, <1>6 DEF Fits

-------------------------------------------------------------------------------
(* Each step of a write keeps it on course, and is a step of the store.    *)
LEMMA SafeKept ==
  ASSUME NEW r, NEW c, NEW d, Safe(r, c), Guarded(d, c)
  PROVE  Safe(r, d)
  BY SameProtection DEF Safe, Guarded

LEMMA ToldNext ==
  /\ res = -1 => Told = "nothing"
  /\ res' = -1 => Told' = "nothing"
  /\ res' = 0 => Told' = "done"
  /\ res' \in {1, 3, 4, 5} => Told' = "failed"
  BY DEF Told

LEMMA SoundNow ==
  ASSUME Known, Underway, Faithful, job.st # "idle", asked.sound
  PROVE  /\ trust = "in" /\ ~ chip.susp /\ ~ Protects(chip, Cells(asked)) /\ Safe(asked, chip)
         /\ OnCourse(job, asked, mem) /\ job.a < Capacity
         /\ SectorOf(job.a) \in Addr /\ SectorOf(job.a) < Capacity
         /\ Fits(SectorOf(job.a), SECTOR)
  <1>1. /\ trust = "in" /\ Safe(asked, chip) /\ OnCourse(job, asked, mem)
    BY DEF Faithful
  <1>2. ~ chip.susp /\ ~ Protects(chip, Cells(asked)) /\ asked.a + Len(asked.d) <= Capacity
    BY <1>1 DEF Safe
  <1>3. board.large \in BOOLEAN
    BY BoardType DEF Known
  <1>4. /\ job.a < Capacity
        /\ SectorOf(job.a) \in Addr /\ job.a \in Addr /\ SectorOf(job.a) < Capacity
    <2>1. PICK y, k, a, l, s, m, c : /\ y = job.a /\ k = Len(job.d) /\ a = asked.a /\ l = Len(asked.d)
                                     /\ s = SectorOf(job.a) /\ m = Remain /\ c = Capacity
      OBVIOUS
    <2>2. /\ y \in Nat /\ k \in Nat /\ m \in 1 .. k /\ a \in Nat /\ l \in Nat /\ y + k = a + l
          /\ s \in Nat /\ s <= y /\ s \in Addr /\ y \in Addr
      BY <2>1, WriteNumbers
    <2>3. c \in Nat /\ a + l <= c
      BY <1>2, <2>1, Geometry DEF Capacity
    <2>4. y < c /\ s < c
      BY <2>2, <2>3
    <2> QED
      BY <2>1, <2>2, <2>4
  <1>5. Fits(SectorOf(job.a), SECTOR)
    BY <1>3, <1>4, SectorFits
  <1> QED
    BY <1>1, <1>2, <1>4, <1>5

LEMMA SpareStep ==
  ASSUME Known, Underway, Faithful, job.st # "idle",
         asked.sound => \A x \in Addr : x \div SECTOR # job.a \div SECTOR => mem'[x] = mem[x]
  PROVE  Store!Spared
  <1> SUFFICES ASSUME asked.sound
               PROVE  \A x \in Addr \ Store!Touched(asked) : mem'[x] = asked.old[x]
    BY DEF Store!Spared
  <1>1. OnCourse(job, asked, mem)
    BY DEF Faithful
  <1>2. PICK m2 : m2 = mem'
    OBVIOUS
  <1>3. \A x \in Addr : x \div SECTOR # job.a \div SECTOR => m2[x] = mem[x]
    BY <1>2
  <1>4. \A x \in Addr \ Store!Touched(asked) : m2[x] = asked.old[x]
    BY <1>1, <1>3, OutsideSpared
  <1> QED
    BY <1>2, <1>4

LEMMA GoesOn ==
  ASSUME Known, Underway, job.st # "idle", Store!Spared, NEW j, Goes(j), board' = board,
         asked.sound => trust' = "in" /\ Safe(asked, chip') /\ OnCourse(j, asked, mem')
  PROVE  Faithful' /\ Store!Work
  <1>1. job' = j /\ res' = -1 /\ asked' = asked
    BY DEF Goes
  <1>2. Faithful'
    <2>1. Capacity' = Capacity
      BY DEF Capacity
    <2> QED
      BY <1>1, <2>1 DEF Faithful, Safe
  <1>3. asked.open
    BY DEF Underway, JobFine, InRequest, Requests
  <1>4. res = -1
    BY DEF Underway
  <1>5. Told' = Told
    BY <1>1, <1>4, ToldNext
  <1> QED
    BY <1>1, <1>2, <1>3, <1>5 DEF Store!Work

LEMMA GivesUp ==
  ASSUME Underway, job.st # "idle", Store!Spared, NEW code \in {1, 4, 5}, Returns(code)
  PROVE  Faithful' /\ Store!Failed
  <1>1. job' = Idle /\ res' = code /\ asked' = None
    BY DEF Returns
  <1>2. Faithful'
    BY <1>1 DEF Faithful, Idle
  <1>3. asked.open
    BY DEF Underway, JobFine, InRequest, Requests
  <1>4. Told' = "failed"
    BY <1>1, ToldNext
  <1>5. asked' = Store!None
    BY <1>1 DEF None, Store!None
  <1> QED
    BY <1>2, <1>3, <1>4, <1>5 DEF Store!Failed

LEMMA IsDone ==
  ASSUME Underway, job.st # "idle", Returns(0), asked.sound => mem' = Store!Overlaid(asked)
  PROVE  Faithful' /\ Store!Done
  <1>1. job' = Idle /\ res' = 0 /\ asked' = None
    BY DEF Returns
  <1>2. Faithful'
    BY <1>1 DEF Faithful, Idle
  <1>3. asked.open
    BY DEF Underway, JobFine, InRequest, Requests
  <1>4. Told' = "done"
    BY <1>1, ToldNext
  <1>5. asked' = Store!None
    BY <1>1 DEF None, Store!None
  <1> QED
    BY <1>2, <1>3, <1>4, <1>5 DEF Store!Done

LEMMA NotTornAhead ==
  ASSUME Known, Underway, Faithful, job.st = "read", asked.sound, NEW i \in 1 .. Remain
  PROVE  /\ mem[job.a + i - 1] # Torn
         /\ (job.a % SECTOR) + i \in 1 .. SECTOR
         /\ SectorOf(job.a) + ((job.a % SECTOR) + i) - 1 = job.a + i - 1
  <1>1. PICK a, y, m, l, s : /\ a = asked.a /\ y = job.a /\ m = Remain /\ l = Len(job.d)
                             /\ s = SectorOf(job.a)
    OBVIOUS
  <1>2. /\ a \in Nat /\ y \in Nat /\ y \in Addr /\ l \in Nat /\ m \in 1 .. l /\ a <= y /\ s \in Nat
        /\ s <= y /\ y + m <= s + SECTOR /\ y % SECTOR = y - s /\ y + l <= 2 * BANK
        /\ SECTOR \in Nat /\ BANK \in Nat
    BY <1>1, WriteNumbers, Geometry
  <1>12. i \in 1 .. m
    BY <1>1
  <1>3. PICK x \in Nat : x = y + i - 1
    BY <1>2, <1>12
  <1>4. x \in Addr /\ s <= x /\ x < s + SECTOR /\ y <= x
    BY <1>2, <1>3, <1>12 DEF Addr
  <1>5. x \div SECTOR = y \div SECTOR
    BY <1>1, <1>2, <1>3, <1>4, InSector
  <1>6. x \in Cells(asked)
    BY <1>1, <1>4, <1>5, OwnSector
  <1>7. Safe(asked, chip) /\ OnCourse(job, asked, mem)
    BY SoundNow
  <1>8. asked.old[x] # Torn
    BY <1>6, <1>7 DEF Safe
  <1>9. mem = Written(asked, y)
    BY <1>1, <1>7 DEF OnCourse
  <1>10. mem[x] = asked.old[x]
    <2>1. ~ (asked.a <= x /\ x < y)
      BY <1>2, <1>4
    <2> QED
      BY <1>4, <1>9, <2>1, WrittenAt
  <1>11. (y - s) + i \in 1 .. SECTOR /\ s + ((y - s) + i) - 1 = y + i - 1
    BY <1>2, <1>12
  <1>13. job.a % SECTOR = y - s
    BY <1>1, <1>2
  <1>14. mem[y + i - 1] # Torn
    BY <1>3, <1>8, <1>10
  <1> QED
    BY <1>1, <1>11, <1>13, <1>14, Zenon

(* Reading the sector.                                                    *)
LEMMA ReadCourse ==
  ASSUME Known, Underway, Faithful, WriteRead
  PROVE  Faithful' /\ (Store!Work \/ Store!Failed)
  <1>1. PICK j : j = a_w25qxx_read(SectorOf(job.a))
    OBVIOUS
  <1>2. PICK o \in Outcomes(j) :
           /\ Step(j, o)
           /\ IF o.ret # 0 THEN Returns(4)
              ELSE LET k == j.cmds[Len(j.cmds)]
                       buf == Answer([chip |-> o.chip, mem |-> o.mem], k, SECTOR)
                       range == { buf[(job.a % SECTOR) + i] : i \in 1 .. Remain }
                   IN \/ /\ range \subseteq {Erased, Torn}
                         /\ Goes(Program(job.a, SubSeq(job.d, 1, Remain)))
                      \/ /\ ~(range \subseteq {Erased})
                         /\ Goes([job EXCEPT !.st = "erase", !.buf = buf])
    BY <1>1 DEF WriteRead
  <1>3. job.st = "read" /\ job.st # "idle"
    BY DEF WriteRead
  <1>4. chip' = o.chip /\ mem' = o.mem /\ Keeps(o, trust) /\ board' = board
    BY <1>2 DEF Step
  <1>5. PICK k : k = j.cmds[Len(j.cmds)]
    OBVIOUS
  <1>6. PICK buf : buf = Answer([chip |-> o.chip, mem |-> o.mem], k, SECTOR)
    OBVIOUS
  <1>7. asked.sound => /\ o.mem = mem
                       /\ o.ret = 0 => /\ o.ok /\ Guarded(o.chip, chip)
                                       /\ buf = Wanted(SectorOf(job.a), SECTOR)
    <2> SUFFICES ASSUME asked.sound
                 PROVE  /\ o.mem = mem
                        /\ o.ret = 0 => /\ o.ok /\ Guarded(o.chip, chip)
                                        /\ buf = Wanted(SectorOf(job.a), SECTOR)
      OBVIOUS
    <2>1. trust = "in" /\ SectorOf(job.a) \in Addr /\ Fits(SectorOf(job.a), SECTOR)
      BY <1>3, SoundNow
    <2>2. PICK a \in Addr : a = SectorOf(job.a)
      BY <2>1
    <2>3. /\ o.mem = mem
          /\ o.ret = 0 => /\ o.ok /\ Guarded(o.chip, chip)
                          /\ Answer([chip |-> o.chip, mem |-> o.mem], k, SECTOR) = Wanted(a, SECTOR)
      BY <1>1, <1>2, <1>5, <2>1, <2>2, SoundRead
    <2> QED
      BY <1>6, <2>2, <2>3
  <1>8. Store!Spared
    <2>1. asked.sound => \A x \in Addr : x \div SECTOR # job.a \div SECTOR => mem'[x] = mem[x]
      BY <1>4, <1>7
    <2> QED
      BY <1>3, <2>1, SpareStep
  <1>9. CASE o.ret # 0
    <2>1. Returns(4)
      BY <1>2, <1>9
    <2> QED
      BY <1>3, <1>8, <2>1, GivesUp
  <1>10. CASE o.ret = 0
    <2>1. asked.sound => /\ trust' = "in" /\ Safe(asked, chip') /\ mem' = mem
                         /\ OnCourse(job, asked, mem)
                         /\ \A i \in 1 .. SECTOR : buf[i] = mem[SectorOf(job.a) + i - 1]
      <3> SUFFICES ASSUME asked.sound
                   PROVE  /\ trust' = "in" /\ Safe(asked, chip') /\ mem' = mem
                          /\ OnCourse(job, asked, mem)
                          /\ \A i \in 1 .. SECTOR : buf[i] = mem[SectorOf(job.a) + i - 1]
        OBVIOUS
      <3>1. trust = "in" /\ Safe(asked, chip) /\ OnCourse(job, asked, mem)
        BY <1>3, SoundNow
      <3>2. o.ok /\ Guarded(o.chip, chip) /\ buf = Wanted(SectorOf(job.a), SECTOR) /\ o.mem = mem
        BY <1>7, <1>10
      <3>3. trust' = "in"
        BY <1>4, <3>1, <3>2 DEF Keeps
      <3>4. Safe(asked, chip')
        BY <1>4, <3>1, <3>2, SafeKept
      <3>5. \A i \in 1 .. SECTOR : buf[i] = mem[SectorOf(job.a) + i - 1]
        BY <3>2 DEF Wanted
      <3> QED
        BY <1>4, <3>1, <3>2, <3>3, <3>4, <3>5
    <2>2. PICK range : range = { buf[(job.a % SECTOR) + i] : i \in 1 .. Remain }
      OBVIOUS
    <2>3. \/ range \subseteq {Erased, Torn} /\ Goes(Program(job.a, SubSeq(job.d, 1, Remain)))
          \/ Goes([job EXCEPT !.st = "erase", !.buf = buf])
      BY <1>2, <1>5, <1>6, <1>10, <2>2
    <2>4. CASE range \subseteq {Erased, Torn} /\ Goes(Program(job.a, SubSeq(job.d, 1, Remain)))
      <3>1. PICK q : q = Program(job.a, SubSeq(job.d, 1, Remain))
        OBVIOUS
      <3>2. asked.sound => OnCourse(q, asked, mem)
        <4> SUFFICES ASSUME asked.sound
                     PROVE  OnCourse(q, asked, mem)
          OBVIOUS
        <4>1. ASSUME NEW i \in 1 .. Remain
              PROVE  mem[job.a + i - 1] = Erased
          <5>1. PICK n : n = (job.a % SECTOR) + i
            OBVIOUS
          <5>2. /\ mem[job.a + i - 1] # Torn /\ n \in 1 .. SECTOR
                /\ SectorOf(job.a) + n - 1 = job.a + i - 1
            BY <1>3, <5>1, NotTornAhead
          <5>3. buf[n] = mem[job.a + i - 1]
            BY <2>1, <5>2
          <5>4. buf[n] \in {Erased, Torn}
            BY <2>2, <2>4, <5>1
          <5> QED
            BY <5>2, <5>3, <5>4
        <4>2. OnCourse(job, asked, mem)
          BY <2>1
        <4> QED
          BY <1>3, <3>1, <4>1, <4>2, CourseToPages
      <3>3. Goes(q)
        BY <2>4, <3>1
      <3>4. asked.sound => trust' = "in" /\ Safe(asked, chip') /\ OnCourse(q, asked, mem')
        BY <2>1, <3>2
      <3> QED
        BY <1>3, <1>4, <1>8, <3>3, <3>4, GoesOn
    <2>5. CASE Goes([job EXCEPT !.st = "erase", !.buf = buf])
      <3>1. PICK q : q = [job EXCEPT !.st = "erase", !.buf = buf]
        OBVIOUS
      <3>2. asked.sound => OnCourse(q, asked, mem)
        <4> SUFFICES ASSUME asked.sound
                     PROVE  OnCourse(q, asked, mem)
          OBVIOUS
        <4> QED
          BY <1>3, <2>1, <3>1, CourseToErase
      <3>3. Goes(q)
        BY <2>5, <3>1
      <3>4. asked.sound => trust' = "in" /\ Safe(asked, chip') /\ OnCourse(q, asked, mem')
        BY <2>1, <3>2
      <3> QED
        BY <1>3, <1>4, <1>8, <3>3, <3>4, GoesOn
    <2> QED
      BY <2>3, <2>4, <2>5
  <1> QED
    BY <1>9, <1>10

(* Erasing it.                                                             *)
LEMMA EraseCourse ==
  ASSUME Known, Underway, Faithful, WriteErase
  PROVE  Faithful' /\ (Store!Work \/ Store!Failed)
  <1>1. PICK j, a : j = a_w25qxx_erase_sector(a) /\ a = SectorOf(job.a)
    OBVIOUS
  <1>2. PICK o \in Outcomes(j) :
           /\ Step(j, o)
           /\ IF o.ret # 0 THEN Returns(5)
              ELSE Goes([Program(SectorOf(job.a), Merged) EXCEPT !.buf = << >>])
    BY <1>1 DEF WriteErase
  <1>3. job.st = "erase" /\ job.st # "idle"
    BY DEF WriteErase
  <1>4. chip' = o.chip /\ mem' = o.mem /\ Keeps(o, trust) /\ board' = board
    BY <1>2 DEF Step
  <1>5. PICK e : e = ErasedIn(mem, Aligned(SECTOR, a))
    OBVIOUS
  <1>6. asked.sound => /\ o.mem = mem \/ o.mem = e
                       /\ o.ret = 0 => o.ok /\ Guarded(o.chip, chip) /\ o.mem = e
    <2> SUFFICES ASSUME asked.sound
                 PROVE  /\ o.mem = mem \/ o.mem = e
                        /\ o.ret = 0 => o.ok /\ Guarded(o.chip, chip) /\ o.mem = e
      OBVIOUS
    <2>1. trust = "in" /\ ~ chip.susp /\ ~ Protects(chip, Cells(asked)) /\ a \in Addr /\ a < Capacity
      BY <1>1, <1>3, SoundNow
    <2>2. PICK d : d = << >>
      OBVIOUS
    <2>3. \A x \in Hit("erase4k", a, d) : x \in Cells(asked)
      BY <1>1, <1>3, SectorHit, OwnSector
    <2>4. ~ Protects(chip, Hit("erase4k", a, d))
      BY <2>1, <2>3, LessProtected
    <2>5. j = Change("erase4k", a, d, 1, 1)
      BY <1>1, <2>2 DEF a_w25qxx_erase_sector
    <2>6. Effect("erase4k", a, d) = e
      BY <1>5 DEF Effect
    <2>7. PICK op \in {"erase4k", "program"} : op = "erase4k"
      OBVIOUS
    <2>8. /\ o.mem = mem \/ o.mem = Effect(op, a, d)
          /\ o.ret = 0 => o.ok /\ o.mem = Effect(op, a, d) /\ Guarded(o.chip, chip)
      BY <2>1, <2>4, <2>5, <2>7, ChangeWorks
    <2> QED
      BY <2>6, <2>7, <2>8
  <1>7. Store!Spared
    <2>1. \A x \in Addr : x \div SECTOR # job.a \div SECTOR => e[x] = mem[x]
      <3>1. a \div SECTOR = job.a \div SECTOR
        BY <1>1, <1>3, WriteNumbers, SectorFacts
      <3> QED
        BY <1>5, <3>1 DEF ErasedIn, Aligned
    <2>2. asked.sound => \A x \in Addr : x \div SECTOR # job.a \div SECTOR => mem'[x] = mem[x]
      BY <1>4, <1>6, <2>1
    <2> QED
      BY <1>3, <2>2, SpareStep
  <1>8. CASE o.ret # 0
    <2>1. Returns(5)
      BY <1>2, <1>8
    <2> QED
      BY <1>3, <1>7, <2>1, GivesUp
  <1>9. CASE o.ret = 0
    <2>1. PICK q : q = [Program(SectorOf(job.a), Merged) EXCEPT !.buf = << >>]
      OBVIOUS
    <2>2. Goes(q)
      BY <1>2, <1>9, <2>1
    <2>3. asked.sound => trust' = "in" /\ Safe(asked, chip') /\ OnCourse(q, asked, mem')
      <3> SUFFICES ASSUME asked.sound
                   PROVE  trust' = "in" /\ Safe(asked, chip') /\ OnCourse(q, asked, mem')
        OBVIOUS
      <3>1. trust = "in" /\ Safe(asked, chip) /\ OnCourse(job, asked, mem)
        BY <1>3, SoundNow
      <3>2. o.ok /\ Guarded(o.chip, chip) /\ o.mem = e
        BY <1>6, <1>9
      <3>3. trust' = "in"
        BY <1>4, <3>1, <3>2 DEF Keeps
      <3>4. Safe(asked, chip')
        BY <1>4, <3>1, <3>2, SafeKept
      <3>5. OnCourse(q, asked, e)
        BY <1>1, <1>3, <1>5, <2>1, <3>1, CourseToRewrite
      <3> QED
        BY <1>4, <3>2, <3>3, <3>4, <3>5
    <2> QED
      BY <1>3, <1>4, <1>7, <2>2, <2>3, GoesOn
  <1> QED
    BY <1>8, <1>9

(* Programming a page of it.                                               *)
LEMMA PageCourse ==
  ASSUME Known, Underway, Faithful, WritePage
  PROVE  Faithful' /\ (Store!Work \/ Store!Failed \/ Store!Done)
  <1>1. PICK j, s, t : /\ j = a_w25qxx_page_program(t, s) /\ t = job.at
                       /\ s = SubSeq(job.src, 1, PageRemain)
    OBVIOUS
  <1>2. PICK o \in Outcomes(j) :
           /\ Step(j, o)
           /\ IF o.ret # 0 THEN Returns(1)
              ELSE IF Len(job.src) = PageRemain THEN SectorDone
              ELSE Goes(Program(job.at + PageRemain,
                                SubSeq(job.src, PageRemain + 1, Len(job.src))))
    BY <1>1 DEF WritePage
  <1>3. job.st = "pages" /\ job.st # "idle"
    BY DEF WritePage
  <1>4. chip' = o.chip /\ mem' = o.mem /\ Keeps(o, trust) /\ board' = board
    BY <1>2 DEF Step
  <1>5. PICK e : e = Programmed(mem, t, s)
    OBVIOUS
  <1>6. s \in Seq(Byte) /\ s # << >> /\ t \in Addr
    <2>1. PICK p, n : p = PageRemain /\ n = Len(job.src)
      OBVIOUS
    <2>2. n \in Nat /\ p \in 1 .. n /\ job.src \in Seq(Byte) /\ t \in Addr
      BY <1>1, <1>3, <2>1, PageRemainFacts
    <2>3. s \in Seq(Byte) /\ Len(s) = p
      BY <1>1, <2>1, <2>2, Cut
    <2>4. Len(s) >= 1
      BY <2>2, <2>3
    <2> QED
      BY <2>2, <2>3, <2>4, NotEmpty
  <1>7. asked.sound => t < Capacity
    <2> SUFFICES ASSUME asked.sound
                 PROVE  t < Capacity
      OBVIOUS
    <2>1. Fits(SectorOf(job.a), SECTOR)
      BY <1>3, SoundNow
    <2>2. SectorOf(job.a) + SECTOR <= Capacity
      BY <2>1 DEF Fits
    <2>3. t \div SECTOR = job.a \div SECTOR
      BY <1>1, <1>3 DEF Underway, JobFine
    <2>4. t \in Nat /\ job.a \in Addr /\ SectorOf(job.a) \in Nat /\ SECTOR \in Nat
      BY <1>3, <1>6, WriteNumbers, Geometry
    <2>5. t < SectorOf(job.a) + SECTOR
      BY <2>3, <2>4, InSector
    <2>6. Capacity \in Nat
      BY Geometry DEF Capacity
    <2> QED
      BY <2>2, <2>4, <2>5, <2>6
  <1>8. asked.sound => /\ o.mem = mem \/ o.mem = e
                       /\ o.ret = 0 => o.ok /\ Guarded(o.chip, chip) /\ o.mem = e
    <2> SUFFICES ASSUME asked.sound
                 PROVE  /\ o.mem = mem \/ o.mem = e
                        /\ o.ret = 0 => o.ok /\ Guarded(o.chip, chip) /\ o.mem = e
      OBVIOUS
    <2>1. trust = "in" /\ ~ chip.susp /\ ~ Protects(chip, Cells(asked)) /\ t < Capacity
      BY <1>3, <1>7, SoundNow
    <2>2. \A x \in Hit("program", t, s) : x \in Cells(asked)
      <3>1. \A x \in Hit("program", t, s) : x \in Addr
        BY DEF Hit, Aligned
      <3> QED
        BY <1>1, <1>3, <3>1, PageHit, OwnSector
    <2>3. ~ Protects(chip, Hit("program", t, s))
      BY <2>1, <2>2, LessProtected
    <2>4. j = Change("program", t, s, 1, 1)
      BY <1>1 DEF a_w25qxx_page_program
    <2>5. Effect("program", t, s) = e
      BY <1>5 DEF Effect
    <2>6. PICK op \in {"erase4k", "program"} : op = "program"
      OBVIOUS
    <2>7. /\ o.mem = mem \/ o.mem = Effect(op, t, s)
          /\ o.ret = 0 => o.ok /\ o.mem = Effect(op, t, s) /\ Guarded(o.chip, chip)
      BY <1>6, <2>1, <2>3, <2>4, <2>6, ChangeWorks
    <2> QED
      BY <2>5, <2>6, <2>7
  <1>9. Store!Spared
    <2>1. ASSUME NEW x \in Addr, x \div SECTOR # job.a \div SECTOR
          PROVE  e[x] = mem[x]
      <3>1. x \notin Hit("program", t, s)
        BY <1>1, <1>3, <2>1, PageHit
      <3>2. ~ (x \div PAGE = t \div PAGE /\ (x - t) % PAGE < Len(s))
        BY <3>1 DEF Hit, Aligned
      <3> QED
        BY <1>5, <3>2 DEF Programmed
    <2>2. asked.sound => \A x \in Addr : x \div SECTOR # job.a \div SECTOR => mem'[x] = mem[x]
      BY <1>4, <1>8, <2>1
    <2> QED
      BY <1>3, <2>2, SpareStep
  <1>10. CASE o.ret # 0
    <2>1. Returns(1)
      BY <1>2, <1>10
    <2> QED
      BY <1>3, <1>9, <2>1, GivesUp
  <1>11. CASE o.ret = 0
    <2>1. asked.sound => trust' = "in" /\ Safe(asked, chip') /\ mem' = e /\ OnCourse(job, asked, mem)
      <3> SUFFICES ASSUME asked.sound
                   PROVE  /\ trust' = "in" /\ Safe(asked, chip') /\ mem' = e
                          /\ OnCourse(job, asked, mem)
        OBVIOUS
      <3>1. trust = "in" /\ Safe(asked, chip) /\ OnCourse(job, asked, mem)
        BY <1>3, SoundNow
      <3>2. o.ok /\ Guarded(o.chip, chip) /\ o.mem = e
        BY <1>8, <1>11
      <3>3. trust' = "in"
        BY <1>4, <3>1, <3>2 DEF Keeps
      <3>4. Safe(asked, chip')
        BY <1>4, <3>1, <3>2, SafeKept
      <3> QED
        BY <1>4, <3>1, <3>2, <3>3, <3>4
    <2>2. CASE Len(job.src) # PageRemain
      <3>1. PICK q : q = Program(job.at + PageRemain,
                                 SubSeq(job.src, PageRemain + 1, Len(job.src)))
        OBVIOUS
      <3>2. Goes(q)
        BY <1>2, <1>11, <2>2, <3>1
      <3>3. asked.sound => OnCourse(q, asked, e)
        <4> SUFFICES ASSUME asked.sound
                     PROVE  OnCourse(q, asked, e)
          OBVIOUS
        <4> QED
          BY <1>1, <1>3, <1>5, <2>1, <2>2, <3>1, CourseToPage
      <3>4. asked.sound => trust' = "in" /\ Safe(asked, chip') /\ OnCourse(q, asked, mem')
        BY <2>1, <3>3
      <3> QED
        BY <1>3, <1>4, <1>9, <3>2, <3>4, GoesOn
    <2>3. CASE Len(job.src) = PageRemain
      <3>1. asked.sound => e = Written(asked, SectorEnd(job))
        <4> SUFFICES ASSUME asked.sound
                     PROVE  e = Written(asked, SectorEnd(job))
          OBVIOUS
        <4> QED
          BY <1>1, <1>3, <1>5, <2>1, <2>3, LastPage
      <3>2. SectorDone
        BY <1>2, <1>11, <2>3
      <3>3. CASE Len(job.d) = Remain
        <4>1. Returns(0)
          BY <3>2, <3>3 DEF SectorDone
        <4>2. asked.sound => mem' = Store!Overlaid(asked)
          BY <1>3, <2>1, <3>1, <3>3, AllWritten
        <4> QED
          BY <1>3, <4>1, <4>2, IsDone
      <3>4. CASE Len(job.d) # Remain
        <4>1. PICK q : q = [Idle EXCEPT !.st = "read", !.a = job.a + Remain,
                                        !.d = SubSeq(job.d, Remain + 1, Len(job.d))]
          OBVIOUS
        <4>2. Goes(q)
          BY <3>2, <3>4, <4>1 DEF SectorDone
        <4>3. asked.sound => OnCourse(q, asked, e)
          <5> SUFFICES ASSUME asked.sound
                       PROVE  OnCourse(q, asked, e)
            OBVIOUS
          <5> QED
            BY <1>3, <2>1, <3>1, <3>4, <4>1, CourseToSector
        <4>4. asked.sound => trust' = "in" /\ Safe(asked, chip') /\ OnCourse(q, asked, mem')
          BY <2>1, <4>3
        <4> QED
          BY <1>3, <1>4, <1>9, <4>2, <4>4, GoesOn
      <3> QED
        BY <3>3, <3>4
    <2> QED
      BY <2>2, <2>3
  <1> QED
    BY <1>10, <1>11

(* Asking for it.                                                          *)
LEMMA BeginCourse ==
  ASSUME Known, Underway, NEW w \in Writes, WriteBegin(w[1], w[2])
  PROVE  Faithful' /\ (Store!Request \/ Store!Refused)
  <1>1. PICK a, d : a = w[1] /\ d = w[2]
    OBVIOUS
  <1>2. a \in Addr /\ a \in Nat /\ d \in Seq(SUBSET Bits)
    BY <1>1, CallsAssumption, Geometry
  <1>3. UNCHANGED <<board, handle, chip, mem, trust>>
    BY DEF WriteBegin
  <1>4. asked = None /\ ~ asked.open
    BY DEF WriteBegin, Underway, JobFine, None
  <1>5. CASE ~ handle.inited
    <2>1. job' = Idle /\ res' = 3 /\ asked' = None
      BY <1>5 DEF WriteBegin, Returns
    <2>2. Told' = "failed"
      BY <2>1, ToldNext
    <2>3. Store!Refused
      BY <1>3, <1>4, <2>1, <2>2 DEF Store!Refused
    <2> QED
      BY <2>1, <2>3 DEF Faithful, Idle
  <1>6. CASE handle.inited
    <2>1. PICK r : r = [a |-> a, d |-> d, old |-> mem, sound |-> Sound(a, d), open |-> TRUE]
      OBVIOUS
    <2>2. PICK j : j = [Idle EXCEPT !.st = "read", !.a = a, !.d = d]
      OBVIOUS
    <2>3. job' = j /\ asked' = r /\ res' = -1
      BY <1>1, <1>6, <2>1, <2>2 DEF WriteBegin
    <2>4. r.a = a /\ r.d = d /\ r.old = mem /\ (r.sound <=> Sound(a, d)) /\ r.open
      BY <2>1
    <2>5. j.st = "read" /\ j.a = a /\ j.d = d
      BY <2>2 DEF Idle
    <2>6. Sound(a, d) => trust = "in" /\ Safe(r, chip)
      <3>1. Cells(r) = { x \in Addr : x \div SECTOR \in
                           (a \div SECTOR) .. ((a + Len(d) - 1) \div SECTOR) }
        BY <2>4 DEF Cells
      <3> QED
        BY <2>4, <3>1 DEF Sound, Safe
    <2>7. OnCourse(j, r, mem)
      <3>1. mem = Written(r, a)
        <4>1. \A x \in Addr : ~ (a <= x /\ x < a)
          BY <1>2, Geometry
        <4>2. mem = [x \in Addr |-> mem[x]]
          BY DEF Known, Legal, State, Now
        <4> QED
          BY <2>4, <4>1, <4>2 DEF Written
      <3>2. ASSUME NEW i \in 1 .. Len(d)
            PROVE  d[i] = d[(a - a) + i]
        <4>1. (a - a) + i = i
          BY <1>2
        <4> QED
          BY <4>1
      <3> QED
        BY <2>4, <2>5, <3>1, <3>2 DEF OnCourse
    <2>8. Faithful'
      <3>1. Capacity' = Capacity
        BY <1>3 DEF Capacity
      <3> QED
        BY <1>3, <2>3, <2>4, <2>6, <2>7, <3>1 DEF Faithful, Safe
    <2>9. Told' = "nothing"
      BY <2>3, ToldNext
    <2>10. Store!Request
      BY <1>3, <1>4, <2>3, <2>4, <2>9 DEF Store!Request
    <2> QED
      BY <2>8, <2>10
  <1> QED
    BY <1>5, <1>6

(* While no write is under way the array is the other functions'.          *)
LEMMA RestCourse ==
  ASSUME Underway, Known', Rests
  PROVE  Faithful' /\ Store!Direct
  <1>1. job.st = "idle" /\ job' = job /\ asked' = asked /\ res' = -1
    BY DEF Rests
  <1>2. asked = None /\ ~ asked.open
    BY <1>1 DEF Underway, JobFine, None
  <1>3. mem' \in [Addr -> Byte]
    BY DEF Known, Legal, State, Now
  <1>4. Told' = "nothing"
    BY <1>1, ToldNext
  <1>5. Store!Direct
    BY <1>1, <1>2, <1>3, <1>4 DEF Store!Direct
  <1> QED
    BY <1>1, <1>5 DEF Faithful

LEMMA RestartCourse ==
  ASSUME Known, Underway, Faithful, Known', NEW s, Restart(s), chip.work = {} => s.mem = mem
  PROVE  Faithful' /\ (Store!Direct \/ Store!Failed)
  <1>1. CASE job.st = "idle"
    <2>1. Rests
      BY <1>1 DEF Restart, Rests
    <2> QED
      BY <2>1, RestCourse
  <1>2. CASE job.st # "idle"
    <2>1. Returns(1) /\ mem' = s.mem
      BY <1>2 DEF Restart
    <2>2. asked.sound => mem' = mem
      <3> SUFFICES ASSUME asked.sound
                   PROVE  mem' = mem
        OBVIOUS
      <3>1. trust = "in" /\ ~ chip.susp
        BY <1>2, SoundNow
      <3>2. ~ chip.busy /\ (chip.work = {} \/ chip.busy \/ chip.susp)
        BY <3>1 DEF Known, InStep, Legal, Now
      <3> QED
        BY <2>1, <3>1, <3>2
    <2>3. Store!Spared
      BY <1>2, <2>2, SpareStep
    <2> QED
      BY <1>2, <2>1, <2>3, GivesUp
  <1> QED
    BY <1>1, <1>2

LEMMA FaultCourse ==
  ASSUME Known, Underway, Faithful, Known', Faults
  PROVE  /\ Faithful'
         /\ Store!Direct \/ Store!Failed \/ UNCHANGED <<mem, asked, Told>>
  <1>1. CASE ChipEnds
    <2>1. chip.busy /\ UNCHANGED <<board, mem, job, res, trust, asked>>
      BY <1>1 DEF ChipEnds
    <2>2. trust # "in"
      BY <2>1 DEF Known, InStep
    <2>3. Told' = Told
      BY <2>1 DEF Told
    <2> QED
      BY <2>1, <2>2, <2>3 DEF Faithful
  <1>2. CASE PowerFails
    <2>1. PICK s : s = PowerLost(board.fab, [chip |-> chip, mem |-> mem])
      OBVIOUS
    <2>2. s.mem = TornIn(mem, chip.work)
      BY <2>1 DEF PowerLost
    <2>3. mem = [x \in Addr |-> mem[x]]
      BY DEF Known, Legal, State, Now
    <2>4. chip.work = {} => s.mem = mem
      BY <2>2, <2>3 DEF TornIn
    <2>5. Restart(s)
      BY <1>2, <2>1 DEF PowerFails
    <2> QED
      BY <2>4, <2>5, RestartCourse
  <1>3. CASE McuResets
    <2>1. PICK s : s = [chip |-> chip, mem |-> mem]
      OBVIOUS
    <2>2. Restart(s) /\ s.mem = mem
      BY <1>3, <2>1 DEF McuResets
    <2> QED
      BY <2>2, RestartCourse
  <1> QED
    BY <1>1, <1>2, <1>3 DEF Faults

LEMMA InitStore == Init => Store!Init /\ Faithful
  <1> SUFFICES ASSUME Init
               PROVE  Store!Init /\ Faithful
    OBVIOUS
  <1>1. mem \in [Addr -> Byte]
    BY InitIInv DEF IInv, Known, Legal, State, Now
  <1>2. res = -1 /\ asked = None /\ job = Idle
    BY DEF Init
  <1>3. Told = "nothing"
    BY <1>2, ToldNext
  <1>4. asked = Store!None
    BY <1>2 DEF None, Store!None
  <1>5. Store!Init
    BY <1>1, <1>3, <1>4 DEF Store!Init
  <1> QED
    BY <1>2, <1>5 DEF Faithful, Idle

LEMMA StepImplements ==
  IInv /\ Faithful /\ IInv' /\ [Next]_vars => Faithful' /\ [Store!Next]_<<mem, asked, Told>>
  <1> SUFFICES ASSUME IInv, Faithful, IInv', [Next]_vars
               PROVE  Faithful' /\ [Store!Next]_<<mem, asked, Told>>
    OBVIOUS
  <1>1. Known /\ Underway /\ Known'
    BY DEF IInv
  <1>2. ASSUME Rests
        PROVE  Faithful' /\ [Store!Next]_<<mem, asked, Told>>
    BY <1>1, <1>2, RestCourse DEF Store!Next
  <1>3. CASE Configuring \/ Modes
    BY <1>2, <1>3, ConfiguringRests, ModesRest
  <1>4. CASE Asking \/ Protecting \/ Changing
    BY <1>1, <1>2, <1>4, AskingKeeps, ProtectingKeeps, ChangingKeeps
  <1>5. CASE Reading
    BY <1>1, <1>2, <1>5, ReadingKeeps
  <1>6. CASE \E w \in Writes : WriteBegin(w[1], w[2])
    BY <1>1, <1>6, BeginCourse DEF Store!Next
  <1>7. CASE Continuing
    <2>1. Faithful' /\ (Store!Work \/ Store!Failed \/ Store!Done)
      BY <1>1, <1>7, ReadCourse, EraseCourse, PageCourse DEF Continuing
    <2> QED
      BY <2>1 DEF Store!Next
  <1>8. CASE Faults
    BY <1>1, <1>8, FaultCourse DEF Store!Next
  <1>9. CASE UNCHANGED vars
    <2>1. UNCHANGED <<board, chip, mem, job, res, trust, asked>>
      BY <1>9 DEF vars
    <2>2. Told' = Told
      BY <2>1 DEF Told
    <2>3. Capacity' = Capacity
      BY <2>1 DEF Capacity
    <2> QED
      BY <2>1, <2>2, <2>3 DEF Faithful, Safe
  <1> QED
    BY <1>3, <1>4, <1>5, <1>6, <1>7, <1>8, <1>9 DEF Next, Writing

(* To its caller w25qxx_write replaces bytes in place, and loses at most   *)
(* the sectors of the request when it fails or is cut off.                 *)
THEOREM Refinement == Spec => WritesInPlace
  <1>1. Init => Store!Init /\ Faithful
    BY InitStore
  <1> QED
    BY <1>1, StepImplements, Invariance, PTL DEF Spec, WritesInPlace, Store!Spec
===============================================================================
