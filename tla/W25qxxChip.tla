------------------------------ MODULE W25qxxChip ------------------------------
(***************************************************************************)
(* The flash chip the driver of src/components/w25qxx talks to, as the     *)
(* driver uses it: what a chip of the W25Q family does with each command.  *)
(* The chip is not in the repository.                                      *)
(*                                                                         *)
(* A byte is the set of its bits that are 1: erasing sets all bits, and    *)
(* programming only clears bits.  A byte whose erasure or programming was  *)
(* cut off is Torn: nothing is known of what it reads as.                  *)
(***************************************************************************)
EXTENDS Integers, Sequences

CONSTANTS
    Bits,       \* the bits of a byte
    Unknown,    \* no bit: what is in a byte of unknown contents
    PAGE,       \* 256: bytes programmed by one command
    SECTOR,     \* 4096: bytes erased by the smallest erase command
    BLOCK32,    \* 32768
    BLOCK64,    \* 65536
    BANK        \* 2^24: bytes an address of three bytes reaches

ASSUME GeometryAssumption ==
    /\ {PAGE, SECTOR, BLOCK32, BLOCK64, BANK} \subseteq Nat \ {0}
    /\ SECTOR % PAGE = 0 /\ BANK % SECTOR = 0
    /\ Unknown \notin Bits

Erased  == Bits
Torn    == {Unknown}
Byte    == (SUBSET Bits) \cup {Torn}
Addr    == 0 .. 2 * BANK - 1
Sectors == { a \div SECTOR : a \in Addr }

(* Programming can only clear bits.                                        *)
And(x, y) == IF Torn \in {x, y} THEN Torn ELSE x \cap y

Chip == [qpi   : BOOLEAN,         \* commands are taken on four lines
         four  : BOOLEAN,         \* addresses have four bytes
         ext   : {0, 1},          \* the extended address register
         wel   : BOOLEAN,         \* write enable latch
         vol   : BOOLEAN,         \* write enable for the volatile status
         down  : BOOLEAN,         \* powered down
         armed : BOOLEAN,         \* the next command may be the reset
         busy  : BOOLEAN,         \* an erasure or programming runs
         susp  : BOOLEAN,         \* ... and is suspended
         work  : SUBSET Addr,     \* the bytes it changes
         qe    : BOOLEAN,         \* four lines may be used
         dummy : {2, 8},          \* clocks before the data when read by QPI
         prot  : BOOLEAN,         \* status register 1 protects the array
         wps   : BOOLEAN,         \* status register 3: the locks count
         locks : SUBSET Sectors]

(* What power-on and the reset command leave; fab is what the chip holds   *)
(* of each setting for good.                                               *)
Fresh(fab) == [qpi |-> FALSE, four |-> FALSE, ext |-> 0, wel |-> FALSE,
               vol |-> FALSE, down |-> FALSE, armed |-> FALSE, busy |-> FALSE,
               susp |-> FALSE, work |-> {}, qe |-> fab.qe, dummy |-> 2,
               prot |-> FALSE, wps |-> FALSE, locks |-> Sectors]

(* The byte of the array that a command's address names.                   *)
Place(large, c, a) == IF c.four THEN a
                      ELSE (a % BANK) + (IF large THEN c.ext * BANK ELSE 0)

(* A command k is a record of its name op, the lines and the length of the *)
(* address it is sent with, its address a and its data d.                  *)
Understands(c, k) ==
    /\ k.lines = (IF c.qpi THEN 4 ELSE 1)
    /\ c.down => k.op = "release"
    /\ c.busy => k.op \in {"status1", "status2", "status3", "suspend",
                           "rsten", "reset"}
    /\ k.addressed => (k.four <=> c.four)

Protects(c, cells) == IF c.wps THEN \E x \in cells : x \div SECTOR \in c.locks
                               ELSE c.prot

Aligned(size, p) == { x \in Addr : x \div size = p \div size }

(* The bytes that a command changes, and what to.                          *)
Reached(large, c, k) ==
    LET p == Place(large, c, k.a) IN
    CASE k.op = "erase4k"  -> Aligned(SECTOR, p)
      [] k.op = "erase32k" -> Aligned(BLOCK32, p)
      [] k.op = "erase64k" -> Aligned(BLOCK64, p)
      [] k.op = "erasechip" -> IF large THEN Addr ELSE 0 .. BANK - 1
      [] k.op \in {"program", "qprogram"} ->
            { x \in Aligned(PAGE, p) : (x - p) % PAGE < Len(k.d) }

Programmed(m, p, d) == [x \in Addr |->
    IF x \div PAGE = p \div PAGE /\ (x - p) % PAGE < Len(d)
    THEN And(m[x], d[((x - p) % PAGE) + 1]) ELSE m[x]]

ErasedIn(m, cells) == [x \in Addr |-> IF x \in cells THEN Erased ELSE m[x]]
TornIn(m, cells)   == [x \in Addr |-> IF x \in cells THEN Torn ELSE m[x]]

Erasing     == {"erase4k", "erase32k", "erase64k", "erasechip"}
Programming == {"program", "qprogram"}

(* One command, heard by the chip: its effect on the registers c and the   *)
(* memory m.  Reading commands have none.                                  *)
Executes(large, c, k) ==
    LET cells == Reached(large, c, k) IN
    /\ c.wel /\ ~c.susp /\ ~Protects(c, cells)
    /\ k.op = "qprogram" => c.qe

Obeyed(large, fab, s, k) ==
    LET c == [s.chip EXCEPT !.armed = FALSE]
        m == s.mem
        Set(x) == [chip |-> x, mem |-> m]
        status == c.wel \/ c.vol
        done   == [c EXCEPT !.wel = FALSE, !.vol = FALSE] IN
    CASE k.op = "wren"  -> Set([c EXCEPT !.wel = TRUE])
      [] k.op = "wrdis" -> Set([c EXCEPT !.wel = FALSE])
      [] k.op = "volsr" -> Set([c EXCEPT !.vol = TRUE])
      [] k.op = "wsr1" /\ status /\ k.d # <<>> ->
            Set([done EXCEPT !.prot = k.d[1]])
      [] k.op = "wsr2" /\ status /\ k.d # <<>> ->
            Set([done EXCEPT !.qe = k.d[1]])
      [] k.op = "wsr3" /\ status /\ k.d # <<>> ->
            Set([done EXCEPT !.wps = k.d[1]])
      [] k.op = "extaddr" /\ c.wel ->
            Set([c EXCEPT !.ext = k.a \div BANK, !.wel = FALSE])
      [] k.op = "addr4" /\ large -> Set([c EXCEPT !.four = TRUE])
      [] k.op = "addr3" -> Set([c EXCEPT !.four = FALSE])
      [] k.op = "down"    -> Set([c EXCEPT !.down = TRUE])
      [] k.op = "release" -> Set([c EXCEPT !.down = FALSE])
      [] k.op = "qpi" /\ c.qe -> Set([c EXCEPT !.qpi = TRUE])
      [] k.op = "spi"     -> Set([c EXCEPT !.qpi = FALSE])
      [] k.op = "params" /\ c.qpi -> Set([c EXCEPT !.dummy = k.d[1]])
      [] k.op = "glock" /\ c.wel   -> Set([c EXCEPT !.locks = Sectors])
      [] k.op = "gunlock" /\ c.wel -> Set([c EXCEPT !.locks = {}])
      [] k.op = "lock" /\ c.wel ->
            Set([c EXCEPT !.locks = @ \cup {Place(large, c, k.a) \div SECTOR}])
      [] k.op = "unlock" /\ c.wel ->
            Set([c EXCEPT !.locks = @ \ {Place(large, c, k.a) \div SECTOR}])
      [] k.op = "suspend" /\ c.busy ->
            Set([c EXCEPT !.busy = FALSE, !.susp = TRUE])
      [] k.op = "resume" /\ c.susp ->
            Set([c EXCEPT !.busy = TRUE, !.susp = FALSE])
      [] k.op = "rsten" -> Set([c EXCEPT !.armed = TRUE])
      [] k.op = "reset" /\ s.chip.armed ->
            [chip |-> Fresh(fab), mem |-> TornIn(m, c.work)]
      [] k.op \in Erasing /\ Executes(large, c, k) ->
            [chip |-> [c EXCEPT !.wel = FALSE, !.busy = TRUE,
                                !.work = Reached(large, c, k)],
             mem  |-> ErasedIn(m, Reached(large, c, k))]
      [] k.op \in Programming /\ k.d # <<>> /\ Executes(large, c, k) ->
            [chip |-> [c EXCEPT !.wel = FALSE, !.busy = TRUE,
                                !.work = Reached(large, c, k)],
             mem  |-> Programmed(m, Place(large, c, k.a), k.d)]
      [] k.op \in {"erasesec", "progsec"} /\ c.wel /\ ~c.susp ->
            Set([c EXCEPT !.wel = FALSE, !.busy = TRUE])
      [] OTHER -> Set(c)

Hears(large, fab, s, k) ==
    IF Understands(s.chip, k) THEN Obeyed(large, fab, s, k) ELSE s

(* The erasure or programming is over.                                     *)
Ended(c) == [c EXCEPT !.busy = FALSE, !.susp = FALSE, !.work = {}]

(* The supply fails.                                                       *)
PowerLost(fab, s) == [chip |-> Fresh(fab), mem |-> TornIn(s.mem, s.chip.work)]
===============================================================================
