-------------------------------- MODULE W25qxx --------------------------------
(***************************************************************************)
(* The driver of the SPI flash, src/components/w25qxx/src/driver_w25qxx.c, *)
(* one operator for each of its functions.  The driver keeps a handle: how *)
(* it speaks to the chip (interface, address mode, dummy clocks).  It      *)
(* never asks the chip, so that the two may come to disagree.              *)
(*                                                                         *)
(* A function sends commands, one transfer each, any of which may fail,    *)
(* and may then poll the status until the chip is ready or a counter has   *)
(* run out.  A function is the record of what it sends and returns;        *)
(* Outcomes is what can come of it.  w25qxx_write, which calls others in   *)
(* turn, has a step for each of them.                                      *)
(***************************************************************************)
EXTENDS W25qxxChip

CONSTANTS
    Places,     \* addresses that are read, erased and locked
    Sizes,      \* numbers of bytes that are read
    Writes,     \* pairs of an address and the bytes given to w25qxx_write
    Pages       \* the same for the functions that program a page

ASSUME CallsAssumption ==
    /\ Places \subseteq Addr /\ Sizes \subseteq Nat \ {0}
    /\ \A w \in Writes \cup Pages : w[1] \in Addr /\ w[2] \in Seq(SUBSET Bits)
    /\ \A w \in Writes : w[2] # <<>> /\ w[1] + Len(w[2]) <= 2 * BANK

VARIABLES
    board,      \* what is soldered: the chip, its settings, the lines
    handle,     \* w25qxx_handle_t
    chip, mem,  \* the chip: its registers, its array
    job,        \* w25qxx_write under way
    res,        \* what w25qxx_write has just returned, or -1
    trust,      \* does the handle still say what the chip does
    misread,    \* a read delivered something else than the array holds
    asked       \* the write under way, as the caller sees it

None == [a |-> 0, d |-> <<>>, old |-> <<>>, sound |-> FALSE, open |-> FALSE]

vars == <<board, handle, chip, mem, job, res, trust, misread, asked>>

Idle   == [st |-> "idle", a |-> 0, d |-> <<>>, buf |-> <<>>, at |-> 0,
           src |-> <<>>]
Zeroed == [inited |-> FALSE, iface |-> "SPI", dual |-> FALSE,
           type |-> "small", am |-> 3, param |-> 2, dummy |-> 2]

Quad   == handle.iface = "QSPI"
Large  == handle.type = "large"     \* type >= W25Q256
Three  == handle.am = 3

-------------------------------------------------------------------------------
(* Commands as the handle has them sent.                                   *)
Cmd(op) == [op |-> op, lines |-> IF Quad THEN 4 ELSE 1, addressed |-> FALSE,
            four |-> FALSE, a |-> 0, d |-> <<>>, wide |-> Quad \/ handle.dual]
CmdData(op, d)   == [Cmd(op) EXCEPT !.d = d]
CmdTo(op, a, d)  == [Cmd(op) EXCEPT !.addressed = TRUE, !.four = ~Three,
                                    !.a = a, !.d = d]
On(lines, k)     == [k EXCEPT !.lines = lines, !.wide = TRUE]

(* What a function sends, whether it then waits for the chip, and what it  *)
(* returns when done, when the chip is late and when a transfer fails.     *)
Send(cmds)           == [cmds |-> cmds, wait |-> FALSE, done |-> 0,
                         late |-> 0, bus |-> 1]
SendWait(cmds, late) == [Send(cmds) EXCEPT !.wait = TRUE, !.late = late]
Refuse(code)         == [Send(<<>>) EXCEPT !.done = code]
Checked(j)           == IF handle.inited THEN j ELSE Refuse(3)

(* The state after the first k of the commands.  No function sends more    *)
(* than MaxSent.                                                           *)
MaxSent == 10

Sent(cmds, k) ==
    LET after[i \in 0 .. MaxSent] ==
            IF i = 0 THEN [chip |-> chip, mem |-> mem]
            ELSE Hears(board.large, board.fab, after[i - 1], cmds[i])
    IN  after[k]

(* How many of them the interface carries: without the lines, the form for *)
(* more of them always fails.                                              *)
Carried(cmds) == IF board.wired \/ \A i \in DOMAIN cmds : ~cmds[i].wide
                 THEN Len(cmds) ELSE 0

Result(s, ret, ok) == [chip |-> s.chip, mem |-> s.mem, ret |-> ret, ok |-> ok]

Polled(s, j) ==
    LET heard == Understands(s.chip, Cmd("status1"))
        ready == IF heard /\ s.chip.busy
                 THEN [s EXCEPT !.chip = Ended(@)] ELSE s IN
    {Result(ready, j.done, TRUE)}
        \cup (IF s.chip.busy \/ ~heard THEN {Result(s, j.late, FALSE)} ELSE {})

Outcomes(j) ==
    LET n == Len(j.cmds)
        m == Carried(j.cmds)
        all == Sent(j.cmds, n) IN
    (IF n = 0 THEN {}
     ELSE {Result(Sent(j.cmds, k), j.bus, FALSE) : k \in 0 .. m})
        \cup (IF m # n THEN {}
              ELSE IF j.wait THEN Polled(all, j)
                   ELSE {Result(all, j.done, TRUE)})

(* The bytes a read command is answered with, and those it should be.  A   *)
(* chip that does not understand leaves the lines as they are.             *)
Answer(s, k, n) ==
    IF Understands(s.chip, k) /\ (k.d # <<>> => k.d[1] = s.chip.dummy)
    THEN [i \in 1 .. n |-> s.mem[Place(board.large, s.chip, k.a + i - 1)]]
    ELSE [i \in 1 .. n |-> Torn]

Wanted(a, n) == [i \in 1 .. n |-> mem[a + i - 1]]
Capacity     == IF board.large THEN 2 * BANK ELSE BANK
Fits(a, n)   == a + n <= Capacity
                /\ (board.large /\ Three => a \div BANK = (a + n - 1) \div BANK)

-------------------------------------------------------------------------------
(* Functions that send one command, and what they change in the handle.    *)
w25qxx_set_address_mode_Bug(mode) ==
    Checked(IF ~Large THEN Refuse(4) ELSE Send(<<Cmd("addr4")>>))
w25qxx_set_address_mode(mode) ==
    Checked(IF ~Large THEN Refuse(4)
            ELSE Send(<<Cmd(IF mode = 3 THEN "addr3" ELSE "addr4")>>))

w25qxx_enable_write             == Checked(Send(<<Cmd("wren")>>))
w25qxx_enable_volatile_sr_write == Checked(Send(<<Cmd("volsr")>>))
w25qxx_disable_write            == Checked(Send(<<Cmd("wrdis")>>))
w25qxx_get_status1              == Checked(Send(<<Cmd("status1")>>))
w25qxx_get_status2              == Checked(Send(<<Cmd("status2")>>))
w25qxx_get_status3              == Checked(Send(<<Cmd("status3")>>))

SetStatus(op, v) ==
    Checked(SendWait(<<Cmd("volsr"), CmdData(op, <<v>>)>>, 4))

w25qxx_set_status1(v) == SetStatus("wsr1", v)
w25qxx_set_status2(v) == SetStatus("wsr2", v)
w25qxx_set_status3(v) == SetStatus("wsr3", v)

w25qxx_chip_erase ==
    Checked(SendWait(<<Cmd("wren"), Cmd("erasechip")>>, 4))

w25qxx_erase_program_suspend == Checked(Send(<<Cmd("suspend")>>))
w25qxx_erase_program_resume  == Checked(Send(<<Cmd("resume")>>))

(* By QSPI the chip is first made to leave QPI, and then told to power     *)
(* down on the four lines it no longer listens to.                         *)
w25qxx_power_down ==
    Checked(Send((IF Quad THEN <<Cmd("spi")>> ELSE <<>>) \o <<Cmd("down")>>))

w25qxx_release_power_down         == Checked(Send(<<Cmd("release")>>))
w25qxx_get_manufacturer_device_id == Checked(Send(<<Cmd("id")>>))
w25qxx_get_jedec_id               == Checked(Send(<<Cmd("jedec")>>))
w25qxx_global_block_lock          == Checked(Send(<<Cmd("glock")>>))
w25qxx_global_block_unlock        == Checked(Send(<<Cmd("gunlock")>>))

w25qxx_set_read_parameters(dummy) ==
    Checked(IF ~Quad THEN Refuse(4)
            ELSE [Send(<<CmdData("params", <<dummy>>)>>) EXCEPT !.bus = 5])

w25qxx_enter_qspi_mode ==
    Checked(IF Quad THEN Refuse(4)
            ELSE Send(<<On(1, Cmd("qpi")),
                        On(4, CmdData("params", <<handle.param>>))>>))

w25qxx_exit_qspi_mode ==
    Checked(IF ~Quad THEN Refuse(4) ELSE Send(<<Cmd("spi")>>))

w25qxx_enable_reset == Checked(Send(<<Cmd("rsten")>>))
w25qxx_reset_device == Checked(Send(<<Cmd("reset")>>))

w25qxx_get_sfdp ==
    Checked(IF Quad THEN Refuse(4) ELSE Send(<<Cmd("sfdp")>>))

w25qxx_set_burst_with_wrap ==
    Checked(IF Quad THEN Refuse(4) ELSE Send(<<Cmd("wrap")>>))

w25qxx_write_read_reg(op) == Checked(Send(<<On(IF Quad THEN 4 ELSE 1, Cmd(op))>>))
-------------------------------------------------------------------------------
(* Functions that send an address.  A chip of more than one bank that is   *)
(* given addresses of three bytes is told the fourth before.               *)
Addressable == Three \/ Large
Bank(a)     == [Cmd("extaddr") EXCEPT !.a = a]
Banked      == Three /\ Large

Identify(op) ==
    Checked(IF Quad THEN Refuse(5)
            ELSE IF ~handle.dual THEN Refuse(6)
            ELSE IF ~Addressable THEN Refuse(4)
            ELSE Send(<<CmdTo(op, 0, <<>>)>>))

w25qxx_get_manufacturer_device_id_dual_io == Identify("dualid")
w25qxx_get_manufacturer_device_id_quad_io == Identify("quadid")

w25qxx_get_unique_id ==
    Checked(IF Quad THEN Refuse(5)
            ELSE IF ~Addressable THEN Refuse(4)
            ELSE Send(<<CmdTo("uid", 0, <<>>)>>))

(* The security registers are neither banked nor of use by QSPI.           *)
ChangeRegister(op, d) ==
    Checked(IF Quad THEN Refuse(5)
            ELSE IF ~Addressable
                 THEN [Send(<<Cmd("wren")>>) EXCEPT !.done = 4]
                 ELSE SendWait(<<Cmd("wren"), CmdTo(op, 0, d)>>, 6))

w25qxx_erase_security_register   == ChangeRegister("erasesec", <<>>)
w25qxx_program_security_register == ChangeRegister("progsec", <<{}>>)

w25qxx_read_security_register ==
    Checked(IF Quad THEN Refuse(5)
            ELSE IF ~Addressable THEN Refuse(4)
            ELSE Send(<<CmdTo("readsec", 0, <<>>)>>))

AfterBank_Bug(k) == <<k>>
AfterBank(k) == IF Banked THEN <<Cmd("wren"), Bank(k.a), k>> ELSE <<k>>

ReadBy(op, a) ==
    IF Addressable
    THEN Send(AfterBank(CmdTo(op, a, IF Quad THEN <<handle.dummy>> ELSE <<>>)))
    ELSE Refuse(4)

ReadBySPI(op, a)  == Checked(IF Quad THEN Refuse(5) ELSE ReadBy(op, a))
ReadByDual(op, a) == Checked(IF Quad THEN Refuse(5)
                             ELSE IF ~handle.dual THEN Refuse(6)
                             ELSE ReadBy(op, a))

w25qxx_only_spi_read(a)           == ReadBySPI("read", a)
w25qxx_fast_read(a)               == Checked(ReadBy("fast", a))
w25qxx_fast_read_dual_output(a)   == ReadByDual("dualout", a)
w25qxx_fast_read_quad_output(a)   == ReadByDual("quadout", a)
w25qxx_fast_read_dual_io(a)       == ReadByDual("dualio", a)
w25qxx_fast_read_quad_io(a) ==
    Checked(IF ~Quad /\ ~handle.dual THEN Refuse(6) ELSE ReadBy("quadio", a))
w25qxx_word_read_quad_io(a)       == ReadByDual("wordio", a)
w25qxx_octal_word_read_quad_io(a) == ReadByDual("octalio", a)
w25qxx_read(a)                    == Checked(ReadBy("fast", a))

ByBlock(op, a) ==
    IF Addressable THEN Send(AfterBank(CmdTo(op, a, <<>>))) ELSE Refuse(4)

w25qxx_individual_block_lock(a)   == Checked(ByBlock("lock", a))
w25qxx_individual_block_unlock(a) == Checked(ByBlock("unlock", a))
w25qxx_read_block_lock(a)         == Checked(ByBlock("readlock", a))

Change(op, a, d, late, bad) ==
    IF Addressable
    THEN SendWait(<<Cmd("wren")>>
                  \o (IF Banked THEN <<Bank(a), Cmd("wren")>> ELSE <<>>)
                  \o <<CmdTo(op, a, d)>>, late)
    ELSE [Send(<<Cmd("wren")>>) EXCEPT !.done = bad]

w25qxx_page_program(a, d) ==
    Checked(IF a % PAGE # 0 THEN Refuse(4)
            ELSE IF Len(d) > PAGE THEN Refuse(7)
            ELSE Change("program", a, d, 6, 5))

w25qxx_page_program_quad_input(a, d) ==
    Checked(IF a % PAGE # 0 THEN Refuse(4)
            ELSE IF Len(d) > PAGE THEN Refuse(7)
            ELSE IF Quad THEN Refuse(5)
            ELSE IF ~handle.dual THEN Refuse(8)
            ELSE Change("qprogram", a, d, 6, 5))

EraseAligned(op, size, a) ==
    Checked(IF a % size # 0 THEN Refuse(4) ELSE Change(op, a, <<>>, 6, 5))

w25qxx_sector_erase_4k(a) == EraseAligned("erase4k", SECTOR, a)
w25qxx_block_erase_32k(a) == EraseAligned("erase32k", BLOCK32, a)
w25qxx_block_erase_64k(a) == EraseAligned("erase64k", BLOCK64, a)

(* The same for w25qxx_write, with 1 for every failure and no checks.      *)
a_w25qxx_read(a) ==
    IF Addressable THEN ReadBy("fast", a) ELSE Refuse(1)
a_w25qxx_erase_sector(a)    == Change("erase4k", a, <<>>, 1, 1)
a_w25qxx_page_program(a, d) == Change("program", a, d, 1, 1)

-------------------------------------------------------------------------------
(* The calls.  A call whose transfers failed, or that gave up waiting, may *)
(* leave the chip in any of several states.                                *)
Keeps(o, t) == trust' = IF o.ok THEN t ELSE "lost"

CallWith(j, h, t) ==
    /\ job.st = "idle"
    /\ \E o \in Outcomes(j) :
        /\ chip' = o.chip /\ mem' = o.mem
        /\ handle' = IF o.ok /\ j.cmds # <<>> THEN h ELSE handle
        /\ Keeps(o, IF j.cmds # <<>> THEN t ELSE trust)
    /\ res' = -1
    /\ UNCHANGED <<board, job, misread, asked>>

Call(j) == CallWith(j, handle, trust)

SetAddressMode(mode) ==
    CallWith(w25qxx_set_address_mode(mode), [handle EXCEPT !.am = mode],
             IF trust = "in" THEN "in" ELSE "lost")

SetReadParameters(dummy) ==
    /\ job.st = "idle" /\ res' = -1
    /\ \E o \in Outcomes(w25qxx_set_read_parameters(dummy)) :
        /\ chip' = o.chip /\ mem' = o.mem /\ Keeps(o, trust)
        /\ handle' = IF ~handle.inited \/ ~Quad THEN handle
                     ELSE [handle EXCEPT !.param = dummy,
                                         !.dummy = IF o.ok THEN dummy ELSE @]
    /\ UNCHANGED <<board, job, misread, asked>>

EnterQspi ==
    CallWith(w25qxx_enter_qspi_mode, [handle EXCEPT !.dummy = handle.param],
             "lost")
ExitQspi == CallWith(w25qxx_exit_qspi_mode, handle, "lost")

(* An erasure taken up again keeps the chip busy behind the handle's back. *)
Resume == CallWith(w25qxx_erase_program_resume, handle,
                   IF chip.susp THEN "lost" ELSE trust)

(* Resetting the chip takes it back to three bytes and a single line,      *)
(* which the handle is not told of.                                        *)
AfterReset == IF Three /\ ~Quad THEN trust ELSE "lost"

ResetDevice == CallWith(w25qxx_reset_device, handle,
                        IF chip.armed THEN AfterReset ELSE trust)

w25qxx_advance_reset ==
    CallWith(Checked(Send(<<Cmd("rsten"), Cmd("reset")>>)), handle, AfterReset)

PowerDown ==
    CallWith(w25qxx_power_down, handle,
             IF trust # "lost" /\ ~Quad THEN "asleep" ELSE "lost")
ReleasePowerDown ==
    CallWith(w25qxx_release_power_down, handle,
             IF trust # "lost" THEN "in" ELSE "lost")

WriteReadReg(op) == CallWith(w25qxx_write_read_reg(op), handle, "lost")

(* These set a field of the handle, initialised or not.                    *)
Configure(h) ==
    /\ job.st = "idle" /\ res' = -1
    /\ handle' = h
    /\ trust' = IF [h EXCEPT !.dual = handle.dual] = handle THEN trust
                ELSE "lost"
    /\ UNCHANGED <<board, chip, mem, job, misread, asked>>

w25qxx_set_dual_quad_spi(b) == Configure([handle EXCEPT !.dual = b])
w25qxx_set_type(t)          == Configure([handle EXCEPT !.type = t])
w25qxx_set_interface(i)     == Configure([handle EXCEPT !.iface = i])

(* The wrapper of driver_w25qxx_advance.c starts from a zeroed handle, and *)
(* goes on with w25qxx_init and, on large chips, addresses of four bytes.  *)
w25qxx_advance_init(t, i, b) ==
    Configure([Zeroed EXCEPT !.type = t, !.iface = i, !.dual = b])

(* A read of n bytes, by a function that answered with the last command.   *)
UnlessWrapped == {"read", "fast", "dualout", "quadout", "dualio"}

Misreads(o, j, n) ==
    LET k == j.cmds[Len(j.cmds)] IN
    /\ o.ok /\ trust = "in" /\ ~chip.susp /\ Fits(k.a, n)
    /\ k.op \in UnlessWrapped
    /\ Answer([chip |-> o.chip, mem |-> o.mem], k, n) # Wanted(k.a, n)

Read(j, n) ==
    /\ job.st = "idle" /\ res' = -1
    /\ \E o \in Outcomes(j) :
        /\ chip' = o.chip /\ mem' = o.mem /\ Keeps(o, trust)
        /\ misread' = (misread \/ (j.cmds # <<>> /\ Misreads(o, j, n)))
    /\ UNCHANGED <<board, handle, job, asked>>

-------------------------------------------------------------------------------
(* Initialising: wake and reset the chip, by one line, enter QPI when that *)
(* is the interface, ask who it is, and have large chips take addresses of *)
(* three bytes.  Writing status register 2 sends no value for it.          *)
Plain(op) == [Cmd(op) EXCEPT !.lines = 1]

InitCommands(fix) ==
    <<Plain("release"), Plain("rsten"), Plain("reset")>>
    \o (IF ~Quad THEN <<>>
        ELSE <<Plain("status2")>>
             \o (IF fix THEN <<Plain("volsr"), Plain("wsr2")>> ELSE <<>>)
             \o <<Plain("qpi"), CmdData("params", <<8>>)>>)
    \o <<Cmd("id")>>

Identified(s) == Understands(s.chip, Cmd("id")) /\ (Large <=> board.large)

InitDone(h, fix) ==
    LET cmds == InitCommands(fix)
        last == IF Large THEN cmds \o <<Cmd("addr3")>> ELSE cmds IN
    /\ Carried(cmds) = Len(cmds)
    /\ Identified(Sent(cmds, Len(cmds)))
    /\ handle' = [h EXCEPT !.am = 3, !.inited = TRUE]
    /\ chip' = Sent(last, Len(last)).chip
    /\ mem' = Sent(last, Len(last)).mem
    /\ trust' = "in"

(* Every failure ends with the interface switched off and no more: a       *)
(* handle that was initialised before stays so.                            *)
InitFails(h, fix) ==
    LET cmds == InitCommands(fix)
        more == cmds \o (IF Large /\ Identified(Sent(cmds, Len(cmds)))
                         THEN <<Cmd("addr3")>> ELSE <<>>) IN
    /\ \E k \in 0 .. Carried(more) :
        /\ chip' = Sent(more, k).chip /\ mem' = Sent(more, k).mem
        /\ handle' \in (IF k >= Len(cmds) - 2 THEN {h} ELSE {})
                       \cup (IF k <= Len(cmds) - 2 THEN {handle} ELSE {})
    /\ trust' = "lost"

w25qxx_init ==
    /\ job.st = "idle" /\ res' = -1
    /\ LET h == IF Quad THEN [handle EXCEPT !.param = 8, !.dummy = 8] ELSE handle
           probed == Sent(InitCommands(FALSE), 4).chip IN
       \E fix \in BOOLEAN :
        /\ fix => Quad
        /\ Quad /\ ~probed.qpi => fix = ~probed.qe
        /\ InitDone(h, fix) \/ InitFails(h, fix)
    /\ UNCHANGED <<board, job, misread, asked>>

(* The chip is powered down; the handle stays initialised.                 *)
DeinitCommands == IF Quad THEN <<Cmd("spi"), On(1, Cmd("down"))>>
                  ELSE <<Cmd("down")>>

w25qxx_deinit == CallWith(Checked(Send(DeinitCommands)), handle, "lost")

-------------------------------------------------------------------------------
(* w25qxx_write: sector by sector, what the sector holds is read, and      *)
(* unless the bytes to be written are erased already, the sector is erased *)
(* and written again with the new bytes in it.                             *)
Smaller(x, y) == IF x < y THEN x ELSE y
SectorOf(a)   == (a \div SECTOR) * SECTOR
Remain        == Smaller(SECTOR - (job.a % SECTOR), Len(job.d))
PageRemain    == Smaller(PAGE - (job.at % PAGE), Len(job.src))

Returns(code) == job' = Idle /\ res' = code /\ asked' = None
Goes(j)       == job' = j /\ res' = -1 /\ UNCHANGED asked

(* A write is made in working order when the driver is in step with a chip *)
(* that is neither suspended nor protecting the sectors, on addresses the  *)
(* chip has, in sectors that no power failure left half changed.           *)
Sound(a, d) ==
    LET cells == { x \in Addr : x \div SECTOR \in
                     (a \div SECTOR) .. ((a + Len(d) - 1) \div SECTOR) } IN
    /\ trust = "in" /\ ~chip.susp
    /\ a + Len(d) <= Capacity
    /\ ~Protects(chip, cells)
    /\ \A x \in cells : mem[x] # Torn

WriteBegin(a, d) ==
    /\ job.st = "idle"
    /\ IF handle.inited
       THEN /\ job' = [Idle EXCEPT !.st = "read", !.a = a, !.d = d]
            /\ asked' = [a |-> a, d |-> d, old |-> mem,
                         sound |-> Sound(a, d), open |-> TRUE]
            /\ res' = -1
       ELSE Returns(3)
    /\ UNCHANGED <<board, handle, chip, mem, trust, misread>>

Step(j, o) ==
    /\ o \in Outcomes(j)
    /\ chip' = o.chip /\ mem' = o.mem /\ Keeps(o, trust)
    /\ UNCHANGED <<board, handle, misread>>

Program(at, src) == [job EXCEPT !.st = "pages", !.at = at, !.src = src]

(* An unknown byte may read as an erased one, or not.                      *)
WriteRead ==
    LET j == a_w25qxx_read(SectorOf(job.a)) IN
    /\ job.st = "read"
    /\ \E o \in Outcomes(j) :
        /\ Step(j, o)
        /\ IF o.ret # 0 THEN Returns(4)
           ELSE LET k == j.cmds[Len(j.cmds)]
                    buf == Answer([chip |-> o.chip, mem |-> o.mem], k, SECTOR)
                    range == { buf[(job.a % SECTOR) + i] : i \in 1 .. Remain }
                IN \/ /\ range \subseteq {Erased, Torn}
                      /\ Goes(Program(job.a, SubSeq(job.d, 1, Remain)))
                   \/ /\ ~(range \subseteq {Erased})
                      /\ Goes([job EXCEPT !.st = "erase", !.buf = buf])

Merged_Bug == [i \in 1 .. SECTOR |->
              IF i - (job.a % SECTOR) \in 1 .. Remain
              THEN job.d[i - (job.a % SECTOR)] ELSE Erased]
Merged == [i \in 1 .. SECTOR |->
              IF i - (job.a % SECTOR) \in 1 .. Remain
              THEN job.d[i - (job.a % SECTOR)] ELSE job.buf[i]]

WriteErase ==
    LET j == a_w25qxx_erase_sector(SectorOf(job.a)) IN
    /\ job.st = "erase"
    /\ \E o \in Outcomes(j) :
        /\ Step(j, o)
        /\ IF o.ret # 0 THEN Returns(5)
           ELSE Goes([Program(SectorOf(job.a), Merged) EXCEPT !.buf = <<>>])

SectorDone_Bug ==
    IF Len(job.d) = Remain THEN Returns(0)
    ELSE Goes([Idle EXCEPT !.st = "read", !.a = job.a,
                           !.d = SubSeq(job.d, Remain + 1, Len(job.d))])
SectorDone ==
    IF Len(job.d) = Remain THEN Returns(0)
    ELSE Goes([Idle EXCEPT !.st = "read", !.a = job.a + Remain,
                           !.d = SubSeq(job.d, Remain + 1, Len(job.d))])

(* a_w25qxx_write_no_check: page by page.                                  *)
WritePage ==
    LET j == a_w25qxx_page_program(job.at, SubSeq(job.src, 1, PageRemain)) IN
    /\ job.st = "pages"
    /\ \E o \in Outcomes(j) :
        /\ Step(j, o)
        /\ IF o.ret # 0 THEN Returns(1)
           ELSE IF Len(job.src) = PageRemain THEN SectorDone
           ELSE Goes(Program(job.at + PageRemain,
                             SubSeq(job.src, PageRemain + 1, Len(job.src))))

-------------------------------------------------------------------------------
(* What happens to the chip and the processor.                             *)
ChipEnds ==
    /\ chip.busy
    /\ chip' = Ended(chip)
    /\ UNCHANGED <<board, handle, mem, job, res, trust, misread, asked>>

(* The processor restarts, with the supply or alone.                       *)
Restart(s) ==
    /\ chip' = s.chip /\ mem' = s.mem
    /\ handle' = Zeroed /\ trust' = "lost"
    /\ IF job.st = "idle" THEN UNCHANGED <<job, asked>> /\ res' = -1
                          ELSE Returns(1)
    /\ UNCHANGED <<board, misread>>

PowerFails == Restart(PowerLost(board.fab, [chip |-> chip, mem |-> mem]))
McuResets  == Restart([chip |-> chip, mem |-> mem])

Boards == [large : BOOLEAN, fab : [qe : BOOLEAN], wired : BOOLEAN]

Init ==
    /\ board \in Boards
    /\ handle = Zeroed
    /\ chip = Fresh(board.fab)
    /\ mem \in [Addr -> {Erased, {}}]
    /\ job = Idle /\ res = -1 /\ trust = "lost" /\ misread = FALSE /\ asked = None

-------------------------------------------------------------------------------
Configuring ==
    \/ \E b \in BOOLEAN : w25qxx_set_dual_quad_spi(b)
    \/ \E t \in {"small", "large"} : w25qxx_set_type(t)
    \/ \E i \in {"SPI", "QSPI"} : w25qxx_set_interface(i)
    \/ \E t \in {"small", "large"}, i \in {"SPI", "QSPI"}, b \in BOOLEAN :
          w25qxx_advance_init(t, i, b)
    \/ w25qxx_init \/ w25qxx_deinit

Modes ==
    \/ \E m \in {3, 4} : SetAddressMode(m)
    \/ \E d \in {2, 8} : SetReadParameters(d)
    \/ EnterQspi \/ ExitQspi \/ PowerDown \/ ReleasePowerDown
    \/ Call(w25qxx_enable_reset) \/ ResetDevice \/ w25qxx_advance_reset
    \/ Call(w25qxx_erase_program_suspend) \/ Resume
    \/ \E op \in {"down", "wren"} : WriteReadReg(op)

Asking ==
    \/ Call(w25qxx_get_status1) \/ Call(w25qxx_get_status2)
    \/ Call(w25qxx_get_status3) \/ Call(w25qxx_get_manufacturer_device_id)
    \/ Call(w25qxx_get_manufacturer_device_id_dual_io)
    \/ Call(w25qxx_get_manufacturer_device_id_quad_io)
    \/ Call(w25qxx_get_jedec_id) \/ Call(w25qxx_get_unique_id)
    \/ Call(w25qxx_get_sfdp) \/ Call(w25qxx_set_burst_with_wrap)
    \/ Call(w25qxx_read_security_register)
    \/ \E a \in Places : Call(w25qxx_read_block_lock(a))

Protecting ==
    \/ Call(w25qxx_enable_write) \/ Call(w25qxx_disable_write)
    \/ Call(w25qxx_enable_volatile_sr_write)
    \/ \E v \in BOOLEAN : \/ Call(w25qxx_set_status1(v))
                          \/ Call(w25qxx_set_status2(v))
                          \/ Call(w25qxx_set_status3(v))
    \/ Call(w25qxx_global_block_lock) \/ Call(w25qxx_global_block_unlock)
    \/ \E a \in Places : \/ Call(w25qxx_individual_block_lock(a))
                       \/ Call(w25qxx_individual_block_unlock(a))

Reading ==
    \E a \in Places, n \in Sizes :
        \/ Read(w25qxx_read(a), n)      \/ Read(w25qxx_only_spi_read(a), n)
        \/ Read(w25qxx_fast_read(a), n)
        \/ Read(w25qxx_fast_read_dual_output(a), n)
        \/ Read(w25qxx_fast_read_quad_output(a), n)
        \/ Read(w25qxx_fast_read_dual_io(a), n)
        \/ Read(w25qxx_fast_read_quad_io(a), n)
        \/ Read(w25qxx_word_read_quad_io(a), n)
        \/ Read(w25qxx_octal_word_read_quad_io(a), n)

Changing ==
    \/ Call(w25qxx_chip_erase)
    \/ \E a \in Places : \/ Call(w25qxx_sector_erase_4k(a))
                       \/ Call(w25qxx_block_erase_32k(a))
                       \/ Call(w25qxx_block_erase_64k(a))
    \/ \E p \in Pages : \/ Call(w25qxx_page_program(p[1], p[2]))
                        \/ Call(w25qxx_page_program_quad_input(p[1], p[2]))
    \/ Call(w25qxx_erase_security_register)
    \/ Call(w25qxx_program_security_register)

Continuing == WriteRead \/ WriteErase \/ WritePage

Writing == (\E w \in Writes : WriteBegin(w[1], w[2])) \/ Continuing

Faults == ChipEnds \/ PowerFails \/ McuResets

Next == \/ Configuring \/ Modes \/ Asking \/ Protecting
        \/ Reading \/ Changing \/ Writing \/ Faults

Spec == Init /\ [][Next]_vars

-------------------------------------------------------------------------------
TypeOK ==
    /\ board \in Boards
    /\ handle \in [inited : BOOLEAN, iface : {"SPI", "QSPI"}, dual : BOOLEAN,
                   type : {"small", "large"}, am : {3, 4}, param : {2, 8},
                   dummy : {2, 8}]
    /\ chip \in Chip
    /\ mem \in [Addr -> Byte]
    /\ job.st \in {"idle", "read", "erase", "pages"}
    /\ job.st = "idle" => job = Idle /\ asked = None
    /\ job.st # "idle" =>
        /\ asked.open /\ asked.a <= job.a
        /\ job.a + Len(job.d) = asked.a + Len(asked.d) /\ job.d # <<>>
    /\ job.st = "pages" =>
        job.src # <<>> /\ (job.at % SECTOR) + Len(job.src) <= SECTOR
    /\ res \in {-1, 0, 1, 3, 4, 5}
    /\ trust \in {"in", "asleep", "lost"}
    /\ misread \in BOOLEAN

(* While every call has returned as it should, other than those that move  *)
(* the chip without the handle (reset_device with four bytes or QSPI,      *)
(* power_down by QSPI, enter_qspi_mode, exit_qspi_mode, deinit, a raw      *)
(* command, another type or interface), the handle says how the chip is to *)
(* be spoken to: interface, length of an address, dummy clocks.  Nothing   *)
(* in the driver checks it, and a command the chip does not understand     *)
(* returns 0 like any other.                                               *)
InStep ==
    trust # "lost" =>
        /\ handle.inited
        /\ Large <=> board.large
        /\ chip.qpi <=> Quad
        /\ chip.four <=> ~Three
        /\ chip.down <=> trust = "asleep"
        /\ ~chip.busy
        /\ Quad => chip.dummy = handle.dummy

(* In step, what a read delivers is what the array holds at the addresses  *)
(* it was asked for, whatever the address mode and the bank the chip was   *)
(* last left in.  Reads that a wrap setting changes are not judged, nor    *)
(* those that cross a bank by addresses of three bytes.                    *)
NeverMisread == ~misread

(* To its caller w25qxx_write replaces bytes in place, whatever sectors,   *)
(* pages and banks they lie in and whatever they held before; a failure of *)
(* the bus, the chip, the supply or the processor loses at most the        *)
(* sectors of the request.                                                 *)
Told == CASE res = -1 -> "nothing" [] res = 0 -> "done" [] OTHER -> "failed"
SectorNumber(a) == a \div SECTOR

Store == INSTANCE NorStore WITH store <- mem, req <- asked, told <- Told,
                                Sector <- SectorNumber

WritesInPlace == Store!Spec
===============================================================================
