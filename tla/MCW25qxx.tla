------------------------------- MODULE MCW25qxx -------------------------------
(* The flash driver on a chip of two banks of a sector each, two pages to  *)
(* a sector, one bit to a byte.  Each behaviour keeps to one scene: modes  *)
(* and reads, protection and questions, erasing and programming, writes    *)
(* with every fault, writes to a protected chip.                           *)
EXTENDS W25qxx

VARIABLE scene

MCBits   == {0}
MCPlaces == {0, 3, 4}
MCSizes  == {2}
On0      == {}
On1      == {0}
MCWrites == {<<1, <<On0, On1>>>>, <<3, <<On0, On0>>>>}
MCPages  == {<<2, <<On0>>>>}

Pattern == [x \in Addr |-> IF x \in {0, 3, 5, 6} THEN On1 ELSE On0]

Board(large, qe, wired) == [large |-> large, fab |-> [qe |-> qe], wired |-> wired]
PlainSmall == Board(FALSE, TRUE, FALSE)
PlainBig   == Board(TRUE, TRUE, FALSE)
WiredBig   == Board(TRUE, TRUE, TRUE)
WiredBare  == Board(FALSE, FALSE, TRUE)

MCInit ==
    /\ \/ scene = "modes" /\ board \in {PlainSmall, WiredBig, WiredBare}
       \/ scene = "alter" /\ board \in {PlainSmall, WiredBig}
       \/ scene \in {"locks", "data", "guard"} /\ board = PlainBig
    /\ mem = Pattern
    /\ Init

Settled == trust = "in" \/ job.st # "idle"
SetUp   == w25qxx_init \/ (board.large /\ w25qxx_set_type("large"))

Write(a) == \E w \in Writes : w[1] = a /\ WriteBegin(a, w[2])

OfScene ==
    \/ /\ scene = "modes"
       /\ Configuring \/ Modes \/ Reading
    \/ /\ scene = "locks"
       /\ SetUp \/ SetAddressMode(4) \/ Protecting \/ Asking
    \/ /\ scene = "alter"
       /\ \/ SetUp \/ w25qxx_set_dual_quad_spi(TRUE) \/ SetAddressMode(4)
          \/ w25qxx_set_interface("QSPI")
          \/ Call(w25qxx_erase_program_suspend) \/ Resume
          \/ Settled /\ Changing
    \/ /\ scene = "data"
       /\ SetUp \/ (Settled /\ (SetAddressMode(4) \/ Write(3) \/ Continuing))
    \/ /\ scene = "guard"
       /\ \/ SetUp
          \/ Settled /\ (Write(1) \/ Continuing)
          \/ Settled /\ Call(w25qxx_set_status3(TRUE))
          \/ Settled /\ Call(w25qxx_individual_block_unlock(0))
    \/ Faults

MCNext == OfScene /\ UNCHANGED scene
MCSpec == MCInit /\ [][MCNext]_<<vars, scene>>
===============================================================================
