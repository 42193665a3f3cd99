------------------------------- MODULE NorStore -------------------------------
(***************************************************************************)
(* What an application expects of w25qxx_write (driver_w25qxx.c:8415): the *)
(* bytes of the request replace those at its addresses and no other byte   *)
(* changes; if the write fails, or is cut off, the sectors it touches may  *)
(* hold anything, and the others are as they were.                         *)
(*                                                                         *)
(* Only a sound request, one made to a chip in working order, is promised  *)
(* anything; the detailed module says which those are.                     *)
(***************************************************************************)
EXTENDS Integers, Sequences

CONSTANTS
    Addr,       \* the addresses
    Byte,       \* what a cell may hold
    Sector(_)   \* the sector of an address

VARIABLES
    store,      \* the bytes
    req,        \* the request under way
    told        \* what its caller has just been told

None == [a |-> 0, d |-> <<>>, old |-> <<>>, sound |-> FALSE, open |-> FALSE]

Covered(r)  == { x \in Addr : x - r.a \in 0 .. Len(r.d) - 1 }
Touched(r)  == { x \in Addr : \E y \in Covered(r) : Sector(x) = Sector(y) }
Overlaid(r) == [x \in Addr |-> IF x \in Covered(r) THEN r.d[x - r.a + 1]
                               ELSE r.old[x]]

Spared == req.sound => \A x \in Addr \ Touched(req) : store'[x] = req.old[x]

Init == store \in [Addr -> Byte] /\ req = None /\ told = "nothing"

Request ==
    /\ ~req.open
    /\ req'.open /\ req'.old = store
    /\ UNCHANGED store /\ told' = "nothing"

Refused ==
    /\ ~req.open
    /\ UNCHANGED <<store, req>> /\ told' = "failed"

Work ==
    /\ req.open
    /\ Spared
    /\ UNCHANGED <<req, told>>

Done ==
    /\ req.open
    /\ req.sound => store' = Overlaid(req)
    /\ req' = None /\ told' = "done"

Failed ==
    /\ req.open
    /\ Spared
    /\ req' = None /\ told' = "failed"

(* Between writes, other functions change the store as they please.        *)
Direct ==
    /\ ~req.open
    /\ store' \in [Addr -> Byte]
    /\ UNCHANGED req /\ told' = "nothing"

Next == Request \/ Refused \/ Work \/ Done \/ Failed \/ Direct

Spec == Init /\ [][Next]_<<store, req, told>>
===============================================================================
