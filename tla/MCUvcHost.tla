------------------------------- MODULE MCUvcHost -------------------------------
(* Pictures of one camera with every fault of the bus, or several cameras   *)
(* with short frames, stopped, resumed, silenced and pulled out.            *)
EXTENDS UvcHost

MCLengths == {2, 3, 5}

Good    == [sizes |-> <<128, 512, 4096, 512>>,
            parts |-> <<Format("raw"), Frame(TRUE), Format("mjpeg"),
                        Frame(FALSE), Frame(TRUE)>>]
NoMjpeg == [sizes |-> <<128>>, parts |-> <<Format("raw"), Frame(TRUE)>>]
Mixed   == [sizes |-> <<128>>,
            parts |-> <<Format("raw"), Frame(TRUE), Format("mjpeg"),
                        Frame(FALSE), Format("raw"), Frame(TRUE)>>]
TooWide == [sizes |-> <<0, 4096>>, parts |-> Good.parts]

Spare(faults, calls, silence) ==
    [faults |-> faults, calls |-> calls, silence |-> silence]
Setting(cam, lengths, heard, sp) ==
    [camera |-> cam, lengths |-> lengths, heard |-> heard, spare |-> sp]

MCSettings ==
    {Setting(Good, {2, 3, 5}, TRUE, Spare(1, 1, 0)),
     Setting(Good, {3}, TRUE, Spare(2, 1, 0)),
     Setting(Good, {2}, TRUE, Spare(0, 3, 2)),
     Setting(Good, {2}, FALSE, Spare(0, 1, 1))}
    \cup {Setting(c, {2}, TRUE, Spare(0, 2, 1)) : c \in {NoMjpeg, Mixed, TooWide}}
===============================================================================
