------------------------------- MODULE UvcFormats -------------------------------
(***************************************************************************)
(* What the host makes of a camera's descriptors:                          *)
(* src/components/VIDEO/Src/usbh_video_desc_parsing.c and stream.c, and    *)
(* the choices of usbh_video.c that rest on them.                          *)
(*                                                                         *)
(* A camera is the packet sizes of the alternate settings of its streaming *)
(* interface, 0 where there is no IN endpoint, and the class-specific      *)
(* descriptors in the order it lists them: formats, and after each its     *)
(* frames.  Of a frame matters only if it is the picture that is wanted:   *)
(* 320 by 240, thirty times a second.                                      *)
(***************************************************************************)
EXTENDS Integers, Sequences, FiniteSetsExt

CONSTANTS
    RxLimit,        \* UVC_RX_FIFO_SIZE_LIMIT
    MaxFormats,     \* VIDEO_MAX_FORMAT_DESC
    MaxFrames       \* VIDEO_MAX_FORMAT_FRAME

ASSUME TablesAssumption ==
    RxLimit \in Nat /\ MaxFormats \in Nat \ {0} /\ MaxFrames \in Nat \ {0}

Descriptor == [kind : {"raw", "mjpeg", "frame"}, wanted : BOOLEAN]
Format(kind) == [kind |-> kind, wanted |-> FALSE]
Frame(wanted) == [kind |-> "frame", wanted |-> wanted]

(* The setting whose endpoint is the largest that fits, the first of them; *)
(* 0 when none does.                                                       *)
Usable(c)   == {i \in DOMAIN c.sizes : c.sizes[i] \in 1 .. RxLimit}
Widest(c)   == {i \in Usable(c) : \A j \in Usable(c) : c.sizes[j] <= c.sizes[i]}
Endpoint(c) == IF Usable(c) = {} THEN 0 ELSE Min(Widest(c))

(* The table of formats, filled descriptor by descriptor.  A format that   *)
(* no longer fits is left out, a frame goes to the last one stored.        *)
NoFormats == [num |-> 0, format |-> [k \in 0 .. MaxFormats |-> 0],
              frames |-> [k \in 0 .. MaxFormats |-> <<>>]]

Owner_Bug(num) == num
Owner(num)     == IF num = 0 THEN 0 ELSE num - 1

ParseCSDescriptors(t, kind, i) ==
    CASE kind # "frame" /\ t.num < MaxFormats ->
            [num |-> t.num + 1, format |-> [t.format EXCEPT ![t.num] = i],
             frames |-> t.frames]
      [] kind = "frame" /\ Len(t.frames[Owner(t.num)]) < MaxFrames ->
            [num |-> t.num, format |-> t.format,
             frames |-> [t.frames EXCEPT ![Owner(t.num)] = Append(@, i)]]
      [] OTHER -> t

USBH_VIDEO_ParseCSDescriptors(c) ==
    LET table[i \in 0 .. Len(c.parts)] ==
            IF i = 0 THEN NoFormats
            ELSE ParseCSDescriptors(table[i - 1], c.parts[i].kind, i)
    IN  table[Len(c.parts)]

(* The first wanted frame of the first MJPEG format, as their places among *)
(* the descriptors; NoMode when the camera has none.                       *)
NoMode == <<0, 0>>

Modes(c, t) ==
    {x \in (0 .. t.num - 1) \X (1 .. MaxFrames) :
        LET frames == t.frames[x[1]]
        IN  /\ c.parts[t.format[x[1]]].kind = "mjpeg"
            /\ x[2] <= Len(frames)
            /\ c.parts[frames[x[2]]].wanted}

uvc_get_stream_ctrl_format_size(c) ==
    LET t == USBH_VIDEO_ParseCSDescriptors(c)
        m == Modes(c, t)
        k == Min({x[1] : x \in m})
        j == Min({x[2] : x \in {y \in m : y[1] = k}})
    IN  IF m = {} THEN NoMode ELSE <<t.format[k], t.frames[k][j]>>

(* The same question put to the camera: which pairs does it offer.         *)
Formats(c) == {i \in DOMAIN c.parts : c.parts[i].kind # "frame"}
Offered(c) ==
    {x \in Formats(c) \X (DOMAIN c.parts \ Formats(c)) :
        x[1] < x[2] /\ \A g \in Formats(c) : g < x[2] => g <= x[1]}
Wanted(c) == {o \in Offered(c) : c.parts[o[1]].kind = "mjpeg"
                                 /\ c.parts[o[2]].wanted}
===============================================================================
