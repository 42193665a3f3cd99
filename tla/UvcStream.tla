------------------------------- MODULE UvcStream --------------------------------
(***************************************************************************)
(* Assembling pictures from the packets of a camera:                       *)
(* src/components/VIDEO/Src/usbh_video_stream_parsing.c.                   *)
(*                                                                         *)
(* A packet carries up to PacketCells cells of a frame's data after its    *)
(* header.  A cell knows its frame, its place in it and whether its packet *)
(* was flagged in error; the first and the last cell of a frame hold the   *)
(* two marks of a JPEG picture.  Two buffers are filled in turn.           *)
(***************************************************************************)
EXTENDS Integers, Sequences

CONSTANTS
    MaxCells,       \* UVC_MAX_FRAME_SIZE, in cells
    PacketCells,    \* cells in a full packet
    Lengths         \* lengths a frame may have, in cells

ASSUME StreamAssumption ==
    /\ MaxCells \in Nat \ {0} /\ PacketCells \in Nat \ {0}
    /\ Lengths \subseteq Nat \ {0}

VARIABLES
    fid,        \* uvc_prev_fid_state
    prevEof,    \* uvc_prev_packet_eof
    started,    \* uvc_frame_start_detected
    hasErr,     \* has_err
    cur,        \* uvc_curr_framebuffer_ptr
    length,     \* uvc_curr_frame_length
    buffers,    \* uvc_framebuffer0_ptr, uvc_framebuffer1_ptr
    shown,      \* history: the picture last handed to videoCallback
    view        \* history: the packets since the end of a frame was seen

parser == <<fid, prevEof, started, hasErr, cur, length, buffers, shown, view>>

(* Frames are numbered modulo four; FID is the parity.                     *)
FrameNo == 0 .. 3
Cell    == [f : FrameNo, i : Nat, of : Nat, bad : BOOLEAN]
Blank   == [f |-> 0, i |-> 0, of |-> 1, bad |-> FALSE]
Begins(c) == c.i = 1        \* FF D8
Ends(c)   == c.i = c.of     \* FF D9

Packet(cells, f, eof, err) ==
    [cells |-> cells, fid |-> f % 2, eof |-> eof, err |-> err]

ParserInit ==
    /\ fid = 0 /\ prevEof = TRUE /\ started = TRUE /\ hasErr = FALSE
    /\ cur = 0 /\ length = 0
    /\ buffers = [b \in {0, 1} |-> [i \in 1 .. MaxCells |-> Blank]]
    /\ shown = [buf |-> 0, cells |-> <<>>, fresh |-> FALSE, hurt |-> FALSE]
    /\ view = [ok |-> TRUE, cells |-> <<>>, eof |-> TRUE, fid |-> -1,
               hurt |-> FALSE]

-------------------------------------------------------------------------------
(* The first packet after the end of a frame, of the other FID.            *)
Starts(p) == p.fid # fid /\ prevEof

Base(p)      == IF Starts(p) THEN 0 ELSE length
Fits(p)      == Base(p) + Len(p.cells) <= MaxCells
HasErr_Bug(p) == hasErr \/ p.err
HasErr(p)    == (hasErr /\ ~Starts(p)) \/ p.err

(* video_stream_add_packet_data: a packet that does not fit is dropped and *)
(* the picture is taken to fill the buffer.                                *)
Filled(p) ==
    IF Fits(p)
    THEN [i \in 1 .. MaxCells |->
            IF i \in Base(p) + 1 .. Base(p) + Len(p.cells)
            THEN p.cells[i - Base(p)] ELSE buffers[cur][i]]
    ELSE buffers[cur]
LengthAfter(p) == IF Fits(p) THEN Base(p) + Len(p.cells) ELSE MaxCells

Shows(p) ==
    /\ p.eof /\ (started \/ Starts(p)) /\ ~HasErr(p)
    /\ Begins(Filled(p)[1]) /\ Ends(Filled(p)[LengthAfter(p)])

video_stream_switch_buffers_Bug == cur
video_stream_switch_buffers == 1 - cur

(* What a packet adds to the view: whether its frame has come whole and    *)
(* unflagged so far, after the end of another with the other FID.          *)
Seen(p) ==
    LET head == p.cells[1].i = 1
        next == view.eof /\ view.fid # p.fid
    IN  [ok    |-> ~p.err /\ (IF head THEN next ELSE view.ok),
         cells |-> IF head THEN p.cells ELSE view.cells \o p.cells,
         eof   |-> p.eof, fid |-> p.fid,
         hurt  |-> ~p.eof /\ (view.hurt \/ ~Fits(p))]

(* video_stream_process_packet.  A header without data is ignored.         *)
video_stream_process_packet(p) ==
    \/ p.cells = <<>> /\ UNCHANGED parser
    \/ /\ p.cells # <<>>
       /\ fid' = p.fid /\ prevEof' = p.eof
       /\ hasErr' = HasErr(p)
       /\ buffers' = [buffers EXCEPT ![cur] = Filled(p)]
       /\ shown' = IF Shows(p)
                   THEN [buf |-> cur, fresh |-> TRUE,
                         cells |-> SubSeq(Filled(p), 1, LengthAfter(p)),
                         hurt |-> view.hurt \/ ~Fits(p)]
                   ELSE [shown EXCEPT !.fresh = @ /\ ~p.eof]
       /\ view' = Seen(p)
       /\ \/ /\ p.eof /\ (started \/ Starts(p))
             /\ cur' = video_stream_switch_buffers
             /\ started' = FALSE /\ length' = 0
          \/ /\ p.eof /\ ~(started \/ Starts(p))
             /\ length' = 0
             /\ UNCHANGED <<cur, started>>
          \/ /\ ~p.eof
             /\ started' = (started \/ Starts(p)) /\ length' = LengthAfter(p)
             /\ UNCHANGED cur

(* A packet with data does not reach the parser.                           *)
Missed == view' = [view EXCEPT !.ok = FALSE, !.hurt = TRUE]

-------------------------------------------------------------------------------
(* A frame that comes whole and unflagged after the end of one of the      *)
(* other FID, and fits, is shown as it was sent.  And what is shown,       *)
(* unless a packet was missed or did not fit since the frame before ended, *)
(* is one frame, whole and unflagged.                                      *)
IsFrame(s) ==
    /\ s # <<>> /\ Len(s) = s[1].of
    /\ \A i \in DOMAIN s : s[i] = [s[1] EXCEPT !.i = i] /\ ~s[i].bad

ShownWhole ==
    /\ view.ok /\ view.eof /\ view.cells # <<>> /\ Len(view.cells) <= MaxCells
        => shown.fresh /\ shown.cells = view.cells
    /\ shown.cells # <<>> /\ ~shown.hurt => IsFrame(shown.cells)

(* The picture handed over stays as it was until the next frame ends:      *)
(* fresh turns false then, even if that frame is not shown itself.         *)
PictureUntouched ==
    shown.fresh =>
        \A i \in DOMAIN shown.cells : buffers[shown.buf][i] = shown.cells[i]
===============================================================================
