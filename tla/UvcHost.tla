-------------------------------- MODULE UvcHost ---------------------------------
(***************************************************************************)
(* The USB host class for cameras, src/components/VIDEO/Src/usbh_video.c:  *)
(* finding out what the camera offers, opening its stream, receiving,      *)
(* watching for silence, starting over; with the tasks that stop and       *)
(* resume it, the camera, and the assembling of pictures (UvcStream).      *)
(*                                                                         *)
(* A pass of the host thread reads steam_in_state, asks the camera and     *)
(* then stores a new state.  What others store in between is lost, so a    *)
(* pass that asks is two steps; `doing' is the pass under way.             *)
(***************************************************************************)
EXTENDS UvcFormats, UvcStream

CONSTANTS
    Settings,       \* what a behaviour may meet, see Setting
    SilentWindows,  \* windows of 50 ms borne before the error is reported
    OpenTries       \* failed openings borne before it is reported

ASSUME HostAssumption ==
    /\ SilentWindows \in Nat /\ OpenTries \in Nat
    /\ \A s \in Settings : /\ s.lengths \subseteq Lengths
                           /\ s.camera.parts \in Seq(Descriptor)

VARIABLES
    setting,    \* the camera, the frames it sends, whether errors are heard
    spare,      \* what may still go wrong or be called: a bound
    camera,     \* what the camera does
    attached,   \* does the class hold a handle (pData)
    active,     \* has the library got HOST_CLASS, so that Process is called
    req, st,    \* req_state, steam_in_state
    restart,    \* usb_restart
    errs,       \* uvc_err_cnt
    tries,      \* start_cnt
    mode,       \* ProbeParams, as the pair agreed on
    endpoint,   \* the alternate setting selected
    urb,        \* the transfer: idle, submitted, or the packet received
    doing,      \* the pass that has asked and not yet stored
    told,       \* the last error or disconnection the application was told of
    wish        \* the application's last call

(* What each camera offers, and what is found of it.                       *)
Cameras == {s.camera : s \in Settings}
Found   == [c \in Cameras |-> uvc_get_stream_ctrl_format_size(c)]
Offers  == [c \in Cameras |-> Offered(c)]

host == <<attached, active, req, st, restart, errs, tries, mode, endpoint,
          urb, doing, told, wish>>
vars == <<setting, spare, camera, host, parser>>

Streams == {"none", "IDLE", "START", "START_STREAM", "STOP", "START_IN",
            "DATA_IN"}
NoUrb == [st |-> "idle"]
Waits == [st |-> "wait"]
Done(p) == [st |-> "done", packet |-> p]

(* A camera at the beginning of frame f; alt is its alternate setting.     *)
FrameOf(f, n) == [f |-> f, of |-> n, sent |-> 0, tail |-> FALSE]
Off     == [alt |-> 0, silent |-> FALSE, frame |-> FrameOf(0, 1)]
Plugged == \E n \in setting.lengths : camera' = [Off EXCEPT !.frame.of = n]

Init ==
    /\ setting \in Settings
    /\ spare = setting.spare
    /\ camera = Off
    /\ attached = FALSE /\ active = FALSE
    /\ req = "INIT" /\ st = "none"
    /\ restart = FALSE /\ errs = 0 /\ tries = 0
    /\ mode = NoMode /\ endpoint = 0
    /\ urb = NoUrb /\ doing = "" /\ told = "no" /\ wish = "stop"
    /\ ParserInit

Can(what) == spare[what] > 0
Spend(what) == spare' = [spare EXCEPT ![what] = @ - 1]

-------------------------------------------------------------------------------
(* USBH_VIDEO_InterfaceInit: the library has found a camera.  The handle   *)
(* is zeroed, which is none of the stream's states.  usb_restart and       *)
(* start_cnt are static and stay.                                          *)
InterfaceInit ==
    /\ ~attached /\ Endpoint(setting.camera) # 0
    /\ attached' = TRUE /\ active' = FALSE
    /\ req' = "INIT" /\ st' = "none" /\ errs' = 0
    /\ endpoint' = Endpoint(setting.camera)
    /\ mode' = Found[setting.camera]
    /\ urb' = NoUrb /\ told' = "no"
    /\ Plugged
    /\ UNCHANGED <<setting, spare, restart, tries, doing, wish, parser>>

(* USBH_VIDEO_InterfaceDeInit when the camera is pulled out, uvc_deinit    *)
(* when the application starts over after an error.                        *)
Release ==
    /\ attached /\ doing = ""
    /\ attached' = FALSE /\ active' = FALSE /\ urb' = NoUrb
    /\ Missed
    /\ UNCHANGED <<setting, camera, req, st, restart, errs, tries, mode,
                   endpoint, doing, wish, fid, prevEof, started, hasErr, cur,
                   length, buffers, shown>>
InterfaceDeInit == Can("calls") /\ Spend("calls") /\ told' = "unplugged" /\ Release
uvc_deinit      == told \in {"silent", "open"} /\ Release /\ UNCHANGED <<spare, told>>

-------------------------------------------------------------------------------
(* USBH_SetInterface and the commit come back good from a camera that      *)
(* answers.  Leaving the streaming setting cuts the frame being sent.      *)
Answers == ~camera.silent
Select(alt) ==
    /\ Answers
    /\ IF camera.alt = alt THEN UNCHANGED <<camera, view>>
       ELSE /\ Missed
            /\ \E n \in setting.lengths, d \in {1, 2} :
                camera' = [camera EXCEPT !.alt = alt,
                            !.frame = FrameOf((camera.frame.f + d) % 4, n)]

Pass(state) == attached /\ active /\ doing = "" /\ st = state
Ask(what) ==
    /\ doing' = what
    /\ UNCHANGED <<setting, spare, attached, active, req, st, errs, tries,
                   mode, endpoint, urb, wish, fid, prevEof, started, hasErr,
                   cur, length, buffers, shown>>
Store(what, state) ==
    /\ doing = what /\ doing' = "" /\ st' = state
    /\ UNCHANGED <<setting, spare, camera, attached, active, restart, errs,
                   mode, endpoint, wish, parser>>

(* USBH_VIDEO_ClassRequest: the default setting, then the stream is idle,  *)
(* or started if it broke off with an error.                               *)
ClassRequest ==
    /\ attached /\ doing = "" /\ req = "INIT"
    /\ Select(0) /\ Ask("class") /\ UNCHANGED <<restart, told>>
ClassRequestDone ==
    /\ Store("class", IF restart THEN "START" ELSE "IDLE")
    /\ req' = "IDLE" /\ UNCHANGED <<active, tries, urb, told>>
ClassRequestIdle ==
    /\ attached /\ doing = "" /\ req = "IDLE" /\ ~active
    /\ active' = TRUE
    /\ UNCHANGED <<setting, spare, camera, attached, req, st, restart, errs,
                   tries, mode, endpoint, urb, doing, told, wish, parser>>

(* VIDEO_STATE_START: uvc_stream_open_ctrl commits the mode agreed on.     *)
(* The camera refuses one it does not offer.                               *)
Opens == Answers /\ mode \in Offers[setting.camera]
Start ==
    /\ Pass("START") /\ restart' = FALSE
    /\ Ask("open") /\ UNCHANGED <<camera, told, view>>

StartDone_Bug == "START_IN"
StartDone     == "START_STREAM"
Opened ==
    /\ Opens /\ Store("open", StartDone)
    /\ tries' = 0 /\ UNCHANGED <<req, urb, told>>
NotOpened ==
    /\ ~Opens /\ tries < OpenTries
    /\ Store("open", st)
    /\ tries' = tries + 1 /\ UNCHANGED <<req, urb, told>>
GivesUp ==
    /\ ~Opens /\ tries = OpenTries
    /\ Store("open", IF setting.heard THEN "START" ELSE st)
    /\ tries' = 0 /\ told' = IF setting.heard THEN "open" ELSE told
    /\ UNCHANGED <<req, urb>>

(* VIDEO_STATE_START_STREAM and VIDEO_STATE_STOP: the setting of the       *)
(* chosen endpoint, the default setting.                                   *)
StartStream     == Pass("START_STREAM") /\ Select(1) /\ Ask("set")
                   /\ UNCHANGED <<restart, told>>
StartStreamDone == Store("set", "START_IN") /\ UNCHANGED <<req, tries, urb, told>>
Stop     == Pass("STOP") /\ Select(0) /\ Ask("stop") /\ UNCHANGED <<restart, told>>
StopDone == Store("stop", "IDLE") /\ UNCHANGED <<req, tries, urb, told>>

(* VIDEO_STATE_START_IN: a packet received before and not looked at, and   *)
(* what the camera sent meanwhile, are lost.                               *)
StartIn ==
    /\ Pass("START_IN") /\ doing' = "in" /\ urb' = Waits
    /\ Missed
    /\ UNCHANGED <<setting, spare, camera, attached, active, req, st, restart,
                   errs, tries, mode, endpoint, told, wish, fid, prevEof,
                   started, hasErr, cur, length, buffers, shown>>
StartInDone == Store("in", "DATA_IN") /\ UNCHANGED <<req, tries, urb, told>>

(* VIDEO_STATE_DATA_IN with a packet: it is parsed and the transfer is     *)
(* submitted again.                                                        *)
DataIn ==
    /\ Pass("DATA_IN") /\ urb.st = "done"
    /\ video_stream_process_packet(urb.packet)
    /\ urb' = Waits /\ errs' = 0
    /\ UNCHANGED <<setting, spare, camera, attached, active, req, st, restart,
                   tries, mode, endpoint, doing, told, wish>>

(* VIDEO_STATE_DATA_IN after 50 ms without one.                            *)
ErrsAfter_Bug == IF errs < SilentWindows THEN 0 ELSE errs
ErrsAfter     == errs + 1
DataInLate ==
    /\ Pass("DATA_IN") /\ urb.st # "done" /\ camera.silent
    /\ errs <= SilentWindows        \* the counter is bounded here
    /\ errs' = ErrsAfter
    /\ \/ /\ ErrsAfter > SilentWindows /\ setting.heard
          /\ restart' = TRUE /\ told' = "silent" /\ doing' = "fail"
          /\ UNCHANGED urb
       \/ /\ ErrsAfter > SilentWindows /\ ~setting.heard
          /\ UNCHANGED <<restart, told, doing, urb>>
       \/ /\ ErrsAfter <= SilentWindows
          /\ urb' = Waits
          /\ UNCHANGED <<restart, told, doing>>
    /\ UNCHANGED <<setting, spare, camera, attached, active, req, st, tries,
                   mode, endpoint, wish, parser>>
DataInFails == Store("fail", "IDLE") /\ UNCHANGED <<req, tries, urb, told>>

HostThread ==
    \/ ClassRequest \/ ClassRequestDone \/ ClassRequestIdle
    \/ Start \/ Opened \/ NotOpened \/ GivesUp
    \/ StartStream \/ StartStreamDone \/ Stop \/ StopDone
    \/ StartIn \/ StartInDone
    \/ DataIn \/ DataInLate \/ DataInFails

-------------------------------------------------------------------------------
(* uvc_stream_stop and uvc_stream_resume, called by other tasks while a    *)
(* camera is there.  After an error the application starts over instead    *)
(* of resuming.                                                            *)
Calls(w) ==
    /\ attached /\ Can("calls") /\ Spend("calls") /\ wish' = w
    /\ UNCHANGED <<setting, camera, attached, active, req, restart, errs,
                   tries, mode, endpoint, urb, doing, told, parser>>

uvc_stream_stop ==
    /\ Calls("stop")
    /\ st' = IF st \in {"STOP", "IDLE"} THEN st ELSE "STOP"

uvc_stream_resume ==
    /\ told = "no" /\ Calls("run")
    /\ st' = IF st = "DATA_IN" THEN st ELSE "START"

-------------------------------------------------------------------------------
(* The camera sends a frame packet by packet.  The bit that ends it is in  *)
(* the last packet with data, or (counted as a fault) in a header of its   *)
(* own.                                                                    *)
Upcoming(c) == SubSeq([i \in 1 .. c.of |-> [f |-> c.f, i |-> i, of |-> c.of,
                                            bad |-> FALSE]],
                      c.sent + 1, Min({c.of, c.sent + PacketCells}))
Flagged(s)  == [i \in DOMAIN s |-> [s[i] EXCEPT !.bad = TRUE]]

Advance(tail) ==
    LET c == camera.frame
    IN  IF c.sent + PacketCells < c.of
        THEN camera' = [camera EXCEPT !.frame.sent = @ + PacketCells]
        ELSE IF tail /\ ~c.tail
        THEN camera' = [camera EXCEPT !.frame.sent = c.of, !.frame.tail = TRUE]
        ELSE \E n \in setting.lengths :
                camera' = [camera EXCEPT !.frame = FrameOf((c.f + 1) % 4, n)]
Last == camera.frame.sent + PacketCells >= camera.frame.of

Sending == camera.alt = 1 /\ Answers /\ urb.st = "wait"
Sends(cells, eof, err) == urb' = Done(Packet(cells, camera.frame.f, eof, err))
Elsewhere == UNCHANGED <<setting, attached, active, req, st, restart, errs,
                         tries, mode, endpoint, doing, told, wish, fid, prevEof,
                         started, hasErr, cur, length, buffers, shown>>

CameraSends ==
    /\ Sending
    /\ Sends(Upcoming(camera.frame), Last, FALSE)
    /\ Advance(FALSE) /\ Elsewhere /\ UNCHANGED <<spare, view>>

CameraErrs ==
    /\ Sending /\ Can("faults") /\ Spend("faults") /\ ~camera.frame.tail
    /\ Sends(Flagged(Upcoming(camera.frame)), Last, TRUE)
    /\ Advance(FALSE) /\ Elsewhere /\ UNCHANGED view

CameraEndsLater ==
    /\ Sending /\ Can("faults") /\ Spend("faults") /\ Last /\ ~camera.frame.tail
    /\ Sends(Upcoming(camera.frame), FALSE, FALSE)
    /\ Advance(TRUE) /\ Elsewhere /\ Missed

PacketLost ==
    /\ Sending /\ Can("faults") /\ Spend("faults")
    /\ Advance(FALSE) /\ Elsewhere /\ Missed /\ UNCHANGED urb

GoesSilent ==
    /\ attached /\ Answers /\ Can("silence") /\ Spend("silence")
    /\ camera' = [camera EXCEPT !.silent = TRUE]
    /\ Elsewhere /\ UNCHANGED <<urb, view>>
SpeaksAgain ==
    /\ camera.silent /\ camera' = [camera EXCEPT !.silent = FALSE]
    /\ Elsewhere /\ UNCHANGED <<spare, urb, view>>

World == \/ CameraSends \/ CameraErrs \/ CameraEndsLater \/ PacketLost
         \/ GoesSilent \/ SpeaksAgain

Next == \/ InterfaceInit \/ InterfaceDeInit \/ uvc_deinit
        \/ HostThread
        \/ uvc_stream_stop \/ uvc_stream_resume
        \/ World

(* The library calls the class again and again, attaches a camera that is  *)
(* there, and a camera that streams sends; the application starts over     *)
(* when it is told of an error.  Neither stopping, resuming, pulling the   *)
(* camera out nor its speaking again is fair.                              *)
Spec == /\ Init /\ [][Next]_vars
        /\ WF_vars(HostThread) /\ WF_vars(InterfaceInit)
        /\ WF_vars(CameraSends) /\ WF_vars(uvc_deinit)

-------------------------------------------------------------------------------
TypeOK ==
    /\ st \in Streams /\ req \in {"INIT", "IDLE"}
    /\ errs \in 0 .. SilentWindows + 1 /\ tries \in 0 .. OpenTries
    /\ length \in 0 .. MaxCells /\ cur \in {0, 1}
    /\ active => attached /\ req = "IDLE" /\ st # "none"
    /\ camera.frame.sent <= camera.frame.of
    /\ \A b \in {0, 1} : buffers[b] \in [1 .. MaxCells -> Cell]

(* The mode asked for is one the camera offers and that was wanted, and    *)
(* one is found if there is one, for cameras that list a format before     *)
(* its frames and no more than the table holds.                            *)
Orderly(c) ==
    /\ c.parts # <<>> /\ c.parts[1].kind # "frame"
    /\ Formats(c) = {} \/ \A f \in Formats(c) :
        Cardinality({i \in DOMAIN c.parts : <<f, i>> \in Offered(c)}) <= MaxFrames
    /\ Cardinality(Formats(c)) <= MaxFormats

AsksForWhatIsOffered ==
    attached /\ Orderly(setting.camera) =>
        IF Wanted(setting.camera) = {} THEN mode = NoMode
        ELSE mode \in Wanted(setting.camera)

(* However calls to stop and resume fall between the passes: while it      *)
(* receives, the camera is at the setting it streams by, and the mode was  *)
(* committed.  (And every variable has its type.)                          *)
ReceivesWhileStreaming ==
    /\ TypeOK
    /\ attached /\ st \in {"START_IN", "DATA_IN"} =>
        camera.alt = 1 /\ mode \in Offers[setting.camera]

(* A camera that falls silent while it streams streams again in the end:   *)
(* the windows run out, the application is told and starts over, and the   *)
(* class starts the stream by itself.  Except when the application stops   *)
(* it or the camera is pulled out; when it falls silent again while it is  *)
(* opened, which the application is told of; or while a setting is         *)
(* selected, then or on attaching, which nothing watches.                  *)
StreamComesBack ==
    (setting.heard /\ attached /\ st = "DATA_IN" /\ camera.silent) ~>
        \/ attached /\ st = "DATA_IN" /\ Answers
        \/ wish = "stop" \/ told \in {"unplugged", "open"}
        \/ camera.silent /\ (st = "START_STREAM" \/ ~active)
===============================================================================
