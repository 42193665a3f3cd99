------------------------------ MODULE UvcHostProofs -----------------------------
(***************************************************************************)
(* The USB host class and the assembling of pictures, for every camera,    *)
(* every length of its frames, every size of the buffers and of the        *)
(* packets, any number of faults and of calls to stop and resume: what the *)
(* class receives, which picture the application has, that the picture is  *)
(* a frame that came whole, and what the class makes of the descriptors.   *)
(***************************************************************************)
EXTENDS UvcHost, FiniteSetTheorems, WellFoundedInduction, TLAPS

FramePos == [f : FrameNo, of : Nat \ {0}, sent : Nat, tail : BOOLEAN]

Types ==
    /\ TypeOK
    /\ setting \in Settings
    /\ camera \in [alt : {0, 1}, silent : BOOLEAN, frame : FramePos]
    /\ urb.st = "done" => urb.packet.cells \in Seq(Cell)
    /\ buffers \in [{0, 1} -> [1 .. MaxCells -> Cell]]

(* Which state the stream can be in while a pass of the host thread is     *)
(* under way, whatever other tasks store meanwhile: the camera is asked    *)
(* for another setting only while nothing is received.                     *)
Receiving == {"START_IN", "DATA_IN"}

Passes ==
    /\ doing # "" => attached
    /\ attached /\ req = "IDLE" => st # "none"
    /\ attached /\ req = "INIT" =>
        ~active /\ st \notin {"START_STREAM"} \cup Receiving
    /\ doing = "class" => req = "INIT"
    /\ doing \in {"open", "set", "stop", "in", "fail"} => req # "INIT"
    /\ doing = "stop" => st \in {"STOP", "START"}
    /\ attached /\ doing \in {"set", "in"} => camera.alt = 1
    /\ attached /\ st \in Receiving => camera.alt = 1

(* The mode was committed before the stream's setting was selected.        *)
Committed ==
    attached /\ (st \in {"START_STREAM"} \cup Receiving \/ doing \in {"set", "in"})
        => mode \in Offers[setting.camera]

(* The picture handed over is in the buffer that is not being filled.      *)
Kept ==
    /\ DOMAIN shown = {"buf", "cells", "fresh", "hurt"}
    /\ shown.fresh =>
        /\ shown.buf = 1 - cur
        /\ DOMAIN shown.cells \subseteq 1 .. MaxCells
        /\ PictureUntouched

IInv == Types /\ Passes /\ Committed /\ Kept

-------------------------------------------------------------------------------
LEMMA MinOfTwo ==
  ASSUME NEW a \in Nat, NEW b \in Nat
  PROVE  Min({a, b}) = IF a <= b THEN a ELSE b
  BY DEF Min

(* What is sent next is cells, and no more than the frame has.             *)
LEMMA UpcomingCells ==
  ASSUME NEW c \in FramePos, c.sent <= c.of
  PROVE  /\ Upcoming(c) \in Seq(Cell)
         /\ Len(Upcoming(c)) = IF c.of <= c.sent + PacketCells THEN c.of - c.sent
                               ELSE PacketCells
         /\ \A i \in 1 .. Len(Upcoming(c)) :
                Upcoming(c)[i] = [f |-> c.f, i |-> c.sent + i, of |-> c.of, bad |-> FALSE]
  <1> DEFINE all == [i \in 1 .. c.of |-> [f |-> c.f, i |-> i, of |-> c.of, bad |-> FALSE]]
             last == Min({c.of, c.sent + PacketCells})
  <1>1. /\ c.of \in Nat /\ c.sent \in Nat /\ PacketCells \in Nat /\ PacketCells > 0
        /\ c.f \in FrameNo
    BY StreamAssumption DEF FramePos
  <1>2. all \in Seq(Cell) /\ Len(all) = c.of
    <2>1. \A i \in 1 .. c.of : [f |-> c.f, i |-> i, of |-> c.of, bad |-> FALSE] \in Cell
      BY <1>1 DEF Cell
    <2>2. all \in [1 .. c.of -> Cell]
      BY <2>1
    <2> QED
      BY <1>1, <2>2
  <1>3. last = IF c.of <= c.sent + PacketCells THEN c.of ELSE c.sent + PacketCells
    BY <1>1, MinOfTwo
  <1>4. Upcoming(c) = SubSeq(all, c.sent + 1, last)
    BY DEF Upcoming
  <1>5. /\ last \in Nat /\ last <= c.of /\ c.sent <= last
    BY <1>1, <1>3
  <1> HIDE DEF all, last
  <1>6. /\ SubSeq(all, c.sent + 1, last) \in Seq(Cell)
        /\ Len(SubSeq(all, c.sent + 1, last)) = last - c.sent
        /\ \A i \in 1 .. (last - c.sent) :
              SubSeq(all, c.sent + 1, last)[i] = all[c.sent + i]
    BY <1>1, <1>2, <1>5
  <1>7. /\ last - c.sent = IF c.of <= c.sent + PacketCells THEN c.of - c.sent
                            ELSE PacketCells
        /\ \A i \in 1 .. (last - c.sent) : c.sent + i \in 1 .. c.of
    BY <1>1, <1>3
  <1>8. \A k \in 1 .. c.of : all[k] = [f |-> c.f, i |-> k, of |-> c.of, bad |-> FALSE]
    BY DEF all
  <1> QED
    BY <1>4, <1>6, <1>7, <1>8

(* A camera that starts a frame. *)
LEMMA StartsFrame ==
  ASSUME Types, NEW n \in setting.lengths
  PROVE  /\ n \in Nat \ {0}
         /\ \A k \in Nat : FrameOf(k % 4, n) \in FramePos
         /\ FrameOf(0, n) \in FramePos
         /\ \A k : FrameOf(k, n).sent <= FrameOf(k, n).of
  <1>1. n \in Nat \ {0}
    BY HostAssumption, StreamAssumption DEF Types
  <1>2. \A k \in Nat : k % 4 \in FrameNo
    BY DEF FrameNo
  <1> QED
    BY <1>1, <1>2 DEF FrameOf, FramePos, FrameNo

-------------------------------------------------------------------------------
(* The inductive invariant.                                                *)

LEMMA AtFirst ==
  /\ Blank \in Cell
  /\ FrameOf(0, 1) \in FramePos /\ FrameOf(0, 1).sent <= FrameOf(0, 1).of
  <1>1. 0 \in FrameNo /\ 0 \in Nat /\ 1 \in Nat \ {0}
    BY DEF FrameNo
  <1> QED
    BY <1>1 DEF Blank, Cell, FrameOf, FramePos

LEMMA InitInv == Init => IInv
  <1> SUFFICES ASSUME Init PROVE IInv
    OBVIOUS
  <1>1. /\ cur = 0 /\ length = 0
        /\ shown = [buf |-> 0, cells |-> <<>>, fresh |-> FALSE, hurt |-> FALSE]
        /\ buffers = [b \in {0, 1} |-> [i \in 1 .. MaxCells |-> Blank]]
    BY Zenon DEF Init, ParserInit
  <1> USE DEF Init
  <1>2. Types
    <2>1. buffers \in [{0, 1} -> [1 .. MaxCells -> Cell]]
      BY <1>1, AtFirst
    <2>2. Off \in [alt : {0, 1}, silent : BOOLEAN, frame : FramePos] /\ Off.frame.sent <= Off.frame.of
      BY AtFirst DEF Off
    <2>3. TypeOK
      <3>1. errs = 0 /\ tries = 0 /\ st = "none" /\ req = "INIT" /\ ~active /\ camera = Off
        OBVIOUS
      <3> HIDE DEF Init
      <3>2. errs \in 0 .. SilentWindows + 1 /\ tries \in 0 .. OpenTries
        BY <3>1, HostAssumption
      <3>3. length \in 0 .. MaxCells /\ cur \in {0, 1}
        BY <1>1, StreamAssumption
      <3>4. \A b \in {0, 1} : buffers[b] \in [1 .. MaxCells -> Cell]
        BY <2>1
      <3> QED
        BY <2>2, <3>1, <3>2, <3>3, <3>4 DEF TypeOK, Streams
    <2>4. urb.st # "done"
      BY DEF NoUrb
    <2> QED
      BY <2>1, <2>2, <2>3, <2>4 DEF Types
  <1>3. Passes
    BY DEF Passes
  <1>4. Committed
    BY DEF Committed
  <1>5. Kept
    BY <1>1 DEF Kept
  <1> QED
    BY <1>2, <1>3, <1>4, <1>5 DEF IInv

LEMMA InterfaceInitInv ==
  ASSUME IInv, InterfaceInit
  PROVE  IInv'
  <1> USE DEF IInv, InterfaceInit, parser
  <1>1. PICK n \in setting.lengths : camera' = [Off EXCEPT !.frame.of = n]
    BY DEF Plugged
  <1>2. /\ camera' \in [alt : {0, 1}, silent : BOOLEAN, frame : FramePos]
        /\ camera'.frame.sent <= camera'.frame.of
    BY <1>1, StartsFrame DEF Off, FrameOf, FramePos, FrameNo
  <1>3. Types'
    BY <1>2, HostAssumption DEF Types, TypeOK, Streams, NoUrb
  <1>4. Passes'
    BY DEF Passes, Receiving
  <1>5. Committed'
    BY DEF Committed, Receiving, Passes
  <1>6. Kept'
    BY DEF Kept, PictureUntouched
  <1> QED
    BY <1>3, <1>4, <1>5, <1>6

LEMMA ReleaseInv ==
  ASSUME IInv, InterfaceDeInit \/ uvc_deinit
  PROVE  IInv'
  <1> USE DEF IInv
  <1>1. Release
    BY DEF InterfaceDeInit, uvc_deinit
  <1>2. Types'
    BY <1>1 DEF Types, TypeOK, Release, NoUrb
  <1>3. Passes' /\ Committed'
    BY <1>1 DEF Passes, Committed, Release
  <1>4. Kept'
    BY <1>1 DEF Kept, PictureUntouched, Release
  <1> QED
    BY <1>2, <1>3, <1>4

(* Selecting a setting leaves the camera one, and at that setting.         *)
LEMMA SelectCamera ==
  ASSUME IInv, NEW alt \in {0, 1}, Select(alt)
  PROVE  /\ camera' \in [alt : {0, 1}, silent : BOOLEAN, frame : FramePos]
         /\ camera'.frame.sent <= camera'.frame.of
         /\ camera'.alt = alt
  <1>1. CASE camera.alt = alt
    BY <1>1 DEF Select, IInv, Types, TypeOK
  <1>2. CASE camera.alt # alt
    <2>1. PICK n \in setting.lengths, d \in {1, 2} :
            camera' = [camera EXCEPT !.alt = alt, !.frame = FrameOf((camera.frame.f + d) % 4, n)]
      BY <1>2 DEF Select
    <2>2. camera.frame.f + d \in Nat
      BY DEF IInv, Types, FramePos, FrameNo
    <2>3. PICK f \in FramePos :
            f.sent <= f.of /\ f = FrameOf((camera.frame.f + d) % 4, n)
      BY <2>2, StartsFrame DEF IInv
    <2>4. camera \in [alt : {0, 1}, silent : BOOLEAN, frame : FramePos]
      BY DEF IInv, Types
    <2>5. camera' = [camera EXCEPT !.alt = alt, !.frame = f]
      BY <2>1, <2>3
    <2> QED
      BY <2>3, <2>4, <2>5
  <1> QED
    BY <1>1, <1>2

(* A pass that asks the camera. *)
LEMMA AskInv ==
  ASSUME IInv, ClassRequest \/ StartStream \/ Stop \/ Start \/ StartIn
  PROVE  IInv'
  <1> USE DEF IInv
  <1>1. /\ camera' \in [alt : {0, 1}, silent : BOOLEAN, frame : FramePos]
        /\ camera'.frame.sent <= camera'.frame.of
    BY SelectCamera DEF ClassRequest, StartStream, Stop, Start, StartIn, Types, TypeOK
  <1>2. /\ setting' = setting /\ attached' = attached /\ attached /\ active' = active
        /\ req' = req /\ st' = st /\ errs' = errs /\ tries' = tries /\ mode' = mode
        /\ shown' = shown /\ buffers' = buffers /\ cur' = cur /\ length' = length
    BY DEF ClassRequest, StartStream, Stop, Start, StartIn, Ask, Pass
  <1>3. urb' = urb \/ urb' = Waits
    BY DEF ClassRequest, StartStream, Stop, Start, StartIn, Ask
  <1>4. Types'
    BY <1>1, <1>2, <1>3 DEF Types, TypeOK, Waits
  <1>5. Passes'
    <2>1. CASE ClassRequest
      <3>1. doing' = "class" /\ req = "INIT"
        BY <2>1 DEF ClassRequest, Ask
      <3> QED
        BY <1>2, <3>1 DEF Passes
    <2>2. CASE StartStream
      <3>1. doing' = "set" /\ req # "INIT" /\ st = "START_STREAM" /\ camera'.alt = 1
        BY <2>2, SelectCamera DEF StartStream, Ask, Pass, Types, TypeOK
      <3> QED
        BY <1>2, <3>1 DEF Passes, Receiving
    <2>3. CASE Stop
      <3>1. doing' = "stop" /\ st = "STOP" /\ req # "INIT"
        BY <2>3 DEF Stop, Ask, Pass, Types, TypeOK
      <3> QED
        BY <1>2, <3>1 DEF Passes, Receiving
    <2>4. CASE Start
      <3>1. doing' = "open" /\ st = "START" /\ req # "INIT"
        BY <2>4 DEF Start, Ask, Pass, Types, TypeOK
      <3> QED
        BY <1>2, <3>1 DEF Passes, Receiving
    <2>5. CASE StartIn
      <3>1. doing' = "in" /\ st = "START_IN" /\ req # "INIT" /\ camera' = camera
        BY <2>5 DEF StartIn, Pass, Types, TypeOK
      <3> QED
        BY <1>2, <3>1 DEF Passes, Receiving
    <2> QED
      BY <2>1, <2>2, <2>3, <2>4, <2>5
  <1>6. Committed'
    BY <1>2 DEF Committed, ClassRequest, StartStream, Stop, Start, StartIn, Ask, Pass, Receiving
  <1>7. Kept'
    BY <1>2 DEF Kept, PictureUntouched
  <1> QED
    BY <1>4, <1>5, <1>6, <1>7

(* A pass stores the new state. *)
Stores ==
    \/ ClassRequestDone \/ Opened \/ NotOpened \/ GivesUp \/ StartStreamDone
    \/ StopDone \/ StartInDone \/ DataInFails

LEMMA StoresInv ==
  ASSUME IInv, Stores
  PROVE  IInv'
  <1> USE DEF IInv, Stores
  <1>1. /\ setting' = setting /\ camera' = camera /\ attached' = attached
        /\ active' = active /\ errs' = errs /\ mode' = mode /\ urb' = urb
        /\ shown' = shown /\ buffers' = buffers /\ cur' = cur /\ length' = length
        /\ doing # "" /\ doing' = ""
    BY DEF ClassRequestDone, Opened, NotOpened, GivesUp, StartStreamDone, StopDone,
           StartInDone, DataInFails, Store, parser
  <1>2. st' \in Streams /\ req' \in {"INIT", "IDLE"}
    BY DEF ClassRequestDone, Opened, NotOpened, GivesUp, StartStreamDone, StopDone,
           StartInDone, DataInFails, Store, StartDone, Streams, Types, TypeOK
  <1>3. tries' \in 0 .. OpenTries
    <2>1. tries \in 0 .. OpenTries /\ OpenTries \in Nat
      BY HostAssumption DEF Types, TypeOK
    <2>2. tries' \in {tries, 0} \/ (tries < OpenTries /\ tries' = tries + 1)
      BY DEF ClassRequestDone, Opened, NotOpened, GivesUp, StartStreamDone, StopDone,
             StartInDone, DataInFails
    <2> QED
      BY <2>1, <2>2
  <1>4. attached
    BY <1>1 DEF Passes
  <1>5. CASE ClassRequestDone
    <2>1. st' \in {"START", "IDLE"} /\ req' = "IDLE" /\ ~active /\ doing = "class"
      BY <1>4, <1>5 DEF ClassRequestDone, Store, Passes
    <2> QED
      BY <1>1, <1>2, <1>3, <2>1 DEF Types, TypeOK, Passes, Committed, Kept,
         PictureUntouched, Receiving
  <1>6. CASE Opened
    <2>1. st' = "START_STREAM" /\ req' = req /\ mode \in Offers[setting.camera]
          /\ doing = "open"
      BY <1>6 DEF Opened, Opens, Store, StartDone
    <2>2. req # "INIT"
      BY <2>1 DEF Passes
    <2> QED
      BY <1>1, <1>2, <1>3, <2>1, <2>2 DEF Types, TypeOK, Passes, Committed, Kept,
         PictureUntouched, Receiving
  <1>7. CASE NotOpened \/ GivesUp
    <2>1. st' \in {st, "START"} /\ req' = req /\ doing = "open"
      BY <1>7 DEF NotOpened, GivesUp, Store
    <2> QED
      BY <1>1, <1>2, <1>3, <2>1 DEF Types, TypeOK, Passes, Committed, Kept,
         PictureUntouched, Receiving
  <1>8. CASE StartStreamDone
    <2>1. st' = "START_IN" /\ req' = req /\ doing = "set"
      BY <1>8 DEF StartStreamDone, Store
    <2> QED
      BY <1>1, <1>2, <1>3, <2>1 DEF Types, TypeOK, Passes, Committed, Kept,
         PictureUntouched, Receiving
  <1>9. CASE StartInDone
    <2>1. st' = "DATA_IN" /\ req' = req /\ doing = "in"
      BY <1>9 DEF StartInDone, Store
    <2> QED
      BY <1>1, <1>2, <1>3, <2>1 DEF Types, TypeOK, Passes, Committed, Kept,
         PictureUntouched, Receiving
  <1>10. CASE StopDone \/ DataInFails
    <2>1. st' = "IDLE" /\ req' = req
      BY <1>10 DEF StopDone, DataInFails, Store
    <2> QED
      BY <1>1, <1>2, <1>3, <2>1 DEF Types, TypeOK, Passes, Committed, Kept,
         PictureUntouched, Receiving
  <1> QED
    BY <1>5, <1>6, <1>7, <1>8, <1>9, <1>10

-------------------------------------------------------------------------------
(* A packet is parsed.                                                     *)

LEMMA FilledIs ==
  ASSUME Types, NEW p, p.cells \in Seq(Cell)
  PROVE  /\ Filled(p) \in [1 .. MaxCells -> Cell]
         /\ LengthAfter(p) \in 0 .. MaxCells
  <1> DEFINE n == Len(p.cells)
  <1>1. /\ n \in Nat /\ \A i \in 1 .. n : p.cells[i] \in Cell
        /\ MaxCells \in Nat
        /\ buffers[cur] \in [1 .. MaxCells -> Cell]
    BY StreamAssumption DEF Types, TypeOK
  <1>2. Base(p) \in Nat
    BY DEF Base, Types, TypeOK
  <1>3. CASE Fits(p)
    <2>1. \A i \in 1 .. MaxCells : i \in Base(p) + 1 .. Base(p) + n => i - Base(p) \in 1 .. n
      BY <1>1, <1>2
    <2>2. Filled(p) \in [1 .. MaxCells -> Cell]
      BY <1>1, <1>3, <2>1 DEF Filled
    <2> QED
      BY <1>1, <1>2, <1>3, <2>2 DEF Fits, LengthAfter
  <1>4. CASE ~Fits(p)
    BY <1>1, <1>4 DEF Filled, LengthAfter
  <1> QED
    BY <1>3, <1>4

(* The buffer that is not being filled is left alone, and the buffers are  *)
(* switched when a picture is handed over.                                 *)
LEMMA ParseInv ==
  ASSUME Types, Kept, NEW p, p.cells \in Seq(Cell), video_stream_process_packet(p)
  PROVE  /\ cur' \in {0, 1} /\ length' \in 0 .. MaxCells
         /\ buffers' \in [{0, 1} -> [1 .. MaxCells -> Cell]]
         /\ Kept'
  <1>1. CASE p.cells = <<>>
    BY <1>1 DEF video_stream_process_packet, parser, Types, TypeOK, Kept, PictureUntouched
  <1>2. CASE p.cells # <<>>
    <2>1. /\ buffers' = [buffers EXCEPT ![cur] = Filled(p)]
          /\ shown' = IF Shows(p)
                      THEN [buf |-> cur, fresh |-> TRUE,
                            cells |-> SubSeq(Filled(p), 1, LengthAfter(p)),
                            hurt |-> view.hurt \/ ~Fits(p)]
                      ELSE [shown EXCEPT !.fresh = @ /\ ~p.eof]
          /\ \/ p.eof /\ (started \/ Starts(p)) /\ cur' = 1 - cur /\ length' = 0
             \/ p.eof /\ ~(started \/ Starts(p)) /\ cur' = cur /\ length' = 0
             \/ ~p.eof /\ cur' = cur /\ length' = LengthAfter(p)
      BY <1>2, Zenon DEF video_stream_process_packet, video_stream_switch_buffers
    <2>2. /\ Filled(p) \in [1 .. MaxCells -> Cell] /\ LengthAfter(p) \in 0 .. MaxCells
          /\ cur \in {0, 1} /\ buffers \in [{0, 1} -> [1 .. MaxCells -> Cell]]
          /\ MaxCells \in Nat
      BY FilledIs, StreamAssumption DEF Types, TypeOK
    <2>3. /\ cur' \in {0, 1} /\ length' \in 0 .. MaxCells
          /\ buffers' \in [{0, 1} -> [1 .. MaxCells -> Cell]]
      BY <2>1, <2>2
    <2>4. Kept'
      <3>1. CASE Shows(p)
        <4>1. p.eof /\ (started \/ Starts(p))
          BY <3>1, Zenon DEF Shows
        <4>2. cur' = 1 - cur
          BY <2>1, <4>1, Zenon
        <4> DEFINE pic == SubSeq(Filled(p), 1, LengthAfter(p))
        <4>3. shown'.buf = cur /\ shown'.cells = pic
          BY <2>1, <3>1
        <4>4. /\ DOMAIN pic = 1 .. LengthAfter(p)
              /\ \A i \in 1 .. LengthAfter(p) : pic[i] = Filled(p)[i]
          <5>1. Filled(p) \in Seq(Cell) /\ Len(Filled(p)) = MaxCells
            BY <2>2
          <5> QED
            BY <2>2, <5>1
        <4> HIDE DEF pic
        <4>5. buffers'[cur] = Filled(p)
          BY <2>1, <2>2
        <4>6. \A i \in DOMAIN shown'.cells : buffers'[shown'.buf][i] = shown'.cells[i]
          BY <4>3, <4>4, <4>5
        <4>7. /\ shown'.buf = 1 - cur' /\ DOMAIN shown'.cells \subseteq 1 .. MaxCells
              /\ DOMAIN shown' = {"buf", "cells", "fresh", "hurt"}
          BY <2>1, <2>2, <3>1, <4>2, <4>3, <4>4
        <4> QED
          BY <4>6, <4>7 DEF Kept, PictureUntouched
      <3>2. CASE ~Shows(p) /\ p.eof
        <4>1. shown' = [shown EXCEPT !.fresh = @ /\ ~p.eof]
          BY <2>1, <3>2
        <4>2. DOMAIN shown' = DOMAIN shown /\ ~shown'.fresh
          BY <3>2, <4>1 DEF Kept
        <4> QED
          BY <4>2 DEF Kept
      <3>3. CASE ~Shows(p) /\ ~p.eof
        <4>1. /\ cur' = cur /\ DOMAIN shown' = DOMAIN shown
              /\ shown'.buf = shown.buf /\ shown'.cells = shown.cells
              /\ shown'.fresh => shown.fresh
          <5>1. cur' = cur /\ shown' = [shown EXCEPT !.fresh = @ /\ ~p.eof]
            BY <2>1, <3>3
          <5> QED
            BY <5>1 DEF Kept
        <4>2. 1 - cur # cur /\ 1 - cur \in {0, 1}
          BY <2>2
        <4>3. buffers'[1 - cur] = buffers[1 - cur]
          BY <2>1, <2>2, <4>2
        <4> QED
          BY <4>1, <4>3 DEF Kept, PictureUntouched
      <3> QED
        BY <3>1, <3>2, <3>3
    <2> QED
      BY <2>3, <2>4
  <1> QED
    BY <1>1, <1>2

LEMMA DataInInv ==
  ASSUME IInv, DataIn
  PROVE  IInv'
  <1> USE DEF IInv
  <1>1. /\ urb.packet.cells \in Seq(Cell)
        /\ video_stream_process_packet(urb.packet)
        /\ urb' = Waits /\ errs' = 0
        /\ setting' = setting /\ camera' = camera /\ attached' = attached
        /\ active' = active /\ req' = req /\ st' = st /\ tries' = tries
        /\ mode' = mode /\ doing' = doing
    BY DEF DataIn, Types
  <1>2. /\ cur' \in {0, 1} /\ length' \in 0 .. MaxCells
        /\ buffers' \in [{0, 1} -> [1 .. MaxCells -> Cell]]
        /\ Kept'
    BY <1>1, ParseInv
  <1>3. Types'
    BY <1>1, <1>2, HostAssumption DEF Types, TypeOK, Waits
  <1>4. Passes' /\ Committed'
    BY <1>1 DEF Passes, Committed, Receiving
  <1> QED
    BY <1>2, <1>3, <1>4

LEMMA HostInv ==
  ASSUME IInv, ClassRequestIdle \/ DataInLate
  PROVE  IInv'
  <1> USE DEF IInv
  <1>1. /\ setting' = setting /\ camera' = camera /\ attached' = attached /\ attached
        /\ req' = req /\ req = "IDLE" /\ st' = st /\ tries' = tries /\ mode' = mode
        /\ shown' = shown /\ buffers' = buffers /\ cur' = cur /\ length' = length
        /\ (active' = TRUE \/ active' = active) /\ doing = "" /\ doing' \in {"", "fail"}
        /\ (urb' = urb \/ urb' = Waits)
    BY DEF ClassRequestIdle, DataInLate, Pass, parser, Types, TypeOK
  <1>2. errs' \in 0 .. SilentWindows + 1
    <2>1. errs \in 0 .. SilentWindows + 1 /\ SilentWindows \in Nat
      BY HostAssumption DEF Types, TypeOK
    <2>2. errs' = errs \/ (errs <= SilentWindows /\ errs' = errs + 1)
      BY DEF ClassRequestIdle, DataInLate, ErrsAfter
    <2> QED
      BY <2>1, <2>2
  <1>3. Types'
    <2>1. urb'.st = "done" => urb'.packet.cells \in Seq(Cell)
      <3>1. Waits.st = "wait" /\ (urb.st = "done" => urb.packet.cells \in Seq(Cell))
        BY DEF Types, Waits
      <3>2. urb' = urb \/ urb' = Waits
        BY <1>1, Zenon
      <3> QED
        BY <3>1, <3>2
    <2>2. active' => attached' /\ req' = "IDLE" /\ st' # "none"
      BY <1>1 DEF Passes
    <2> QED
      BY <1>1, <1>2, <2>1, <2>2 DEF Types, TypeOK
  <1>4. Passes' /\ Committed' /\ Kept'
    BY <1>1 DEF Passes, Committed, Receiving, Kept, PictureUntouched
  <1> QED
    BY <1>3, <1>4

LEMMA CallsInv ==
  ASSUME IInv, uvc_stream_stop \/ uvc_stream_resume
  PROVE  IInv'
  <1> USE DEF IInv
  <1>1. /\ setting' = setting /\ camera' = camera /\ attached' = attached /\ attached
        /\ active' = active /\ req' = req /\ errs' = errs /\ tries' = tries
        /\ mode' = mode /\ urb' = urb /\ doing' = doing
        /\ shown' = shown /\ buffers' = buffers /\ cur' = cur /\ length' = length
    BY DEF uvc_stream_stop, uvc_stream_resume, Calls, parser
  <1>2. st' = st \/ st' \in {"STOP", "START"}
    BY DEF uvc_stream_stop, uvc_stream_resume
  <1>3. doing = "stop" => st' \in {"STOP", "START"}
    BY DEF uvc_stream_stop, uvc_stream_resume, Passes
  <1>4. Types'
    BY <1>1, <1>2 DEF Types, TypeOK, Streams
  <1>5. Passes' /\ Committed' /\ Kept'
    BY <1>1, <1>2, <1>3 DEF Passes, Committed, Receiving, Kept, PictureUntouched
  <1> QED
    BY <1>4, <1>5

-------------------------------------------------------------------------------
(* The camera.                                                             *)

LEMMA AdvanceCamera ==
  ASSUME IInv, NEW tail \in BOOLEAN, Advance(tail)
  PROVE  /\ camera' \in [alt : {0, 1}, silent : BOOLEAN, frame : FramePos]
         /\ camera'.frame.sent <= camera'.frame.of
         /\ camera'.alt = camera.alt
  <1>1. /\ camera \in [alt : {0, 1}, silent : BOOLEAN, frame : FramePos]
        /\ camera.frame \in FramePos /\ camera.frame.sent <= camera.frame.of
        /\ PacketCells \in Nat
    BY StreamAssumption DEF IInv, Types, TypeOK
  <1>2. CASE camera.frame.sent + PacketCells < camera.frame.of
    <2>1. camera' = [camera EXCEPT !.frame.sent = @ + PacketCells]
      BY <1>2 DEF Advance
    <2> QED
      BY <1>1, <1>2, <2>1 DEF FramePos
  <1>3. CASE ~(camera.frame.sent + PacketCells < camera.frame.of) /\ tail /\ ~camera.frame.tail
    <2>1. camera' = [camera EXCEPT !.frame.sent = camera.frame.of, !.frame.tail = TRUE]
      BY <1>3 DEF Advance
    <2> DEFINE sent == [camera EXCEPT !.frame.sent = camera.frame.of]
    <2>2. /\ sent \in [alt : {0, 1}, silent : BOOLEAN, frame : FramePos]
          /\ sent.frame.sent = sent.frame.of /\ sent.alt = camera.alt
      BY <1>1 DEF FramePos
    <2>3. camera' = [sent EXCEPT !.frame.tail = TRUE]
      BY <2>1, Zenon
    <2> HIDE DEF sent
    <2>4. sent.frame \in FramePos /\ sent.frame.sent <= sent.frame.of
      BY <2>2 DEF FramePos
    <2> QED
      BY <2>2, <2>3, <2>4 DEF FramePos
  <1>4. CASE ~(camera.frame.sent + PacketCells < camera.frame.of) /\ ~(tail /\ ~camera.frame.tail)
    <2>1. PICK n \in setting.lengths :
            camera' = [camera EXCEPT !.frame = FrameOf((camera.frame.f + 1) % 4, n)]
      BY <1>4 DEF Advance
    <2>2. camera.frame.f + 1 \in Nat
      BY <1>1 DEF FramePos, FrameNo
    <2>3. PICK f \in FramePos :
            f.sent <= f.of /\ f = FrameOf((camera.frame.f + 1) % 4, n)
      BY <2>2, StartsFrame DEF IInv
    <2>4. camera' = [camera EXCEPT !.frame = f]
      BY <2>1, <2>3
    <2> QED
      BY <1>1, <2>3, <2>4
  <1> QED
    BY <1>2, <1>3, <1>4

LEMMA SentCells ==
  ASSUME IInv
  PROVE  /\ Upcoming(camera.frame) \in Seq(Cell)
         /\ Flagged(Upcoming(camera.frame)) \in Seq(Cell)
  <1>1. camera.frame \in FramePos /\ camera.frame.sent <= camera.frame.of
    BY DEF IInv, Types, TypeOK
  <1>2. Upcoming(camera.frame) \in Seq(Cell)
    BY <1>1, UpcomingCells
  <1>3. \A s \in Seq(Cell) : Flagged(s) \in Seq(Cell)
    <2> SUFFICES ASSUME NEW s \in Seq(Cell) PROVE Flagged(s) \in Seq(Cell)
      OBVIOUS
    <2>1. \A c \in Cell : [c EXCEPT !.bad = TRUE] \in Cell
      BY DEF Cell
    <2>2. DOMAIN s = 1 .. Len(s) /\ Len(s) \in Nat /\ \A i \in DOMAIN s : s[i] \in Cell
      OBVIOUS
    <2>3. Flagged(s) \in [1 .. Len(s) -> Cell]
      BY <2>1, <2>2 DEF Flagged
    <2> QED
      BY <2>2, <2>3
  <1> QED
    BY <1>2, <1>3

LEMMA WorldInv ==
  ASSUME IInv, World
  PROVE  IInv'
  <1> USE DEF IInv
  <1>1. /\ setting' = setting /\ attached' = attached /\ active' = active
        /\ req' = req /\ st' = st /\ errs' = errs /\ tries' = tries
        /\ mode' = mode /\ doing' = doing
        /\ shown' = shown /\ buffers' = buffers /\ cur' = cur /\ length' = length
    BY DEF World, CameraSends, CameraErrs, CameraEndsLater, PacketLost, GoesSilent,
           SpeaksAgain, Elsewhere
  <1>2. /\ camera' \in [alt : {0, 1}, silent : BOOLEAN, frame : FramePos]
        /\ camera'.frame.sent <= camera'.frame.of
        /\ camera'.alt = camera.alt
    <2>1. CASE CameraSends \/ CameraErrs \/ CameraEndsLater \/ PacketLost
      BY <2>1, AdvanceCamera DEF CameraSends, CameraErrs, CameraEndsLater, PacketLost
    <2>2. CASE GoesSilent \/ SpeaksAgain
      BY <2>2 DEF GoesSilent, SpeaksAgain, Types, TypeOK
    <2> QED
      BY <2>1, <2>2 DEF World
  <1>3. urb'.st = "done" => urb'.packet.cells \in Seq(Cell)
    <2>1. CASE CameraSends \/ CameraErrs \/ CameraEndsLater
      <3>1. \A cells, f, eof, err : Done(Packet(cells, f, eof, err)).packet.cells = cells
        BY DEF Done, Packet
      <3>2. \A cells, eof, err : Sends(cells, eof, err) => urb'.packet.cells = cells
        BY <3>1 DEF Sends
      <3>3. \/ \E eof, err : Sends(Upcoming(camera.frame), eof, err)
            \/ \E eof, err : Sends(Flagged(Upcoming(camera.frame)), eof, err)
        BY <2>1, Zenon DEF CameraSends, CameraErrs, CameraEndsLater
      <3>4. \/ urb'.packet.cells = Upcoming(camera.frame)
            \/ urb'.packet.cells = Flagged(Upcoming(camera.frame))
        BY <3>2, <3>3, Zenon
      <3> QED
        BY <3>4, SentCells
    <2>2. CASE PacketLost \/ GoesSilent \/ SpeaksAgain
      BY <2>2 DEF PacketLost, GoesSilent, SpeaksAgain, Types
    <2> QED
      BY <2>1, <2>2 DEF World
  <1>4. Types'
    BY <1>1, <1>2, <1>3 DEF Types, TypeOK
  <1>5. Passes' /\ Committed' /\ Kept'
    BY <1>1, <1>2 DEF Passes, Committed, Receiving, Kept, PictureUntouched
  <1> QED
    BY <1>4, <1>5

LEMMA StutterInv ==
  ASSUME IInv, UNCHANGED vars
  PROVE  IInv'
  BY DEF IInv, vars, host, parser, Types, TypeOK, Passes, Committed, Receiving, Kept,
     PictureUntouched

LEMMA NextInv == IInv /\ [Next]_vars => IInv'
  <1> SUFFICES ASSUME IInv, [Next]_vars PROVE IInv'
    OBVIOUS
  <1>1. CASE InterfaceInit
    BY <1>1, InterfaceInitInv
  <1>2. CASE InterfaceDeInit \/ uvc_deinit
    BY <1>2, ReleaseInv
  <1>3. CASE HostThread
    <2>1. CASE ClassRequest \/ StartStream \/ Stop \/ Start \/ StartIn
      BY <2>1, AskInv
    <2>2. CASE Stores
      BY <2>2, StoresInv
    <2>3. CASE DataIn
      BY <2>3, DataInInv
    <2>4. CASE ClassRequestIdle \/ DataInLate
      BY <2>4, HostInv
    <2> QED
      BY <1>3, <2>1, <2>2, <2>3, <2>4 DEF HostThread, Stores
  <1>4. CASE uvc_stream_stop \/ uvc_stream_resume
    BY <1>4, CallsInv
  <1>5. CASE World
    BY <1>5, WorldInv
  <1>6. CASE UNCHANGED vars
    BY <1>6, StutterInv
  <1> QED
    BY <1>1, <1>2, <1>3, <1>4, <1>5, <1>6 DEF Next

(* The invariant holds throughout: no order of the host thread's passes,   *)
(* of the calls to stop and resume and of what the camera does breaks it.  *)
THEOREM Invariance == Spec => []IInv
  BY InitInv, NextInv, PTL DEF Spec

(* While the class receives, the camera is at the setting it streams by    *)
(* and the mode was committed to it: usbh_video.c:290-372.                 *)
THEOREM Receives == Spec => []ReceivesWhileStreaming
  <1>1. IInv => ReceivesWhileStreaming
    BY DEF IInv, Types, Passes, Committed, Receiving, ReceivesWhileStreaming
  <1> QED
    BY <1>1, Invariance, PTL

(* The picture handed to the application stays as it was until the next    *)
(* frame has ended: usbh_video_stream_parsing.c:153-180.                   *)
THEOREM Untouched == Spec => []PictureUntouched
  <1>1. IInv => PictureUntouched
    BY DEF IInv, Kept, PictureUntouched
  <1> QED
    BY <1>1, Invariance, PTL

-------------------------------------------------------------------------------
(* The pictures.  A packet is parsed only while the class is Live; what    *)
(* comes next is the packet that was received, or what the camera sends.   *)
Live    == attached /\ (st = "DATA_IN" \/ doing = "in")
Pending == urb.st = "done" /\ urb.packet.cells # <<>>
Place(c) == [f |-> c.f, of |-> c.of]
NextOf  == IF Pending THEN Place(urb.packet.cells[1]) ELSE Place(camera.frame)
NextAt  == IF Pending THEN urb.packet.cells[1].i - 1 ELSE camera.frame.sent

(* Cells of one frame, one after the other from the k-th on.               *)
Run(s, o, k) == \A i \in DOMAIN s : Place(s[i]) = o /\ s[i].i = k + i

(* The view and the parser have seen the same packets.                     *)
Viewed ==
  /\ DOMAIN view = {"ok", "cells", "eof", "fid", "hurt"} /\ view.cells \in Seq(Cell)
  /\ prevEof = view.eof
  /\ prevEof => length = 0
  /\ \/ view.fid = fid
     \/ started /\ ~hasErr /\ prevEof

(* A packet received is what the camera sent before it went on.            *)
InFlight ==
  /\ camera.frame.sent < camera.frame.of \/ camera.frame.tail
  /\ Live /\ camera.frame.tail => view.hurt
  /\ Live /\ Pending =>
      /\ NextAt \in Nat
      /\ Run(urb.packet.cells, NextOf, NextAt)
      /\ \A i \in DOMAIN urb.packet.cells : urb.packet.cells[i].bad <=> urb.packet.err
      /\ IF urb.packet.eof
         THEN /\ NextAt + Len(urb.packet.cells) = NextOf.of
              /\ camera.frame.sent = 0 /\ ~camera.frame.tail
         ELSE /\ NextAt + Len(urb.packet.cells) = camera.frame.sent
              /\ Place(camera.frame) = NextOf

(* A frame that has come whole so far is in the buffer, if it fits, and    *)
(* goes on with what comes next, or is given up.                           *)
Gathered ==
  /\ view.ok /\ ~view.eof =>
      /\ view.cells # <<>> /\ started /\ ~hasErr
      /\ Len(view.cells) <= MaxCells =>
            /\ length = Len(view.cells)
            /\ \A i \in 1 .. length : buffers[cur][i] = view.cells[i]
  /\ Live /\ view.ok /\ NextAt > 0 =>
      ~view.eof /\ Len(view.cells) = NextAt /\ Run(view.cells, NextOf, 0)

(* As long as nothing was missed, the buffer holds one frame up to what    *)
(* comes next, and a flagged cell is known of.                             *)
Assembled ==
  Live /\ ~view.hurt =>
    IF prevEof THEN NextAt = 0
    ELSE /\ NextAt = length /\ length > 0
         /\ \A i \in 1 .. length :
              /\ Place(buffers[cur][i]) = NextOf /\ buffers[cur][i].i = i
              /\ buffers[cur][i].bad => hasErr

WInv == Viewed /\ InFlight /\ Gathered /\ Assembled /\ ShownWhole

LEMMA InitPictures == Init => WInv
  <1> SUFFICES ASSUME Init PROVE WInv
    OBVIOUS
  <1>1. /\ view = [ok |-> TRUE, cells |-> <<>>, eof |-> TRUE, fid |-> -1, hurt |-> FALSE]
        /\ shown = [buf |-> 0, cells |-> <<>>, fresh |-> FALSE, hurt |-> FALSE]
        /\ prevEof = TRUE /\ length = 0 /\ started = TRUE /\ hasErr = FALSE
        /\ attached = FALSE
        /\ camera = Off
    BY DEF Init, ParserInit
  <1>2. Viewed
    BY <1>1 DEF Viewed
  <1>3. camera.frame.sent < camera.frame.of /\ ~Live
    BY <1>1 DEF Off, FrameOf, Live
  <1>4. InFlight /\ Gathered /\ Assembled
    BY <1>1, <1>3 DEF InFlight, Gathered, Assembled
  <1>5. ShownWhole
    BY <1>1 DEF ShownWhole
  <1> QED
    BY <1>2, <1>4, <1>5 DEF WInv

(* Steps that leave the parser and what comes next as they are.            *)
LEMMA StillPictures ==
  ASSUME WInv, UNCHANGED parser, camera'.frame = camera.frame, Live' => Live,
         Pending' <=> Pending, Pending => urb' = urb
  PROVE  WInv'
  <1>1. NextOf' = NextOf /\ NextAt' = NextAt
    BY DEF NextOf, NextAt, Place
  <1>2. Viewed' /\ Gathered' /\ Assembled' /\ ShownWhole'
    BY <1>1 DEF WInv, parser, Viewed, Gathered, Assembled, ShownWhole, Run, Place, IsFrame
  <1>3. InFlight'
    BY <1>1 DEF WInv, parser, InFlight, Run, Place
  <1> QED
    BY <1>2, <1>3 DEF WInv

Unparsed == UNCHANGED <<fid, prevEof, started, hasErr, cur, length, buffers, shown>>

LEMMA MissedView ==
  ASSUME Viewed, Missed
  PROVE  /\ ~view'.ok /\ view'.hurt /\ view'.cells = view.cells
         /\ view'.eof = view.eof /\ view'.fid = view.fid /\ DOMAIN view' = DOMAIN view
  BY DEF Viewed, Missed

(* Something is missed: the frame under way is given up.                   *)
LEMMA MissedPictures ==
  ASSUME WInv, Missed, Unparsed, InFlight'
  PROVE  WInv'
  <1>1. /\ ~view'.ok /\ view'.hurt /\ view'.cells = view.cells
        /\ view'.eof = view.eof /\ view'.fid = view.fid /\ DOMAIN view' = DOMAIN view
    BY MissedView DEF WInv
  <1>2. Viewed'
    BY <1>1 DEF WInv, Viewed, Unparsed
  <1>3. Gathered' /\ Assembled'
    BY <1>1 DEF Gathered, Assembled
  <1>4. ShownWhole'
    BY <1>1 DEF WInv, ShownWhole, Unparsed, IsFrame
  <1> QED
    BY <1>2, <1>3, <1>4 DEF WInv

(* Steps after which nothing is received.                                  *)
LEMMA QuietPictures ==
  ASSUME WInv, view' = view \/ Missed, Unparsed, ~Live',
         camera'.frame.sent < camera'.frame.of \/ camera'.frame.tail
  PROVE  WInv'
  <1>1. InFlight'
    BY DEF InFlight
  <1>2. CASE Missed
    BY <1>1, <1>2, MissedPictures
  <1>3. CASE view' = view
    <2>1. Viewed' /\ Gathered' /\ Assembled' /\ ShownWhole'
      BY <1>3 DEF WInv, Unparsed, Viewed, Gathered, Assembled, ShownWhole, IsFrame
    <2> QED
      BY <1>1, <2>1 DEF WInv
  <1> QED
    BY <1>2, <1>3

-------------------------------------------------------------------------------
LEMMA AttachPictures ==
  ASSUME IInv, WInv, InterfaceInit \/ InterfaceDeInit \/ uvc_deinit
  PROVE  WInv'
  <1>1. CASE InterfaceInit
    <2>1. /\ UNCHANGED parser /\ doing' = doing /\ st' = "none" /\ ~attached
          /\ doing = "" /\ Plugged
      BY <1>1 DEF InterfaceInit, IInv, Passes
    <2>2. PICK n \in setting.lengths : camera' = [Off EXCEPT !.frame.of = n]
      BY <2>1 DEF Plugged
    <2>3. n \in Nat \ {0}
      BY StartsFrame DEF IInv
    <2>4. camera'.frame.sent < camera'.frame.of
      BY <2>2, <2>3 DEF Off, FrameOf
    <2> QED
      BY <2>1, <2>4, QuietPictures DEF parser, Live, Unparsed
  <1>2. CASE InterfaceDeInit \/ uvc_deinit
    <2>1. Missed /\ Unparsed /\ ~attached' /\ camera' = camera
      BY <1>2 DEF InterfaceDeInit, uvc_deinit, Release, Unparsed
    <2> QED
      BY <2>1, QuietPictures DEF Live, WInv, InFlight
  <1> QED
    BY <1>1, <1>2

LEMMA SelectPictures ==
  ASSUME IInv, NEW alt, Select(alt), WInv
  PROVE  /\ view' = view \/ Missed
         /\ camera'.frame.sent < camera'.frame.of \/ camera'.frame.tail
  <1>1. CASE camera.alt = alt
    BY <1>1 DEF Select, WInv, InFlight
  <1>2. CASE camera.alt # alt
    <2>1. PICK n \in setting.lengths, d \in {1, 2} :
            camera' = [camera EXCEPT !.alt = alt, !.frame = FrameOf((camera.frame.f + d) % 4, n)]
      BY <1>2 DEF Select
    <2>2. n \in Nat \ {0}
      BY StartsFrame DEF IInv
    <2>3. FrameOf((camera.frame.f + d) % 4, n).sent < FrameOf((camera.frame.f + d) % 4, n).of
      BY <2>2 DEF FrameOf
    <2>4. camera'.frame = FrameOf((camera.frame.f + d) % 4, n)
      BY <2>1 DEF IInv, Types
    <2> QED
      BY <1>2, <2>3, <2>4 DEF Select
  <1> QED
    BY <1>1, <1>2

LEMMA AskPictures ==
  ASSUME IInv, WInv, ClassRequest \/ StartStream \/ Stop \/ Start
  PROVE  WInv'
  <1>1. /\ Unparsed /\ st' = st /\ st \in {"START_STREAM", "STOP", "START"} \cup {"IDLE", "none"}
        /\ doing' \in {"class", "set", "stop", "open"}
    <2>1. CASE ClassRequest
      BY <2>1 DEF ClassRequest, Ask, Unparsed, IInv, Passes, Types, TypeOK, Streams, Receiving
    <2>2. CASE StartStream \/ Stop \/ Start
      BY <2>2 DEF StartStream, Stop, Start, Pass, Ask, Unparsed
    <2> QED
      BY <2>1, <2>2
  <1>2. ~Live'
    BY <1>1 DEF Live
  <1>3. /\ view' = view \/ Missed
        /\ camera'.frame.sent < camera'.frame.of \/ camera'.frame.tail
    <2>1. CASE Start
      BY <2>1 DEF Start, WInv, InFlight
    <2>2. CASE ClassRequest \/ StartStream \/ Stop
      BY <2>2, SelectPictures DEF ClassRequest, StartStream, Stop
    <2> QED
      BY <2>1, <2>2
  <1> QED
    BY <1>1, <1>2, <1>3, QuietPictures

LEMMA StartInPictures ==
  ASSUME IInv, WInv, StartIn
  PROVE  WInv'
  <1>1. Missed /\ Unparsed /\ urb' = Waits /\ camera' = camera
    BY DEF StartIn, Unparsed
  <1>2. view'.hurt
    BY <1>1, MissedView DEF WInv
  <1>3. InFlight'
    BY <1>1, <1>2 DEF WInv, InFlight, Pending, Waits
  <1> QED
    BY <1>1, <1>3, MissedPictures

(* The host thread stores a state, another task stores one, nothing is     *)
(* heard for a while.                                                      *)
LEMMA StillLive ==
  ASSUME IInv, Stores \/ ClassRequestIdle \/ DataInLate \/ uvc_stream_stop \/ uvc_stream_resume
  PROVE  /\ UNCHANGED parser /\ camera' = camera
         /\ Live' => Live
         /\ Pending' <=> Pending
         /\ Pending => urb' = urb
  <1>1. CASE Stores
    <2>1. /\ UNCHANGED parser /\ camera' = camera /\ attached' = attached /\ urb' = urb
          /\ doing' = ""
      BY <1>1 DEF Stores, ClassRequestDone, Opened, NotOpened, GivesUp, StartStreamDone,
         StopDone, StartInDone, DataInFails, Store
    <2>2. st' = "DATA_IN" => st = "DATA_IN" \/ doing = "in"
      BY <1>1 DEF Stores, ClassRequestDone, Opened, NotOpened, GivesUp, StartStreamDone,
         StopDone, StartInDone, DataInFails, Store, StartDone
    <2> QED
      BY <2>1, <2>2 DEF Live, Pending
  <1>2. CASE ClassRequestIdle
    BY <1>2 DEF ClassRequestIdle, Live, Pending
  <1>3. CASE DataInLate
    <2>1. /\ UNCHANGED parser /\ camera' = camera /\ attached' = attached /\ st' = st
          /\ urb.st # "done" /\ (urb' = urb \/ urb' = Waits) /\ doing' \in {doing, "fail"}
      BY <1>3 DEF DataInLate, Pass
    <2> QED
      BY <2>1 DEF Live, Pending, Waits
  <1>4. CASE uvc_stream_stop \/ uvc_stream_resume
    BY <1>4 DEF uvc_stream_stop, uvc_stream_resume, Calls, Live, Pending
  <1> QED
    BY <1>1, <1>2, <1>3, <1>4

-------------------------------------------------------------------------------
(* The camera goes on with its frame, or with the next one.                *)
LEMMA AdvanceFrame ==
  ASSUME IInv, NEW tail \in BOOLEAN, Advance(tail),
         camera.frame.sent < camera.frame.of \/ camera.frame.tail
  PROVE  IF ~Last
         THEN /\ camera'.frame.sent = camera.frame.sent + PacketCells
              /\ camera'.frame.sent < camera'.frame.of
              /\ Place(camera'.frame) = Place(camera.frame)
              /\ camera'.frame.tail = camera.frame.tail
         ELSE IF tail /\ ~camera.frame.tail
         THEN /\ camera'.frame.sent = camera.frame.of /\ camera'.frame.tail
              /\ Place(camera'.frame) = Place(camera.frame)
         ELSE /\ camera'.frame.sent = 0 /\ camera'.frame.sent < camera'.frame.of
              /\ ~camera'.frame.tail
  <1>1. /\ camera \in [alt : {0, 1}, silent : BOOLEAN, frame : FramePos]
        /\ camera.frame \in FramePos /\ camera.frame.sent <= camera.frame.of
        /\ PacketCells \in Nat
    BY StreamAssumption DEF IInv, Types, TypeOK
  <1>2. /\ camera.frame.sent \in Nat /\ camera.frame.of \in Nat
        /\ DOMAIN camera = {"alt", "silent", "frame"}
        /\ DOMAIN camera.frame = {"f", "of", "sent", "tail"}
    BY <1>1 DEF FramePos
  <1>3. CASE ~Last
    <2>1. camera' = [camera EXCEPT !.frame.sent = @ + PacketCells]
      BY <1>1, <1>2, <1>3 DEF Advance, Last
    <2>2. camera'.frame = [camera.frame EXCEPT !.sent = @ + PacketCells]
      BY <1>2, <2>1
    <2> QED
      BY <1>2, <1>1, <1>3, <2>2 DEF Last, Place
  <1>4. CASE Last /\ tail /\ ~camera.frame.tail
    <2>1. camera' = [camera EXCEPT !.frame.sent = camera.frame.of, !.frame.tail = TRUE]
      BY <1>1, <1>2, <1>4 DEF Advance, Last
    <2> DEFINE sent == [camera EXCEPT !.frame.sent = camera.frame.of]
    <2>2. /\ sent.frame = [camera.frame EXCEPT !.sent = camera.frame.of]
          /\ DOMAIN sent = {"alt", "silent", "frame"}
      BY <1>2
    <2>3. camera' = [sent EXCEPT !.frame.tail = TRUE]
      BY <2>1, Zenon
    <2> HIDE DEF sent
    <2>4. camera'.frame = [sent.frame EXCEPT !.tail = TRUE]
      BY <2>2, <2>3
    <2> QED
      BY <1>2, <1>4, <2>2, <2>4 DEF Place
  <1>5. CASE Last /\ ~(tail /\ ~camera.frame.tail)
    <2>1. PICK n \in setting.lengths :
            camera' = [camera EXCEPT !.frame = FrameOf((camera.frame.f + 1) % 4, n)]
      BY <1>1, <1>2, <1>5 DEF Advance, Last
    <2>2. n \in Nat \ {0}
      BY StartsFrame DEF IInv
    <2>3. camera'.frame = FrameOf((camera.frame.f + 1) % 4, n)
      BY <1>2, <2>1
    <2> QED
      BY <1>5, <2>2, <2>3 DEF FrameOf
  <1> QED
    BY <1>3, <1>4, <1>5

(* What a packet holds when the camera sends it, flagged or not.           *)
LEMMA SentRun ==
  ASSUME IInv, NEW err \in BOOLEAN, NEW cells,
         cells = IF err THEN Flagged(Upcoming(camera.frame)) ELSE Upcoming(camera.frame)
  PROVE  /\ cells \in Seq(Cell)
         /\ Run(cells, Place(camera.frame), camera.frame.sent)
         /\ \A i \in DOMAIN cells : cells[i].bad <=> err
         /\ Len(cells) = IF Last THEN camera.frame.of - camera.frame.sent ELSE PacketCells
  <1> DEFINE c == camera.frame
             s == Upcoming(c)
  <1>1. /\ c \in FramePos /\ c.sent <= c.of /\ PacketCells \in Nat
        /\ c.sent \in Nat /\ c.of \in Nat
    BY StreamAssumption DEF IInv, Types, TypeOK, FramePos
  <1>2. /\ s \in Seq(Cell)
        /\ Len(s) = IF Last THEN c.of - c.sent ELSE PacketCells
        /\ \A i \in 1 .. Len(s) :
              s[i] = [f |-> c.f, i |-> c.sent + i, of |-> c.of, bad |-> FALSE]
    BY <1>1, UpcomingCells DEF Last
  <1> HIDE DEF s
  <1>3. /\ DOMAIN s = 1 .. Len(s)
        /\ \A i \in DOMAIN s : /\ s[i].f = c.f /\ s[i].of = c.of
                               /\ s[i].i = c.sent + i /\ ~s[i].bad /\ s[i] \in Cell
    <2>1. DOMAIN s = 1 .. Len(s) /\ \A i \in DOMAIN s : s[i] \in Cell
      BY <1>2
    <2>2. ASSUME NEW i \in DOMAIN s
          PROVE  /\ s[i].f = c.f /\ s[i].of = c.of
                 /\ s[i].i = c.sent + i /\ ~s[i].bad
      <3>1. i \in 1 .. Len(s)
        BY <2>1
      <3>2. s[i] = [f |-> c.f, i |-> c.sent + i, of |-> c.of, bad |-> FALSE]
        BY <1>2, <3>1
      <3> QED
        BY <3>2
    <2> QED
      BY <2>1, <2>2
  <1>4. CASE ~err
    <2>1. cells = s
      BY <1>4 DEF s
    <2>2. \A i \in DOMAIN s : Place(s[i]) = Place(c) /\ (s[i].bad <=> err)
      BY <1>3, <1>4 DEF Place
    <2>3. Run(cells, Place(c), c.sent)
      BY <1>3, <2>1, <2>2 DEF Run
    <2>4. \A i \in DOMAIN cells : cells[i].bad <=> err
      BY <2>1, <2>2
    <2>5. cells \in Seq(Cell) /\ Len(cells) = IF Last THEN c.of - c.sent ELSE PacketCells
      BY <1>2, <2>1
    <2> QED
      BY <2>3, <2>4, <2>5
  <1>5. CASE err
    <2>1. cells = Flagged(s)
      BY <1>5 DEF s
    <2>2. DOMAIN cells = DOMAIN s /\ \A i \in DOMAIN s : cells[i] = [s[i] EXCEPT !.bad = TRUE]
      BY <2>1 DEF Flagged
    <2>3. cells \in Seq(Cell)
      BY <1>5, SentCells
    <2>4. Len(cells) = Len(s)
      BY <1>2, <1>3, <2>2, <2>3
    <2>5. \A i \in DOMAIN cells : /\ cells[i].f = c.f /\ cells[i].of = c.of
                                  /\ cells[i].i = c.sent + i /\ cells[i].bad
      <3>1. \A x \in Cell : LET y == [x EXCEPT !.bad = TRUE]
                           IN  y.f = x.f /\ y.of = x.of /\ y.i = x.i /\ y.bad
        BY DEF Cell
      <3>2. ASSUME NEW i \in DOMAIN cells
            PROVE  /\ cells[i].f = c.f /\ cells[i].of = c.of
                   /\ cells[i].i = c.sent + i /\ cells[i].bad
        <4>1. cells[i] = [s[i] EXCEPT !.bad = TRUE] /\ i \in DOMAIN s
          BY <2>2
        <4>2. s[i] \in Cell /\ s[i].f = c.f /\ s[i].of = c.of /\ s[i].i = c.sent + i
          BY <1>3, <4>1
        <4> QED
          BY <3>1, <4>1, <4>2
      <3> QED
        BY <3>2
    <2>6. \A i \in DOMAIN cells : Place(cells[i]) = Place(c) /\ (cells[i].bad <=> err)
      BY <1>5, <2>5 DEF Place
    <2>7. Run(cells, Place(c), c.sent)
      BY <2>5, <2>6 DEF Run
    <2>8. Len(cells) = IF Last THEN c.of - c.sent ELSE PacketCells
      BY <1>2, <2>4
    <2> QED
      BY <2>3, <2>6, <2>7, <2>8
  <1> QED
    BY <1>4, <1>5

LEMMA SendPictures ==
  ASSUME IInv, WInv, CameraSends \/ CameraErrs \/ CameraEndsLater
  PROVE  WInv'
  <1> DEFINE p == urb'.packet
             Q(err, tail, cells) ==
               /\ err \in BOOLEAN /\ tail \in BOOLEAN /\ Advance(tail)
               /\ cells = IF err THEN Flagged(Upcoming(camera.frame)) ELSE Upcoming(camera.frame)
               /\ urb'.st = "done" /\ p.cells = cells /\ (p.err <=> err)
               /\ tail => ~p.eof /\ Last /\ ~camera.frame.tail /\ Missed
               /\ ~tail => (p.eof <=> Last) /\ view' = view
  <1>1. PICK err, tail, cells : Q(err, tail, cells)
    <2>1. CASE CameraSends
      <3>1. Q(FALSE, FALSE, Upcoming(camera.frame))
        BY <2>1 DEF CameraSends, Sends, Done, Packet
      <3> QED
        BY <3>1
    <2>2. CASE CameraErrs
      <3>1. Q(TRUE, FALSE, Flagged(Upcoming(camera.frame)))
        BY <2>2 DEF CameraErrs, Sends, Done, Packet
      <3> QED
        BY <3>1
    <2>3. CASE CameraEndsLater
      <3>1. Q(FALSE, TRUE, Upcoming(camera.frame))
        BY <2>3 DEF CameraEndsLater, Sends, Done, Packet
      <3> QED
        BY <3>1
    <2> QED
      BY <2>1, <2>2, <2>3
  <1>2. Unparsed /\ (Live' <=> Live) /\ urb.st = "wait"
    <2>1. Elsewhere /\ Sending
      BY Zenon DEF CameraSends, CameraErrs, CameraEndsLater
    <2> QED
      BY <2>1 DEF Elsewhere, Unparsed, Live, Sending
  <1> DEFINE c == camera.frame
             n == Len(cells)
  <1>3. urb'.st = "done" /\ p.cells = cells /\ (p.err <=> err)
    BY <1>1
  <1>4. /\ cells \in Seq(Cell)
        /\ Run(cells, Place(c), c.sent)
        /\ \A i \in DOMAIN cells : cells[i].bad <=> err
        /\ n = IF Last THEN c.of - c.sent ELSE PacketCells
    BY <1>1, SentRun
  <1>5. /\ c.sent \in Nat /\ c.of \in Nat /\ c.sent <= c.of
        /\ PacketCells \in Nat /\ PacketCells > 0
    BY StreamAssumption DEF IInv, Types, TypeOK, FramePos
  <1>6. /\ c.sent < c.of \/ c.tail
        /\ Live /\ c.tail => view.hurt
    BY DEF WInv, InFlight
  <1>7. IF ~Last
        THEN /\ camera'.frame.sent = c.sent + PacketCells
             /\ camera'.frame.sent < camera'.frame.of
             /\ Place(camera'.frame) = Place(c)
             /\ camera'.frame.tail = c.tail
        ELSE IF tail /\ ~c.tail
        THEN /\ camera'.frame.sent = c.of /\ camera'.frame.tail
             /\ Place(camera'.frame) = Place(c)
        ELSE /\ camera'.frame.sent = 0 /\ camera'.frame.sent < camera'.frame.of
             /\ ~camera'.frame.tail
    BY <1>1, <1>6, AdvanceFrame
  <1>8. ~Pending /\ NextAt = c.sent /\ NextOf = Place(c)
    BY <1>2 DEF Pending, NextAt, NextOf
  <1>9. CASE cells = <<>>
    <2>1. c.sent = c.of /\ Last
      BY <1>4, <1>5, <1>9 DEF Last
    <2>2. c.tail /\ ~tail
      BY <1>1, <1>5, <1>6, <2>1
    <2>3. ~Pending' /\ NextAt' = 0
      BY <1>3, <1>7, <1>9, <2>1, <2>2 DEF Pending, NextAt
    <2>4. view' = view
      BY <1>1, <2>2
    <2>5. InFlight'
      BY <1>7, <2>1, <2>2, <2>3 DEF InFlight
    <2>6. Viewed' /\ ShownWhole'
      BY <1>2, <2>4 DEF WInv, Unparsed, Viewed, ShownWhole, IsFrame
    <2>7. Gathered'
      BY <1>2, <2>3, <2>4 DEF WInv, Unparsed, Gathered
    <2>8. Assembled'
      BY <1>2, <1>6, <2>2, <2>4 DEF Assembled
    <2> QED
      BY <2>5, <2>6, <2>7, <2>8 DEF WInv
  <1>10. CASE cells # <<>>
    <2>1. 1 \in DOMAIN cells /\ n > 0
      BY <1>4, <1>10
    <2>2. cells[1].i = c.sent + 1 /\ Place(cells[1]) = Place(c)
      BY <1>4, <2>1 DEF Run
    <2>3. Pending' /\ NextAt' = c.sent /\ NextOf' = Place(c)
      BY <1>3, <1>5, <1>10, <2>2 DEF Pending, NextAt, NextOf, Place
    <2>4. Place(c).of = c.of
      BY DEF Place
    <2>5. IF p.eof THEN c.sent + n = c.of /\ camera'.frame.sent = 0 /\ ~camera'.frame.tail
          ELSE c.sent + n = camera'.frame.sent /\ Place(camera'.frame) = Place(c)
      BY <1>1, <1>4, <1>5, <1>7
    <2>6. camera'.frame.sent < camera'.frame.of \/ camera'.frame.tail
      BY <1>7
    <2>7. Live' /\ camera'.frame.tail => view'.hurt
      BY <1>1, <1>2, <1>6, <1>7, MissedView DEF WInv
    <2>8. InFlight'
      <3>1. /\ Run(urb'.packet.cells, NextOf', NextAt')
            /\ \A i \in DOMAIN urb'.packet.cells : urb'.packet.cells[i].bad <=> urb'.packet.err
        BY <1>3, <1>4, <2>3
      <3>2. IF urb'.packet.eof
            THEN /\ NextAt' + Len(urb'.packet.cells) = NextOf'.of
                 /\ camera'.frame.sent = 0 /\ ~camera'.frame.tail
            ELSE /\ NextAt' + Len(urb'.packet.cells) = camera'.frame.sent
                 /\ Place(camera'.frame) = NextOf'
        BY <1>3, <2>3, <2>4, <2>5
      <3> QED
        BY <1>5, <2>3, <2>6, <2>7, <3>1, <3>2 DEF InFlight, Run, Place
    <2>9. CASE tail
      BY <1>1, <1>2, <2>8, <2>9, MissedPictures
    <2>10. CASE ~tail
      <3>1. view' = view /\ NextAt' = NextAt /\ NextOf' = NextOf
        BY <1>1, <1>8, <2>3, <2>10
      <3>2. Viewed' /\ Gathered' /\ Assembled' /\ ShownWhole'
        BY <1>2, <3>1 DEF WInv, Unparsed, Viewed, Gathered, Assembled, ShownWhole, Run, Place,
           IsFrame
      <3> QED
        BY <2>8, <3>2 DEF WInv
    <2> QED
      BY <2>9, <2>10
  <1> QED
    BY <1>9, <1>10

LEMMA WorldPictures ==
  ASSUME IInv, WInv, World
  PROVE  WInv'
  <1>1. CASE CameraSends \/ CameraErrs \/ CameraEndsLater
    BY <1>1, SendPictures
  <1>2. CASE PacketLost
    <2>1. Missed /\ Unparsed /\ (Live' <=> Live) /\ urb' = urb /\ urb.st = "wait" /\ Advance(FALSE)
      BY <1>2 DEF PacketLost, Elsewhere, Unparsed, Live, Sending
    <2>2. view'.hurt
      BY <2>1, MissedView DEF WInv
    <2>3. camera'.frame.sent < camera'.frame.of \/ camera'.frame.tail
      BY <2>1, AdvanceFrame DEF WInv, InFlight
    <2>4. InFlight'
      BY <2>1, <2>2, <2>3 DEF InFlight, Pending
    <2> QED
      BY <2>1, <2>4, MissedPictures
  <1>3. CASE GoesSilent \/ SpeaksAgain
    <2>1. UNCHANGED parser /\ (Live' <=> Live) /\ urb' = urb
      BY <1>3 DEF GoesSilent, SpeaksAgain, Elsewhere, parser, Live
    <2>2. camera'.frame = camera.frame
      BY <1>3 DEF GoesSilent, SpeaksAgain, IInv, Types
    <2>3. Pending' <=> Pending
      BY <2>1 DEF Pending
    <2> QED
      BY <2>1, <2>2, <2>3, StillPictures
  <1> QED
    BY <1>1, <1>2, <1>3 DEF World

-------------------------------------------------------------------------------
(* A packet is parsed while the class is live.                             *)
Parsing(p) ==
  /\ IInv /\ WInv /\ Live /\ Pending /\ p = urb.packet
  /\ p.cells \in Seq(Cell) /\ p.cells # <<>>
  /\ NextAt \in Nat /\ Run(p.cells, NextOf, NextAt)

LEMMA PacketCell ==
  ASSUME NEW p, Parsing(p)
  PROVE  /\ Len(p.cells) \in Nat \ {0} /\ DOMAIN p.cells = 1 .. Len(p.cells)
         /\ p.cells[1].i = NextAt + 1
         /\ \A i \in DOMAIN p.cells : p.cells[i].bad <=> p.err
         /\ \A i \in DOMAIN p.cells : p.cells[i] \in Cell
  <1>1. p.cells \in Seq(Cell) /\ p.cells # <<>>
    BY DEF Parsing
  <1>2. Len(p.cells) \in Nat \ {0} /\ DOMAIN p.cells = 1 .. Len(p.cells)
    BY <1>1
  <1>3. 1 \in DOMAIN p.cells
    BY <1>2
  <1>4. p.cells[1].i = NextAt + 1
    BY <1>3 DEF Parsing, Run
  <1>5. \A i \in DOMAIN p.cells : p.cells[i].bad <=> p.err
    BY DEF Parsing, WInv, InFlight
  <1> QED
    BY <1>1, <1>2, <1>4, <1>5

(* What the buffer holds after a packet that fits.                         *)
LEMMA FilledCells ==
  ASSUME NEW p, Parsing(p), Fits(p)
  PROVE  /\ Base(p) \in Nat
         /\ LengthAfter(p) = Base(p) + Len(p.cells)
         /\ LengthAfter(p) \in 0 .. MaxCells
         /\ \A i \in 1 .. Base(p) : Filled(p)[i] = buffers[cur][i]
         /\ \A i \in Base(p) + 1 .. LengthAfter(p) : Filled(p)[i] = p.cells[i - Base(p)]
  <1>1. /\ Len(p.cells) \in Nat /\ MaxCells \in Nat
        /\ Base(p) \in Nat
    BY PacketCell, StreamAssumption DEF Base, Parsing, IInv, Types, TypeOK
  <1>2. LengthAfter(p) = Base(p) + Len(p.cells) /\ LengthAfter(p) \in 0 .. MaxCells
    BY <1>1 DEF LengthAfter, Fits
  <1>3. Filled(p) = [i \in 1 .. MaxCells |->
            IF i \in Base(p) + 1 .. Base(p) + Len(p.cells)
            THEN p.cells[i - Base(p)] ELSE buffers[cur][i]]
    BY Zenon DEF Filled
  <1>4. \A i \in 1 .. MaxCells : Filled(p)[i] =
            IF i \in Base(p) + 1 .. Base(p) + Len(p.cells)
            THEN p.cells[i - Base(p)] ELSE buffers[cur][i]
    BY <1>3
  <1>5. \A i \in 1 .. Base(p) : i \in 1 .. MaxCells /\ i \notin Base(p) + 1 .. Base(p) + Len(p.cells)
    BY <1>1, <1>2
  <1>6. \A i \in Base(p) + 1 .. LengthAfter(p) :
            i \in 1 .. MaxCells /\ i \in Base(p) + 1 .. Base(p) + Len(p.cells)
    BY <1>1, <1>2
  <1> QED
    BY <1>1, <1>2, <1>4, <1>5, <1>6

(* A frame seen whole so far is in the buffer, if it fits.                 *)
LEMMA SeenWhole ==
  ASSUME NEW p, Parsing(p), Seen(p).ok
  PROVE  LET k == NextAt
             n == Len(p.cells)
             s == Seen(p).cells
         IN  /\ ~HasErr(p) /\ (started \/ Starts(p)) /\ ~p.err
             /\ s \in Seq(Cell) /\ Len(s) = k + n /\ Run(s, NextOf, 0)
             /\ k + n <= MaxCells =>
                  /\ Fits(p) /\ LengthAfter(p) = k + n
                  /\ \A i \in 1 .. k + n : Filled(p)[i] = s[i]
  <1> DEFINE k == NextAt
             n == Len(p.cells)
             s == Seen(p).cells
  <1>1. /\ n \in Nat \ {0} /\ p.cells[1].i = k + 1 /\ k \in Nat /\ p.cells \in Seq(Cell)
        /\ DOMAIN p.cells = 1 .. n
        /\ Run(p.cells, NextOf, k)
        /\ MaxCells \in Nat
    BY PacketCell, StreamAssumption DEF Parsing
  <1>2. /\ ~p.err
        /\ s = IF k = 0 THEN p.cells ELSE view.cells \o p.cells
        /\ IF k = 0 THEN view.eof /\ view.fid # p.fid ELSE view.ok
    <2> HIDE DEF k
    <2>1. p.cells[1].i = 1 <=> k = 0
      BY <1>1
    <2>2. Seen(p).ok <=> ~p.err /\ (IF p.cells[1].i = 1 THEN view.eof /\ view.fid # p.fid
                                                          ELSE view.ok)
      BY DEF Seen
    <2>3. s = IF p.cells[1].i = 1 THEN p.cells ELSE view.cells \o p.cells
      BY DEF Seen
    <2> HIDE DEF s
    <2> QED
      BY <2>1, <2>2, <2>3
  <1>3. /\ prevEof = view.eof /\ (prevEof => length = 0)
        /\ view.fid = fid \/ (started /\ ~hasErr /\ prevEof)
        /\ view.cells \in Seq(Cell)
    BY DEF Parsing, WInv, Viewed
  <1> HIDE DEF s, n, k
  <1>4. CASE k = 0
    <2>1. Starts(p) \/ (started /\ ~hasErr)
      BY <1>2, <1>3, <1>4 DEF Starts
    <2>2. Base(p) = 0
      BY <1>2, <1>3, <1>4 DEF Base
    <2>3. ~HasErr(p) /\ (started \/ Starts(p))
      BY <1>2, <2>1 DEF HasErr
    <2>4. s = p.cells /\ Len(s) = k + n /\ Run(s, NextOf, 0)
      BY <1>1, <1>2, <1>4 DEF n
    <2>5. ASSUME k + n <= MaxCells
          PROVE  /\ Fits(p) /\ LengthAfter(p) = k + n
                 /\ \A i \in 1 .. k + n : Filled(p)[i] = s[i]
      <3>1. Fits(p)
        BY <1>1, <1>4, <2>2, <2>5 DEF Fits, n
      <3>2. /\ LengthAfter(p) = n
            /\ \A i \in 1 .. n : Filled(p)[i] = p.cells[i - 0]
        BY <1>1, <2>2, <3>1, FilledCells DEF n
      <3> QED
        BY <1>1, <1>4, <2>4, <3>1, <3>2
    <2> QED
      BY <1>1, <1>2, <2>3, <2>4, <2>5 DEF s, n, k
  <1>5. CASE k # 0
    <2>1. ~view.eof /\ Len(view.cells) = k /\ Run(view.cells, NextOf, 0)
      BY <1>1, <1>2, <1>5 DEF Parsing, WInv, Gathered, k
    <2>2. /\ started /\ ~hasErr
          /\ Len(view.cells) <= MaxCells =>
               /\ length = Len(view.cells)
               /\ \A i \in 1 .. length : buffers[cur][i] = view.cells[i]
      BY <1>2, <1>5, <2>1 DEF Parsing, WInv, Gathered
    <2>3. ~Starts(p) /\ Base(p) = length
      BY <1>3, <2>1 DEF Starts, Base
    <2>4. ~HasErr(p)
      BY <1>2, <2>2 DEF HasErr
    <2>5. s = view.cells \o p.cells
      BY <1>2, <1>5
    <2>6. /\ s \in Seq(Cell) /\ Len(s) = k + n /\ DOMAIN s = 1 .. k + n
          /\ \A i \in 1 .. k : s[i] = view.cells[i]
          /\ \A i \in k + 1 .. k + n : s[i] = p.cells[i - k]
      <3>1. Len(p.cells) = n
        BY DEF n
      <3>2. s \in Seq(Cell) /\ Len(s) = k + n
        <4>1. \A a, b \in Seq(Cell) : a \o b \in Seq(Cell) /\ Len(a \o b) = Len(a) + Len(b)
          OBVIOUS
        <4>2. view.cells \in Seq(Cell) /\ p.cells \in Seq(Cell)
          BY <1>1, <1>3
        <4> QED
          BY <2>1, <2>5, <3>1, <4>1, <4>2
      <3>3. \A i \in 1 .. Len(view.cells) + Len(p.cells) :
                s[i] = IF i <= Len(view.cells) THEN view.cells[i] ELSE p.cells[i - Len(view.cells)]
        BY <1>1, <1>3, <2>5
      <3>4. \A i \in 1 .. k + n : s[i] = IF i <= k THEN view.cells[i] ELSE p.cells[i - k]
        BY <2>1, <3>1, <3>3
      <3> QED
        BY <1>1, <3>2, <3>4
    <2>7. Run(s, NextOf, 0)
      <3>1. \A i \in 1 .. k : i \in DOMAIN view.cells
        BY <1>1, <1>3, <2>1
      <3>2. \A i \in k + 1 .. k + n : i - k \in DOMAIN p.cells /\ k + (i - k) = i
        BY <1>1
      <3>3. \A i \in 1 .. k : Place(s[i]) = NextOf /\ s[i].i = 0 + i
        BY <2>1, <2>6, <3>1 DEF Run
      <3>4. ASSUME NEW i \in k + 1 .. k + n
            PROVE  Place(s[i]) = NextOf /\ s[i].i = i
        <4>1. s[i] = p.cells[i - k] /\ i - k \in DOMAIN p.cells /\ k + (i - k) = i
          BY <2>6, <3>2
        <4> QED
          BY <1>1, <4>1 DEF Run
      <3>5. \A i \in 1 .. k + n : i \in 1 .. k \/ i \in k + 1 .. k + n
        BY <1>1
      <3> QED
        BY <2>6, <3>3, <3>4, <3>5 DEF Run
    <2>8. ASSUME k + n <= MaxCells
          PROVE  /\ Fits(p) /\ LengthAfter(p) = k + n
                 /\ \A i \in 1 .. k + n : Filled(p)[i] = s[i]
      <3>1. length = k /\ \A i \in 1 .. k : buffers[cur][i] = view.cells[i]
        BY <1>1, <2>1, <2>2, <2>8
      <3>2. Fits(p)
        BY <1>1, <2>3, <2>8, <3>1 DEF Fits, n
      <3>3. /\ LengthAfter(p) = k + n
            /\ \A i \in 1 .. k : Filled(p)[i] = buffers[cur][i]
            /\ \A i \in k + 1 .. k + n : Filled(p)[i] = p.cells[i - k]
        BY <2>3, <3>1, <3>2, FilledCells DEF n
      <3>4. \A i \in 1 .. k + n : i \in 1 .. k \/ i \in k + 1 .. k + n
        BY <1>1
      <3> QED
        BY <2>6, <3>1, <3>2, <3>3, <3>4
    <2> QED
      BY <1>2, <2>2, <2>4, <2>6, <2>7, <2>8 DEF s, n, k
  <1> QED
    BY <1>4, <1>5

(* A frame of which nothing was missed is in the buffer.                   *)
LEMMA MissedNothing ==
  ASSUME NEW p, Parsing(p), ~view.hurt, Fits(p)
  PROVE  /\ LengthAfter(p) = NextAt + Len(p.cells)
         /\ LengthAfter(p) \in 0 .. MaxCells
         /\ \A i \in 1 .. LengthAfter(p) :
              /\ Place(Filled(p)[i]) = NextOf /\ Filled(p)[i].i = i
              /\ Filled(p)[i].bad => HasErr(p)
  <1> DEFINE k == NextAt
             n == Len(p.cells)
  <1>1. /\ n \in Nat \ {0} /\ k \in Nat
        /\ DOMAIN p.cells = 1 .. n
        /\ Run(p.cells, NextOf, k)
        /\ \A i \in DOMAIN p.cells : p.cells[i].bad <=> p.err
        /\ MaxCells \in Nat
    BY PacketCell, StreamAssumption DEF Parsing
  <1>2. /\ Base(p) \in Nat
        /\ LengthAfter(p) = Base(p) + n
        /\ LengthAfter(p) \in 0 .. MaxCells
        /\ \A i \in 1 .. Base(p) : Filled(p)[i] = buffers[cur][i]
        /\ \A i \in Base(p) + 1 .. LengthAfter(p) : Filled(p)[i] = p.cells[i - Base(p)]
    BY FilledCells
  <1>3. IF prevEof THEN k = 0 /\ length = 0
        ELSE /\ k = length
             /\ \A i \in 1 .. length :
                  /\ Place(buffers[cur][i]) = NextOf /\ buffers[cur][i].i = i
                  /\ buffers[cur][i].bad => hasErr
    BY DEF Parsing, WInv, Viewed, Assembled
  <1>4. Base(p) = k
    BY <1>3 DEF Base, Starts
  <1> HIDE DEF k, n
  <1>5. ASSUME NEW i \in 1 .. k
        PROVE  /\ Place(Filled(p)[i]) = NextOf /\ Filled(p)[i].i = i
               /\ Filled(p)[i].bad => HasErr(p)
    <2>1. ~prevEof /\ i \in 1 .. length
      BY <1>1, <1>3
    <2>2. hasErr => HasErr(p)
      BY <2>1 DEF HasErr, Starts
    <2> QED
      BY <1>2, <1>3, <1>4, <2>1, <2>2
  <1>6. ASSUME NEW i \in k + 1 .. k + n
        PROVE  /\ Place(Filled(p)[i]) = NextOf /\ Filled(p)[i].i = i
               /\ Filled(p)[i].bad => HasErr(p)
    <2>1. i - k \in DOMAIN p.cells /\ k + (i - k) = i
      BY <1>1
    <2>2. Filled(p)[i] = p.cells[i - k]
      BY <1>2, <1>4
    <2>3. p.err => HasErr(p)
      BY DEF HasErr
    <2>4. Place(p.cells[i - k]) = NextOf /\ p.cells[i - k].i = i
      BY <1>1, <2>1 DEF Run
    <2> QED
      BY <1>1, <2>1, <2>2, <2>3, <2>4
  <1>7. \A i \in 1 .. k + n : i \in 1 .. k \/ i \in k + 1 .. k + n
    BY <1>1
  <1> QED
    BY <1>2, <1>4, <1>5, <1>6, <1>7 DEF k, n

(* What the application is handed. *)
Handed(p) == SubSeq(Filled(p), 1, LengthAfter(p))

LEMMA HandedCells ==
  ASSUME NEW p, Parsing(p)
  PROVE  /\ Len(Handed(p)) = LengthAfter(p) /\ DOMAIN Handed(p) = 1 .. LengthAfter(p)
         /\ \A i \in 1 .. LengthAfter(p) : Handed(p)[i] = Filled(p)[i]
         /\ LengthAfter(p) \in Nat
         /\ Handed(p) \in Seq(Cell)
  <1>1. Filled(p) \in [1 .. MaxCells -> Cell] /\ LengthAfter(p) \in 0 .. MaxCells
    BY FilledIs DEF Parsing, IInv
  <1>2. MaxCells \in Nat
    BY StreamAssumption
  <1>3. Filled(p) \in Seq(Cell) /\ Len(Filled(p)) = MaxCells
    BY <1>1, <1>2
  <1> HIDE DEF Handed
  <1>4. /\ SubSeq(Filled(p), 1, LengthAfter(p)) \in Seq(Cell)
        /\ Len(SubSeq(Filled(p), 1, LengthAfter(p))) = LengthAfter(p)
        /\ \A i \in 1 .. LengthAfter(p) : SubSeq(Filled(p), 1, LengthAfter(p))[i] = Filled(p)[i]
    BY <1>1, <1>2, <1>3
  <1> QED
    BY <1>1, <1>4 DEF Handed

(* A frame that was seen whole is handed over as it was sent.              *)
LEMMA WholeIsShown ==
  ASSUME NEW p, Parsing(p), Seen(p).ok, p.eof, Len(Seen(p).cells) <= MaxCells
  PROVE  Shows(p) /\ Handed(p) = Seen(p).cells
  <1> DEFINE m == NextAt + Len(p.cells)
             s == Seen(p).cells
  <1>1. /\ ~HasErr(p) /\ (started \/ Starts(p))
        /\ s \in Seq(Cell) /\ Len(s) = m /\ Run(s, NextOf, 0)
        /\ LengthAfter(p) = m
        /\ \A i \in 1 .. m : Filled(p)[i] = s[i]
    BY SeenWhole
  <1>2. m \in Nat \ {0} /\ m = NextOf.of
    BY PacketCell DEF Parsing, WInv, InFlight
  <1> HIDE DEF m, s
  <1>3. 1 \in 1 .. m /\ m \in 1 .. m /\ DOMAIN s = 1 .. m
    BY <1>1, <1>2
  <1>4. s[1].i = 1 /\ s[m].i = m /\ Place(s[m]) = NextOf
    BY <1>1, <1>2, <1>3 DEF Run
  <1>5. s[m].of = m
    BY <1>2, <1>4 DEF Place
  <1>6. Begins(Filled(p)[1]) /\ Ends(Filled(p)[LengthAfter(p)])
    BY <1>1, <1>3, <1>4, <1>5 DEF Begins, Ends
  <1>7. Shows(p)
    BY <1>1, <1>6 DEF Shows
  <1>8. /\ Len(Handed(p)) = m /\ Handed(p) \in Seq(Cell)
        /\ \A i \in 1 .. m : Handed(p)[i] = s[i]
    BY <1>1, HandedCells
  <1>9. Handed(p) = s
    BY <1>1, <1>8
  <1> QED
    BY <1>7, <1>9 DEF s

(* What is handed over after nothing was missed is a frame.                *)
LEMMA ShownIsWhole ==
  ASSUME NEW p, Parsing(p), Shows(p), ~view.hurt, Fits(p)
  PROVE  IsFrame(Handed(p))
  <1> DEFINE m == LengthAfter(p)
             s == Handed(p)
  <1>1. /\ m = NextAt + Len(p.cells)
        /\ \A i \in 1 .. m : /\ Place(Filled(p)[i]) = NextOf /\ Filled(p)[i].i = i
                             /\ Filled(p)[i].bad => HasErr(p)
    BY MissedNothing
  <1>2. p.eof /\ ~HasErr(p)
    BY DEF Shows
  <1>3. m \in Nat \ {0} /\ m = NextOf.of
    BY <1>1, <1>2, PacketCell DEF Parsing, WInv, InFlight
  <1>4. /\ Len(s) = m /\ DOMAIN s = 1 .. m /\ s \in Seq(Cell)
        /\ \A i \in 1 .. m : s[i] = Filled(p)[i]
    BY HandedCells
  <1> HIDE DEF m, s
  <1>5. \A i \in 1 .. m : Place(s[i]) = NextOf /\ s[i].i = i /\ ~s[i].bad /\ s[i] \in Cell
    BY <1>1, <1>2, <1>4
  <1>6. 1 \in 1 .. m
    BY <1>3
  <1>7. \A i \in 1 .. m : s[i].f = s[1].f /\ s[i].of = s[1].of
    BY <1>5, <1>6 DEF Place
  <1>8. s[1].of = m
    BY <1>3, <1>5, <1>6 DEF Place
  <1>9. ASSUME NEW i \in 1 .. m
        PROVE  s[i] = [s[1] EXCEPT !.i = i]
    <2>1. s[i] \in Cell /\ s[1] \in Cell /\ s[i].f = s[1].f /\ s[i].of = s[1].of /\ s[i].i = i
          /\ ~s[i].bad /\ ~s[1].bad
      BY <1>5, <1>6, <1>7
    <2> QED
      BY <2>1 DEF Cell
  <1> QED
    BY <1>3, <1>4, <1>5, <1>8, <1>9 DEF IsFrame, s

LEMMA DataInPictures ==
  ASSUME IInv, WInv, DataIn
  PROVE  WInv'
  <1> DEFINE p == urb.packet
  <1>1. /\ attached /\ st = "DATA_IN" /\ urb.st = "done" /\ urb' = Waits
        /\ video_stream_process_packet(p)
        /\ camera' = camera /\ attached' = attached /\ st' = st /\ doing' = doing
    BY DEF DataIn, Pass
  <1>2. Live /\ Live' /\ ~Pending' /\ NextAt' = camera.frame.sent
        /\ NextOf' = Place(camera.frame)
    BY <1>1 DEF Live, Pending, NextAt, NextOf, Waits, Place
  <1>3. CASE p.cells = <<>>
    <2>1. UNCHANGED parser
      BY <1>1, <1>3, Zenon DEF video_stream_process_packet
    <2>2. ~Pending
      BY <1>3 DEF Pending
    <2> QED
      BY <1>1, <1>2, <2>1, <2>2, StillPictures
  <1>4. CASE p.cells # <<>>
    <2>1. /\ fid' = p.fid /\ prevEof' = p.eof /\ hasErr' = HasErr(p)
          /\ buffers' = [buffers EXCEPT ![cur] = Filled(p)]
          /\ shown' = IF Shows(p)
                      THEN [buf |-> cur, fresh |-> TRUE, cells |-> Handed(p),
                            hurt |-> view.hurt \/ ~Fits(p)]
                      ELSE [shown EXCEPT !.fresh = @ /\ ~p.eof]
          /\ view' = Seen(p)
      BY <1>1, <1>4, Zenon DEF video_stream_process_packet, Handed
    <2>2. IF p.eof THEN length' = 0
          ELSE /\ cur' = cur /\ length' = LengthAfter(p)
               /\ started' <=> started \/ Starts(p)
      BY <1>1, <1>4 DEF video_stream_process_packet
    <2>3. Pending
      BY <1>1, <1>4 DEF Pending
    <2>4. /\ NextAt \in Nat /\ Run(p.cells, NextOf, NextAt)
          /\ IF p.eof
             THEN /\ NextAt + Len(p.cells) = NextOf.of
                  /\ camera.frame.sent = 0 /\ ~camera.frame.tail
             ELSE /\ NextAt + Len(p.cells) = camera.frame.sent
                  /\ Place(camera.frame) = NextOf
      BY <1>2, <2>3 DEF WInv, InFlight
    <2>5. p.cells \in Seq(Cell)
      BY <1>1 DEF IInv, Types
    <2>6. Parsing(p)
      BY <1>2, <1>4, <2>3, <2>4, <2>5 DEF Parsing
    <2>7. /\ Len(p.cells) \in Nat \ {0}
          /\ buffers'[cur] = Filled(p)
      BY <2>1, <2>6, PacketCell DEF IInv, Types, TypeOK
    <2>8. /\ view'.ok <=> Seen(p).ok
          /\ view'.cells = Seen(p).cells /\ view'.eof = p.eof /\ view'.fid = p.fid
          /\ view'.hurt <=> ~p.eof /\ (view.hurt \/ ~Fits(p))
          /\ DOMAIN view' = {"ok", "cells", "eof", "fid", "hurt"}
      BY <2>1 DEF Seen
    <2> HIDE DEF p
    <2>9. Viewed'
      <3>1. view'.cells \in Seq(Cell)
        <4>1. view.cells \in Seq(Cell) /\ p.cells \in Seq(Cell)
          BY <2>5 DEF WInv, Viewed, p
        <4>2. view.cells \o p.cells \in Seq(Cell)
          BY <4>1
        <4>3. Seen(p).cells \in {p.cells, view.cells \o p.cells}
          BY DEF Seen
        <4> QED
          BY <2>8, <4>1, <4>2, <4>3
      <3> QED
        BY <2>1, <2>2, <2>8, <3>1 DEF Viewed
    <2>10. InFlight'
      <3>1. camera.frame.tail => view'.hurt
        BY <1>1, <1>2, <2>4, <2>8 DEF WInv, InFlight
      <3> QED
        BY <1>1, <1>2, <3>1 DEF WInv, InFlight
    <2>11. Gathered'
      <3>1. SUFFICES ASSUME Seen(p).ok PROVE Gathered'
        BY <2>8 DEF Gathered
      <3>2. /\ ~HasErr(p) /\ (started \/ Starts(p)) /\ ~p.err
            /\ view'.cells \in Seq(Cell) /\ Len(view'.cells) = NextAt + Len(p.cells)
            /\ Run(view'.cells, NextOf, 0)
            /\ NextAt + Len(p.cells) <= MaxCells =>
                  /\ LengthAfter(p) = NextAt + Len(p.cells)
                  /\ \A i \in 1 .. NextAt + Len(p.cells) : Filled(p)[i] = view'.cells[i]
        BY <2>6, <2>8, <3>1, SeenWhole
      <3>3. CASE p.eof
        BY <1>2, <2>4, <2>8, <3>3 DEF Gathered, p
      <3>4. CASE ~p.eof
        <4>1. view'.cells # <<>>
          BY <2>4, <2>7, <3>2 DEF p
        <4>2. /\ started' /\ ~hasErr'
              /\ Len(view'.cells) <= MaxCells =>
                    /\ length' = Len(view'.cells)
                    /\ \A i \in 1 .. length' : buffers'[cur'][i] = view'.cells[i]
          BY <2>1, <2>2, <2>7, <3>2, <3>4
        <4>3. /\ ~view'.eof /\ Len(view'.cells) = NextAt' /\ Run(view'.cells, NextOf', 0)
          BY <1>2, <2>4, <2>8, <3>2, <3>4 DEF p
        <4> QED
          BY <4>1, <4>2, <4>3 DEF Gathered, Run, Place
      <3> QED
        BY <3>3, <3>4
    <2>12. Assembled'
      <3>1. SUFFICES ASSUME ~view'.hurt PROVE Assembled'
        BY DEF Assembled
      <3>2. CASE p.eof
        BY <1>2, <2>1, <2>4, <3>2 DEF Assembled, p
      <3>3. CASE ~p.eof
        <4>1. ~view.hurt /\ Fits(p)
          BY <2>8, <3>1, <3>3
        <4>2. /\ LengthAfter(p) = NextAt + Len(p.cells)
              /\ \A i \in 1 .. LengthAfter(p) :
                    /\ Place(Filled(p)[i]) = NextOf /\ Filled(p)[i].i = i
                    /\ Filled(p)[i].bad => HasErr(p)
          BY <2>6, <4>1, MissedNothing
        <4>3. NextAt' = length' /\ length' > 0 /\ NextOf' = NextOf /\ length' = LengthAfter(p)
          BY <1>2, <2>2, <2>4, <2>7, <3>3, <4>2 DEF p
        <4>4. \A i \in 1 .. length' :
                /\ Place(buffers'[cur'][i]) = NextOf' /\ buffers'[cur'][i].i = i
                /\ buffers'[cur'][i].bad => hasErr'
          BY <2>1, <2>2, <2>7, <3>3, <4>2, <4>3
        <4>5. ~prevEof'
          BY <2>1, <3>3
        <4> QED
          BY <4>3, <4>4, <4>5 DEF Assembled, Place
      <3> QED
        BY <3>2, <3>3
    <2>13. ShownWhole'
      <3>1. ASSUME view'.ok, view'.eof, Len(view'.cells) <= MaxCells
            PROVE  shown'.fresh /\ shown'.cells = view'.cells
        <4>1. Shows(p) /\ Handed(p) = view'.cells
          BY <2>6, <2>8, <3>1, WholeIsShown
        <4> QED
          BY <2>1, <4>1
      <3>2. ASSUME shown'.cells # <<>>, ~shown'.hurt
            PROVE  IsFrame(shown'.cells)
        <4>1. CASE Shows(p)
          <5>1. shown'.cells = Handed(p) /\ ~view.hurt /\ Fits(p)
            BY <2>1, <3>2, <4>1
          <5> QED
            BY <2>6, <4>1, <5>1, ShownIsWhole
        <4>2. CASE ~Shows(p)
          <5>1. shown'.cells = shown.cells /\ shown'.hurt = shown.hurt
            BY <2>1, <4>2 DEF IInv, Kept
          <5> QED
            BY <3>2, <5>1 DEF WInv, ShownWhole
        <4> QED
          BY <4>1, <4>2
      <3> QED
        BY <3>1, <3>2 DEF ShownWhole, IsFrame
    <2> QED
      BY <2>9, <2>10, <2>11, <2>12, <2>13 DEF WInv
  <1> QED
    BY <1>3, <1>4

LEMMA NextPictures == IInv /\ WInv /\ [Next]_vars => WInv'
  <1> SUFFICES ASSUME IInv, WInv, [Next]_vars PROVE WInv'
    OBVIOUS
  <1>1. CASE InterfaceInit \/ InterfaceDeInit \/ uvc_deinit
    BY <1>1, AttachPictures
  <1>2. CASE HostThread
    <2>1. CASE ClassRequest \/ StartStream \/ Stop \/ Start
      BY <2>1, AskPictures
    <2>2. CASE StartIn
      BY <2>2, StartInPictures
    <2>3. CASE DataIn
      BY <2>3, DataInPictures
    <2>4. CASE Stores \/ ClassRequestIdle \/ DataInLate
      BY <2>4, StillLive, StillPictures
    <2> QED
      BY <1>2, <2>1, <2>2, <2>3, <2>4 DEF HostThread, Stores
  <1>3. CASE uvc_stream_stop \/ uvc_stream_resume
    BY <1>3, StillLive, StillPictures
  <1>4. CASE World
    BY <1>4, WorldPictures
  <1>5. CASE UNCHANGED vars
    <2>1. /\ UNCHANGED parser /\ camera' = camera /\ urb' = urb
          /\ (Live' <=> Live) /\ (Pending' <=> Pending)
      BY <1>5 DEF vars, host, parser, Live, Pending
    <2> QED
      BY <2>1, StillPictures
  <1> QED
    BY <1>1, <1>2, <1>3, <1>4, <1>5 DEF Next

(* A frame that comes whole and unflagged, and fits, is shown as it was    *)
(* sent, and nothing but whole frames is shown unless something was missed *)
(* or did not fit: usbh_video_stream_parsing.c:61-180.                     *)
THEOREM ShowsWhole == Spec => []ShownWhole
  <1>1. Init => IInv /\ WInv
    BY InitInv, InitPictures
  <1>2. IInv /\ WInv /\ [Next]_vars => IInv' /\ WInv'
    BY NextInv, NextPictures
  <1>3. IInv /\ WInv => ShownWhole
    BY DEF WInv
  <1> QED
    BY <1>1, <1>2, <1>3, PTL DEF Spec

-------------------------------------------------------------------------------
(* What the camera offers.  A set of numbers has a least one, so that what *)
(* holds of no descriptors, and of one more whenever it holds of some,     *)
(* holds of all of them.                                                   *)
LEMMA LeastNumber ==
  ASSUME NEW S \in SUBSET Nat, S # {}
  PROVE  \E m \in S : \A j \in S : m <= j
  <1> DEFINE less == OpToRel(<, Nat)
  <1>1. PICK m \in S : \A j \in S : ~ (<<j, m>> \in less)
    <2>1. IsWellFoundedOn(less, Nat)
      BY NatLessThanWellFounded
    <2> HIDE DEF less
    <2> QED
      BY <2>1, WFMin
  <1>2. \A j \in S : <<j, m>> \in less <=> j < m
    BY DEF OpToRel
  <1>3. \A j \in S : ~ (j < m)
    BY <1>1, <1>2
  <1> QED
    BY <1>3

LEMMA LeastOf ==
  ASSUME NEW S \in SUBSET Nat, S # {}
  PROVE  Min(S) \in S
  BY LeastNumber DEF Min

LEMMA StepByStep ==
  ASSUME NEW C \in SUBSET Nat, NEW n \in Nat, 0 \in C,
         \A i \in 0 .. n - 1 : i \in C => i + 1 \in C
  PROVE  \A i \in 0 .. n : i \in C
  <1> DEFINE S == {i \in 0 .. n : i \notin C}
  <1>1. SUFFICES ASSUME S # {} PROVE FALSE
    OBVIOUS
  <1>2. PICK m \in S : \A j \in S : m <= j
    <2>1. S \in SUBSET Nat
      OBVIOUS
    <2> HIDE DEF S
    <2> QED
      BY <1>1, <2>1, LeastNumber
  <1>3. m \in 1 .. n /\ m - 1 \in 0 .. n - 1 /\ (m - 1) + 1 = m
    BY <1>2
  <1>4. m - 1 \in C
    BY <1>2, <1>3
  <1> QED
    BY <1>2, <1>3, <1>4

(* The table after each descriptor.                                        *)
LEMMA TableSteps ==
  ASSUME NEW c, Len(c.parts) \in Nat
  PROVE  \E t : /\ t[0] = NoFormats
                /\ \A i \in 1 .. Len(c.parts) :
                     t[i] = ParseCSDescriptors(t[i - 1], c.parts[i].kind, i)
                /\ USBH_VIDEO_ParseCSDescriptors(c) = t[Len(c.parts)]
  <1> DEFINE n == Len(c.parts)
             P(s, i) == ParseCSDescriptors(s, c.parts[i].kind, i)
             Is(g, m) == g = [i \in 0 .. m |-> IF i = 0 THEN NoFormats ELSE P(g[i - 1], i)]
             C == {m \in Nat : \E g : Is(g, m)}
             t == CHOOSE g : Is(g, n)
  <1> HIDE DEF P
  <1>1. 0 \in C
    <2>1. Is([i \in 0 .. 0 |-> NoFormats], 0)
      OBVIOUS
    <2> QED
      BY <2>1
  <1>2. ASSUME NEW m \in Nat, m \in C
        PROVE  m + 1 \in C
    <2>1. PICK g : Is(g, m)
      BY <1>2
    <2> DEFINE h == [i \in 0 .. m + 1 |-> IF i <= m THEN g[i] ELSE P(g[m], m + 1)]
    <2>2. \A i \in 0 .. m : g[i] = IF i = 0 THEN NoFormats ELSE P(g[i - 1], i)
      BY <2>1
    <2>3. \A i \in 0 .. m : h[i] = g[i]
      BY <1>2
    <2>4. h[m + 1] = P(g[m], m + 1)
      BY <1>2
    <2> HIDE DEF h
    <2>5. ASSUME NEW i \in 0 .. m + 1
          PROVE  h[i] = IF i = 0 THEN NoFormats ELSE P(h[i - 1], i)
      <3>1. CASE i = m + 1
        BY <1>2, <2>3, <2>4, <3>1
      <3>2. CASE i \in 0 .. m
        <4>1. i # 0 => h[i - 1] = g[i - 1]
          BY <1>2, <2>3, <3>2
        <4> QED
          BY <2>2, <2>3, <3>2, <4>1
      <3> QED
        BY <1>2, <3>1, <3>2
    <2>6. h = [i \in 0 .. m + 1 |-> h[i]]
      BY DEF h
    <2>7. Is(h, m + 1)
      BY <2>5, <2>6
    <2> QED
      BY <1>2, <2>7
  <1>3. \E g : Is(g, n)
    <2> HIDE DEF Is
    <2>1. C \in SUBSET Nat
      OBVIOUS
    <2>2. \A i \in 0 .. n - 1 : i \in C => i + 1 \in C
      <3>1. \A i \in 0 .. n - 1 : i \in Nat
        OBVIOUS
      <3> HIDE DEF C
      <3> QED
        BY <1>2, <3>1
    <2> HIDE DEF C
    <2>3. n \in Nat /\ n \in 0 .. n
      OBVIOUS
    <2> HIDE DEF n
    <2>4. \A i \in 0 .. n : i \in C
      BY <1>1, <2>1, <2>2, <2>3, StepByStep
    <2> QED
      BY <2>3, <2>4 DEF C
  <1>4. Is(t, n)
    <2> HIDE DEF Is
    <2> QED
      BY <1>3
  <1>5. USBH_VIDEO_ParseCSDescriptors(c) = t[n]
    BY DEF USBH_VIDEO_ParseCSDescriptors, P
  <1> HIDE DEF t
  <1>6. \A i \in 0 .. n : t[i] = IF i = 0 THEN NoFormats ELSE P(t[i - 1], i)
    BY <1>4
  <1>7. t[0] = NoFormats /\ \A i \in 1 .. n : t[i] = P(t[i - 1], i)
    BY <1>6
  <1> QED
    BY <1>5, <1>7 DEF P

(* The formats among the first i descriptors, and the frames of one of     *)
(* them; the table after i descriptors holds just these.                   *)
FormatsTo(c, i)   == {f \in Formats(c) : f <= i}
FramesTo(c, f, i) == {j \in DOMAIN c.parts : <<f, j>> \in Offered(c) /\ j <= i}

Table == [num : 0 .. MaxFormats, format : [0 .. MaxFormats -> Nat],
          frames : [0 .. MaxFormats -> Seq(Nat)]]

Lists(s, S) ==
  /\ s \in Seq(Nat) /\ Len(s) = Cardinality(S)
  /\ \A j \in 1 .. Len(s) : s[j] \in S
  /\ \A x \in S : \E j \in 1 .. Len(s) : s[j] = x

Tabled(c, t, i) ==
  /\ t \in Table
  /\ t.num = Cardinality(FormatsTo(c, i))
  /\ i > 0 => t.num > 0
  /\ \A k \in 0 .. t.num - 1 :
        t.format[k] \in FormatsTo(c, i) /\ t.format[k] <= t.format[t.num - 1]
  /\ \A f \in FormatsTo(c, i) : \E k \in 0 .. t.num - 1 : t.format[k] = f
  /\ \A k, l \in 0 .. t.num - 1 : t.format[k] = t.format[l] => k = l
  /\ \A k \in 0 .. t.num - 1 : Lists(t.frames[k], FramesTo(c, t.format[k], i))
  /\ \A k \in t.num .. MaxFormats : t.frames[k] = <<>>

Listing(c) == c.parts \in Seq(Descriptor) /\ Orderly(c)

LEMMA Counting ==
  ASSUME NEW n \in Nat, NEW S \in SUBSET (1 .. n)
  PROVE  /\ IsFiniteSet(S) /\ Cardinality(S) \in Nat
         /\ \A T \in SUBSET S : IsFiniteSet(T) /\ Cardinality(T) \in Nat
                                /\ Cardinality(T) <= Cardinality(S)
         /\ \A x : x \notin S => Cardinality(S \cup {x}) = Cardinality(S) + 1
  <1>1. IsFiniteSet(1 .. n)
    BY FS_Interval
  <1>2. IsFiniteSet(S)
    BY <1>1, FS_Subset
  <1>3. \A T : IsFiniteSet(T) => Cardinality(T) \in Nat
    BY FS_CardinalityType
  <1>4. \A T \in SUBSET S : IsFiniteSet(T) /\ Cardinality(T) <= Cardinality(S)
    BY <1>2, FS_Subset
  <1>5. \A x : x \notin S => Cardinality(S \cup {x}) = Cardinality(S) + 1
    BY <1>2, FS_AddElement
  <1> QED
    BY <1>2, <1>3, <1>4, <1>5

LEMMA Descriptors ==
  ASSUME NEW c, Listing(c)
  PROVE  /\ Len(c.parts) \in Nat \ {0} /\ DOMAIN c.parts = 1 .. Len(c.parts)
         /\ Formats(c) \in SUBSET (1 .. Len(c.parts)) /\ 1 \in Formats(c)
         /\ Cardinality(Formats(c)) <= MaxFormats
         /\ \A f, i : FramesTo(c, f, i) \in SUBSET (1 .. Len(c.parts))
         /\ \A f \in Formats(c) : Cardinality(FramesTo(c, f, Len(c.parts))) <= MaxFrames
         /\ \A x \in Offered(c) : /\ x = <<x[1], x[2]>> /\ x[1] \in Formats(c)
                                  /\ x[2] \in 1 .. Len(c.parts)
  <1>1. /\ c.parts \in Seq(Descriptor) /\ c.parts # <<>> /\ c.parts[1].kind # "frame"
        /\ Formats(c) = {} \/ \A f \in Formats(c) :
             Cardinality({i \in DOMAIN c.parts : <<f, i>> \in Offered(c)}) <= MaxFrames
        /\ Cardinality(Formats(c)) <= MaxFormats
    BY Zenon DEF Listing, Orderly
  <1>2. Len(c.parts) \in Nat \ {0} /\ DOMAIN c.parts = 1 .. Len(c.parts)
    BY <1>1
  <1>3. Formats(c) \in SUBSET (1 .. Len(c.parts)) /\ 1 \in Formats(c)
    BY <1>1, <1>2 DEF Formats
  <1>4. \A f, i : FramesTo(c, f, i) \in SUBSET (1 .. Len(c.parts))
    BY <1>2 DEF FramesTo
  <1>5. \A f : FramesTo(c, f, Len(c.parts)) = {i \in DOMAIN c.parts : <<f, i>> \in Offered(c)}
    BY <1>2 DEF FramesTo
  <1>6. \A x \in Offered(c) : /\ x = <<x[1], x[2]>> /\ x[1] \in Formats(c)
                              /\ x[2] \in 1 .. Len(c.parts)
    BY <1>2 DEF Offered
  <1> QED
    BY <1>1, <1>2, <1>3, <1>4, <1>5, <1>6

LEMMA TabledFirst ==
  ASSUME NEW c, Listing(c)
  PROVE  Tabled(c, NoFormats, 0)
  <1>1. FormatsTo(c, 0) = {}
    BY Descriptors DEF FormatsTo
  <1>2. Cardinality(FormatsTo(c, 0)) = 0
    BY <1>1, FS_EmptySet
  <1>3. /\ NoFormats.num = 0 /\ NoFormats \in Table
        /\ \A k \in 0 .. MaxFormats : NoFormats.frames[k] = <<>>
    <2>1. MaxFormats \in Nat
      BY TablesAssumption
    <2> QED
      BY <2>1 DEF NoFormats, Table
  <1> QED
    BY <1>1, <1>2, <1>3 DEF Tabled

LEMMA StoredAt ==
  ASSUME NEW M \in Nat, NEW S, NEW f \in [0 .. M -> S], NEW m \in 0 .. M, NEW v \in S
  PROVE  /\ [f EXCEPT ![m] = v] \in [0 .. M -> S]
         /\ [f EXCEPT ![m] = v][m] = v
         /\ \A k \in 0 .. M : k # m => [f EXCEPT ![m] = v][k] = f[k]
  OBVIOUS

(* A format is stored behind the ones before it.                           *)
LEMMA TabledFormat ==
  ASSUME NEW c, Listing(c), NEW q \in 1 .. Len(c.parts), NEW t, Tabled(c, t, q - 1),
         c.parts[q].kind # "frame"
  PROVE  Tabled(c, ParseCSDescriptors(t, c.parts[q].kind, q), q)
  <1> DEFINE n == Len(c.parts)
             u == ParseCSDescriptors(t, c.parts[q].kind, q)
  <1>1. /\ n \in Nat /\ q \in Nat /\ q > 0 /\ MaxFormats \in Nat
        /\ DOMAIN c.parts = 1 .. n /\ Formats(c) \in SUBSET (1 .. n)
        /\ Cardinality(Formats(c)) <= MaxFormats
    BY Descriptors, TablesAssumption
  <1>2. q \in Formats(c)
    BY <1>1 DEF Formats
  <1>3. FormatsTo(c, q) = FormatsTo(c, q - 1) \cup {q} /\ q \notin FormatsTo(c, q - 1)
    BY <1>1, <1>2 DEF FormatsTo
  <1>4. /\ FormatsTo(c, q - 1) \in SUBSET (1 .. n) /\ FormatsTo(c, q) \in SUBSET Formats(c)
        /\ FormatsTo(c, q - 1) \in SUBSET Formats(c)
    BY <1>1 DEF FormatsTo
  <1>5. /\ t \in Table /\ t.num = Cardinality(FormatsTo(c, q - 1))
        /\ \A k \in 0 .. t.num - 1 : t.format[k] \in FormatsTo(c, q - 1)
        /\ \A f \in FormatsTo(c, q - 1) : \E k \in 0 .. t.num - 1 : t.format[k] = f
        /\ \A k, l \in 0 .. t.num - 1 : t.format[k] = t.format[l] => k = l
        /\ \A k \in 0 .. t.num - 1 : Lists(t.frames[k], FramesTo(c, t.format[k], q - 1))
        /\ \A k \in t.num .. MaxFormats : t.frames[k] = <<>>
    BY DEF Tabled
  <1>6. /\ Cardinality(FormatsTo(c, q)) = t.num + 1
        /\ Cardinality(FormatsTo(c, q)) <= Cardinality(Formats(c))
        /\ Cardinality(Formats(c)) \in Nat
    <2>1. Cardinality(FormatsTo(c, q - 1) \cup {q}) = Cardinality(FormatsTo(c, q - 1)) + 1
      BY <1>1, <1>3, <1>4, Counting
    <2>2. /\ Cardinality(FormatsTo(c, q)) <= Cardinality(Formats(c))
          /\ Cardinality(Formats(c)) \in Nat
      BY <1>1, <1>4, Counting
    <2> QED
      BY <1>3, <1>5, <2>1, <2>2
  <1>7. t.num \in Nat /\ t.num < MaxFormats
    BY <1>1, <1>5, <1>6 DEF Table
  <1>8. u = [num |-> t.num + 1, format |-> [t.format EXCEPT ![t.num] = q],
             frames |-> t.frames]
    BY <1>7, Zenon DEF ParseCSDescriptors
  <1>9. /\ u.num = t.num + 1 /\ u.format = [t.format EXCEPT ![t.num] = q]
        /\ u.frames = t.frames /\ u \in Table
    <2>1. /\ DOMAIN t = {"num", "format", "frames"} /\ t.format \in [0 .. MaxFormats -> Nat]
          /\ t.frames \in [0 .. MaxFormats -> Seq(Nat)]
      BY <1>5 DEF Table
    <2> HIDE DEF u
    <2>3. [t.format EXCEPT ![t.num] = q] \in [0 .. MaxFormats -> Nat]
      BY <1>1, <2>1
    <2>4. t.num + 1 \in 0 .. MaxFormats
      BY <1>1, <1>7
    <2> QED
      BY <1>8, <2>1, <2>3, <2>4 DEF Table
  <1> HIDE DEF u, n
  <1>10. /\ u.format[t.num] = q
         /\ \A k \in 0 .. t.num - 1 : u.format[k] = t.format[k]
    <2>1. t.format \in [0 .. MaxFormats -> Nat]
      BY <1>5 DEF Table
    <2>2. t.num \in 0 .. MaxFormats /\ q \in Nat
      BY <1>1, <1>7
    <2>3. /\ [t.format EXCEPT ![t.num] = q][t.num] = q
          /\ \A k \in 0 .. MaxFormats : k # t.num => [t.format EXCEPT ![t.num] = q][k] = t.format[k]
      BY <1>1, <2>1, <2>2, StoredAt
    <2>4. \A k \in 0 .. t.num - 1 : k \in 0 .. MaxFormats /\ k # t.num
      BY <1>1, <1>7
    <2> QED
      BY <1>9, <2>3, <2>4
  <1>11. \A f : FramesTo(c, f, q) = FramesTo(c, f, q - 1)
    <2>1. \A f : <<f, q>> \notin Offered(c)
      BY <1>2 DEF Offered
    <2> QED
      BY <1>1, <2>1 DEF FramesTo
  <1>12. FramesTo(c, q, q) = {}
    <2>1. \A j \in DOMAIN c.parts : <<q, j>> \in Offered(c) => q < j
      BY DEF Offered
    <2> QED
      BY <1>1, <2>1 DEF FramesTo
  <1>13. Lists(<<>>, {})
    BY FS_EmptySet DEF Lists
  <1>14. \A k \in 0 .. u.num - 1 : k = t.num \/ k \in 0 .. t.num - 1
    BY <1>7, <1>9
  <1>15. u.num = Cardinality(FormatsTo(c, q)) /\ u.num > 0
    BY <1>6, <1>7, <1>9
  <1>16. ASSUME NEW k \in 0 .. u.num - 1
         PROVE  /\ u.format[k] \in FormatsTo(c, q) /\ u.format[k] <= u.format[u.num - 1]
                /\ Lists(u.frames[k], FramesTo(c, u.format[k], q))
    <2>1. u.format[u.num - 1] = q
      BY <1>7, <1>9, <1>10
    <2>2. CASE k = t.num
      <3>1. t.frames[k] = <<>>
        BY <1>1, <1>5, <1>7, <2>2
      <3>2. q \in FormatsTo(c, q)
        BY <1>3
      <3>3. u.format[k] = q /\ u.frames[k] = <<>>
        BY <1>9, <1>10, <2>2, <3>1
      <3>4. Lists(u.frames[k], FramesTo(c, u.format[k], q))
        BY <1>12, <1>13, <3>3
      <3> QED
        BY <1>1, <2>1, <3>2, <3>3, <3>4
    <2>3. CASE k \in 0 .. t.num - 1
      <3>1. u.format[k] = t.format[k] /\ t.format[k] \in FormatsTo(c, q - 1)
        BY <1>5, <1>10, <2>3
      <3>2. t.format[k] <= q
        BY <1>1, <3>1 DEF FormatsTo
      <3> QED
        BY <1>3, <1>5, <1>9, <1>11, <2>1, <2>3, <3>1, <3>2
    <2> QED
      BY <1>14, <2>2, <2>3
  <1>17. ASSUME NEW f \in FormatsTo(c, q)
         PROVE  \E k \in 0 .. u.num - 1 : u.format[k] = f
    <2>1. CASE f = q
      BY <1>7, <1>9, <1>10, <2>1
    <2>2. CASE f \in FormatsTo(c, q - 1)
      <3>1. PICK k \in 0 .. t.num - 1 : t.format[k] = f
        BY <1>5, <2>2
      <3> QED
        BY <1>7, <1>9, <1>10, <3>1
    <2> QED
      BY <1>3, <2>1, <2>2
  <1>18. \A k, l \in 0 .. u.num - 1 : u.format[k] = u.format[l] => k = l
    <2>1. \A k \in 0 .. t.num - 1 : u.format[k] # q
      BY <1>3, <1>5, <1>10
    <2> QED
      BY <1>5, <1>10, <1>14, <2>1
  <1>19. \A k \in u.num .. MaxFormats : u.frames[k] = <<>>
    BY <1>1, <1>5, <1>7, <1>9
  <1> QED
    BY <1>9, <1>15, <1>16, <1>17, <1>18, <1>19 DEF Tabled, u

(* A frame is appended to those of the last format.                        *)
LEMMA TabledFrame ==
  ASSUME NEW c, Listing(c), NEW q \in 1 .. Len(c.parts), NEW t, Tabled(c, t, q - 1),
         c.parts[q].kind = "frame"
  PROVE  Tabled(c, ParseCSDescriptors(t, c.parts[q].kind, q), q)
  <1> DEFINE n == Len(c.parts)
             u == ParseCSDescriptors(t, c.parts[q].kind, q)
             o == t.num - 1
             f == t.format[o]
  <1>1. /\ n \in Nat /\ q \in Nat /\ q > 0 /\ MaxFormats \in Nat /\ MaxFrames \in Nat
        /\ DOMAIN c.parts = 1 .. n /\ Formats(c) \in SUBSET (1 .. n) /\ 1 \in Formats(c)
        /\ q \in 1 .. n
    BY Descriptors, TablesAssumption
  <1>2. q \notin Formats(c)
    BY DEF Formats
  <1>3. q - 1 > 0 /\ q - 1 \in Nat
    BY <1>1, <1>2
  <1>4. FormatsTo(c, q) = FormatsTo(c, q - 1)
    BY <1>1, <1>2 DEF FormatsTo
  <1>5. /\ t \in Table /\ t.num = Cardinality(FormatsTo(c, q - 1)) /\ t.num > 0
        /\ \A k \in 0 .. t.num - 1 : /\ t.format[k] \in FormatsTo(c, q - 1)
                                     /\ t.format[k] <= t.format[t.num - 1]
        /\ \A g \in FormatsTo(c, q - 1) : \E k \in 0 .. t.num - 1 : t.format[k] = g
        /\ \A k, l \in 0 .. t.num - 1 : t.format[k] = t.format[l] => k = l
        /\ \A k \in 0 .. t.num - 1 : Lists(t.frames[k], FramesTo(c, t.format[k], q - 1))
        /\ \A k \in t.num .. MaxFormats : t.frames[k] = <<>>
    BY <1>3 DEF Tabled
  <1>6. /\ t.num \in 0 .. MaxFormats /\ o \in 0 .. t.num - 1 /\ o \in 0 .. MaxFormats
        /\ t.frames \in [0 .. MaxFormats -> Seq(Nat)] /\ t.format \in [0 .. MaxFormats -> Nat]
        /\ Owner(t.num) = o
    <2>1. /\ t.num \in 0 .. MaxFormats /\ t.frames \in [0 .. MaxFormats -> Seq(Nat)]
          /\ t.format \in [0 .. MaxFormats -> Nat]
      BY <1>5, Zenon DEF Table
    <2>2. t.num > 0 /\ t.num # 0
      BY <1>5, <2>1
    <2>3. o \in 0 .. t.num - 1 /\ o \in 0 .. MaxFormats
      <3>1. \A x \in 0 .. MaxFormats : x > 0 => x - 1 \in 0 .. x - 1 /\ x - 1 \in 0 .. MaxFormats
        BY TablesAssumption
      <3> QED
        BY <2>1, <2>2, <3>1
    <2>4. Owner(t.num) = o
      BY <2>2, Zenon DEF Owner
    <2> QED
      BY <2>1, <2>3, <2>4
  <1>7. f \in Formats(c) /\ f < q /\ f \in Nat
    <2>1. f \in FormatsTo(c, q - 1)
      BY <1>5, <1>6
    <2> HIDE DEF f
    <2>2. f \in Formats(c) /\ f <= q - 1 /\ f \in 1 .. n
      BY <1>1, <2>1, Zenon DEF FormatsTo
    <2> QED
      BY <1>1, <2>2
  <1>8. \A g \in Formats(c) : g < q => g <= f
    <2>1. ASSUME NEW g \in Formats(c), g < q PROVE g <= f
      <3>1. g \in FormatsTo(c, q - 1)
        BY <1>1, <2>1 DEF FormatsTo
      <3> QED
        BY <1>5, <3>1
    <2> QED
      BY <2>1
  <1>9. <<f, q>> \in Offered(c)
    BY <1>1, <1>2, <1>7, <1>8 DEF Offered
  <1>10. ASSUME NEW k \in 0 .. t.num - 1, k # o
         PROVE  FramesTo(c, t.format[k], q) = FramesTo(c, t.format[k], q - 1)
    <2>1. t.format[k] <= f /\ t.format[k] # f /\ t.format[k] \in Nat
      <3>1. t.format[k] \in FormatsTo(c, q - 1) /\ t.format[k] <= f
        BY <1>5
      <3>2. t.format[k] # f
        BY <1>5, <1>6, <1>10
      <3> QED
        BY <1>1, <3>1, <3>2 DEF FormatsTo
    <2>2. <<t.format[k], q>> \notin Offered(c)
      <3>1. \A g : <<g, q>> \in Offered(c) => f <= g
        BY <1>7 DEF Offered
      <3> QED
        BY <1>7, <2>1, <3>1
    <2> QED
      BY <1>1, <2>2 DEF FramesTo
  <1>11. /\ FramesTo(c, f, q) = FramesTo(c, f, q - 1) \cup {q}
         /\ q \notin FramesTo(c, f, q - 1)
         /\ FramesTo(c, f, q) \in SUBSET FramesTo(c, f, n)
         /\ FramesTo(c, f, q - 1) \in SUBSET (1 .. n)
         /\ FramesTo(c, f, n) \in SUBSET (1 .. n)
    <2> HIDE DEF f
    <2> QED
      BY <1>1, <1>9 DEF FramesTo
  <1>12. /\ Cardinality(FramesTo(c, f, q)) = Cardinality(FramesTo(c, f, q - 1)) + 1
         /\ Cardinality(FramesTo(c, f, q)) <= Cardinality(FramesTo(c, f, n))
         /\ Cardinality(FramesTo(c, f, n)) <= MaxFrames
         /\ Cardinality(FramesTo(c, f, n)) \in Nat
         /\ Cardinality(FramesTo(c, f, q - 1)) \in Nat
    <2>1. Cardinality(FramesTo(c, f, n)) <= MaxFrames
      BY <1>7, Descriptors
    <2> HIDE DEF f, n
    <2>2. Cardinality(FramesTo(c, f, q - 1) \cup {q}) = Cardinality(FramesTo(c, f, q - 1)) + 1
          /\ Cardinality(FramesTo(c, f, q - 1)) \in Nat
      BY <1>1, <1>11, Counting
    <2>3. /\ Cardinality(FramesTo(c, f, q)) <= Cardinality(FramesTo(c, f, n))
          /\ Cardinality(FramesTo(c, f, n)) \in Nat
      BY <1>1, <1>11, Counting
    <2> QED
      BY <1>11, <2>1, <2>2, <2>3
  <1>13. Lists(t.frames[o], FramesTo(c, f, q - 1))
    BY <1>5, <1>6
  <1>14. Len(t.frames[o]) < MaxFrames /\ t.frames[o] \in Seq(Nat)
    BY <1>1, <1>12, <1>13 DEF Lists
  <1>15. u = [num |-> t.num, format |-> t.format,
              frames |-> [t.frames EXCEPT ![o] = Append(@, q)]]
    <2>1. Len(t.frames[Owner(t.num)]) < MaxFrames
      BY <1>6, <1>14
    <2> QED
      BY <1>6, <2>1, Zenon DEF ParseCSDescriptors
  <1> HIDE DEF n, f
  <1> DEFINE s == Append(t.frames[o], q)
  <1>16. /\ s \in Seq(Nat) /\ Len(s) = Len(t.frames[o]) + 1 /\ s[Len(s)] = q
         /\ \A j \in 1 .. Len(t.frames[o]) : s[j] = t.frames[o][j]
    BY <1>1, <1>14
  <1>17. Lists(s, FramesTo(c, f, q))
    <2>1. Len(s) = Cardinality(FramesTo(c, f, q))
      BY <1>12, <1>13, <1>16 DEF Lists
    <2> HIDE DEF s
    <2>2. Len(t.frames[o]) \in Nat
      BY <1>14
    <2>3. \A j \in 1 .. Len(s) : s[j] \in FramesTo(c, f, q)
      <3>1. \A j \in 1 .. Len(s) : j = Len(s) \/ j \in 1 .. Len(t.frames[o])
        BY <1>16, <2>2
      <3> QED
        BY <1>11, <1>13, <1>16, <3>1 DEF Lists
    <2>4. ASSUME NEW x \in FramesTo(c, f, q)
          PROVE  \E j \in 1 .. Len(s) : s[j] = x
      <3>1. CASE x = q
        <4>1. Len(s) \in 1 .. Len(s)
          BY <1>16, <2>2
        <4> QED
          BY <1>16, <3>1, <4>1
      <3>2. CASE x \in FramesTo(c, f, q - 1)
        <4>1. PICK j \in 1 .. Len(t.frames[o]) : t.frames[o][j] = x
          BY <1>13, <3>2 DEF Lists
        <4>2. j \in 1 .. Len(s)
          BY <1>16, <2>2
        <4> QED
          BY <1>16, <4>1, <4>2
      <3> QED
        BY <1>11, <3>1, <3>2
    <2> QED
      BY <1>16, <2>1, <2>3, <2>4 DEF Lists
  <1>18. /\ [t.frames EXCEPT ![o] = Append(@, q)] = [t.frames EXCEPT ![o] = s]
         /\ [t.frames EXCEPT ![o] = s] \in [0 .. MaxFormats -> Seq(Nat)]
         /\ [t.frames EXCEPT ![o] = s][o] = s
         /\ \A k \in 0 .. MaxFormats : k # o => [t.frames EXCEPT ![o] = s][k] = t.frames[k]
    <2>1. [t.frames EXCEPT ![o] = Append(@, q)] = [t.frames EXCEPT ![o] = s]
      BY <1>6
    <2> HIDE DEF s, o
    <2> QED
      BY <1>1, <1>6, <1>16, <2>1, StoredAt
  <1> HIDE DEF s, u, o
  <1>19. /\ u.num = t.num /\ u.format = t.format /\ u \in Table
         /\ u.frames[o] = s
         /\ \A k \in 0 .. MaxFormats : k # o => u.frames[k] = t.frames[k]
    BY <1>6, <1>15, <1>18 DEF Table
  <1>20. ASSUME NEW k \in 0 .. t.num - 1
         PROVE  Lists(u.frames[k], FramesTo(c, t.format[k], q))
    <2>1. CASE k = o
      BY <1>17, <1>19, <2>1 DEF f
    <2>2. CASE k # o
      <3>1. k \in 0 .. MaxFormats
        BY <1>1, <1>6
      <3> QED
        BY <1>5, <1>10, <1>19, <2>2, <3>1
    <2> QED
      BY <2>1, <2>2
  <1>21. \A k \in t.num .. MaxFormats : u.frames[k] = <<>>
    <2>1. \A k \in t.num .. MaxFormats : k \in 0 .. MaxFormats /\ k # o
      BY <1>1, <1>6
    <2> QED
      BY <1>5, <1>19, <2>1
  <1>22. Tabled(c, u, q)
    BY <1>4, <1>5, <1>19, <1>20, <1>21 DEF Tabled
  <1> QED
    BY <1>22 DEF u

LEMMA WholeTable ==
  ASSUME NEW c, Listing(c)
  PROVE  Tabled(c, USBH_VIDEO_ParseCSDescriptors(c), Len(c.parts))
  <1> DEFINE n == Len(c.parts)
  <1>1. n \in Nat
    BY Descriptors
  <1>2. PICK t : /\ t[0] = NoFormats
                 /\ \A i \in 1 .. n : t[i] = ParseCSDescriptors(t[i - 1], c.parts[i].kind, i)
                 /\ USBH_VIDEO_ParseCSDescriptors(c) = t[n]
    BY <1>1, TableSteps
  <1> DEFINE C == {i \in Nat : Tabled(c, t[i], i)}
  <1>3. 0 \in C
    BY <1>2, TabledFirst
  <1>4. ASSUME NEW i \in 0 .. n - 1, i \in C
        PROVE  i + 1 \in C
    <2>1. i + 1 \in 1 .. n /\ (i + 1) - 1 = i /\ i + 1 \in Nat
      BY <1>1
    <2>2. Tabled(c, t[i], i)
      BY <1>4
    <2> DEFINE q == i + 1
    <2>3. q \in 1 .. n /\ Tabled(c, t[i], q - 1)
      BY <2>1, <2>2
    <2> HIDE DEF q
    <2>4. Tabled(c, ParseCSDescriptors(t[i], c.parts[q].kind, q), q)
      BY <2>3, TabledFormat, TabledFrame
    <2>5. t[q] = ParseCSDescriptors(t[i], c.parts[q].kind, q)
      BY <1>2, <2>1 DEF q
    <2>6. Tabled(c, t[q], q)
      BY <2>4, <2>5
    <2> QED
      BY <2>1, <2>6 DEF q
  <1>5. C \in SUBSET Nat
    OBVIOUS
  <1> HIDE DEF C
  <1>6. \A i \in 0 .. n : i \in C
    BY <1>1, <1>3, <1>4, <1>5, StepByStep
  <1>7. n \in C
    BY <1>1, <1>6
  <1> QED
    BY <1>2, <1>7 DEF C

(* What is looked for in the table is found there just when the camera     *)
(* offers it.                                                              *)
LEMMA ModesOffered ==
  ASSUME NEW c, Listing(c), NEW t, Tabled(c, t, Len(c.parts))
  PROVE  /\ \A x \in Modes(c, t) :
              /\ x = <<x[1], x[2]>> /\ x[1] \in Nat /\ x[2] \in Nat
              /\ <<t.format[x[1]], t.frames[x[1]][x[2]]>> \in Wanted(c)
         /\ Wanted(c) # {} => Modes(c, t) # {}
  <1> DEFINE n == Len(c.parts)
  <1>1. /\ n \in Nat /\ DOMAIN c.parts = 1 .. n /\ Formats(c) \in SUBSET (1 .. n)
        /\ \A x \in Offered(c) : x = <<x[1], x[2]>> /\ x[1] \in Formats(c) /\ x[2] \in 1 .. n
        /\ \A f \in Formats(c) : Cardinality(FramesTo(c, f, n)) <= MaxFrames
        /\ \A f, i : FramesTo(c, f, i) \in SUBSET (1 .. n)
    BY Descriptors
  <1>2. /\ t \in Table
        /\ \A k \in 0 .. t.num - 1 : t.format[k] \in FormatsTo(c, n)
        /\ \A f \in FormatsTo(c, n) : \E k \in 0 .. t.num - 1 : t.format[k] = f
        /\ \A k \in 0 .. t.num - 1 : Lists(t.frames[k], FramesTo(c, t.format[k], n))
    BY DEF Tabled
  <1>3. t.num \in Nat /\ MaxFrames \in Nat
    BY <1>2, TablesAssumption DEF Table
  <1> HIDE DEF n
  <1>4. ASSUME NEW x \in Modes(c, t)
        PROVE  /\ x = <<x[1], x[2]>> /\ x[1] \in Nat /\ x[2] \in Nat
               /\ <<t.format[x[1]], t.frames[x[1]][x[2]]>> \in Wanted(c)
    <2>1. /\ x = <<x[1], x[2]>> /\ x[1] \in 0 .. t.num - 1 /\ x[2] \in 1 .. MaxFrames
          /\ c.parts[t.format[x[1]]].kind = "mjpeg"
          /\ x[2] <= Len(t.frames[x[1]])
          /\ c.parts[t.frames[x[1]][x[2]]].wanted
      BY DEF Modes
    <2>2. Lists(t.frames[x[1]], FramesTo(c, t.format[x[1]], n))
      BY <1>2, <2>1
    <2>3. x[2] \in 1 .. Len(t.frames[x[1]])
      <3>1. Len(t.frames[x[1]]) \in Nat
        BY <2>2 DEF Lists
      <3> QED
        BY <1>3, <2>1, <3>1
    <2>4. t.frames[x[1]][x[2]] \in FramesTo(c, t.format[x[1]], n)
      BY <2>2, <2>3 DEF Lists
    <2>5. <<t.format[x[1]], t.frames[x[1]][x[2]]>> \in Offered(c)
      BY <2>4 DEF FramesTo
    <2>6. <<t.format[x[1]], t.frames[x[1]][x[2]]>> \in Wanted(c)
      BY <2>1, <2>5 DEF Wanted
    <2>7. x[1] \in Nat /\ x[2] \in Nat
      BY <1>3, <2>1
    <2> QED
      BY <2>1, <2>6, <2>7
  <1>5. ASSUME NEW o \in Wanted(c)
        PROVE  Modes(c, t) # {}
    <2>1. /\ o \in Offered(c) /\ o = <<o[1], o[2]>> /\ o[1] \in Formats(c) /\ o[2] \in 1 .. n
          /\ c.parts[o[1]].kind = "mjpeg" /\ c.parts[o[2]].wanted
      BY <1>1 DEF Wanted
    <2>2. o[1] \in FormatsTo(c, n) /\ o[2] \in FramesTo(c, o[1], n)
      BY <1>1, <2>1 DEF FormatsTo, FramesTo
    <2>3. PICK k \in 0 .. t.num - 1 : t.format[k] = o[1]
      BY <1>2, <2>2
    <2>4. Lists(t.frames[k], FramesTo(c, o[1], n))
      BY <1>2, <2>3
    <2>5. PICK j \in 1 .. Len(t.frames[k]) : t.frames[k][j] = o[2]
      BY <2>2, <2>4 DEF Lists
    <2>6. Len(t.frames[k]) <= MaxFrames /\ Len(t.frames[k]) \in Nat
      BY <1>1, <2>1, <2>4 DEF Lists
    <2>7. j \in 1 .. MaxFrames /\ j <= Len(t.frames[k])
      BY <1>3, <2>5, <2>6
    <2>8. <<k, j>> \in Modes(c, t)
      BY <2>1, <2>3, <2>5, <2>7 DEF Modes
    <2> QED
      BY <2>8
  <1> QED
    BY <1>4, <1>5

LEMMA FoundMode ==
  ASSUME NEW c, Listing(c)
  PROVE  IF Wanted(c) = {} THEN uvc_get_stream_ctrl_format_size(c) = NoMode
         ELSE uvc_get_stream_ctrl_format_size(c) \in Wanted(c)
  <1> DEFINE t == USBH_VIDEO_ParseCSDescriptors(c)
             m == Modes(c, t)
             K == {x[1] : x \in m}
             k == Min(K)
             J == {x[2] : x \in {y \in m : y[1] = k}}
             j == Min(J)
  <1>1. Tabled(c, t, Len(c.parts))
    BY WholeTable
  <1> HIDE DEF t
  <1>2. /\ \A x \in m : /\ x = <<x[1], x[2]>> /\ x[1] \in Nat /\ x[2] \in Nat
                        /\ <<t.format[x[1]], t.frames[x[1]][x[2]]>> \in Wanted(c)
        /\ Wanted(c) # {} => m # {}
    BY <1>1, ModesOffered
  <1>3. uvc_get_stream_ctrl_format_size(c)
          = IF m = {} THEN NoMode ELSE <<t.format[k], t.frames[k][j]>>
    BY Zenon DEF uvc_get_stream_ctrl_format_size, t
  <1> HIDE DEF m
  <1>4. CASE m = {}
    BY <1>2, <1>3, <1>4
  <1>5. CASE m # {}
    <2>1. K \in SUBSET Nat /\ K # {}
      BY <1>2, <1>5
    <2>2. k \in K
      BY <2>1, LeastOf DEF k
    <2>3. PICK x \in m : x[1] = k
      BY <2>2
    <2> HIDE DEF k, K
    <2>4. J \in SUBSET Nat /\ J # {}
      BY <1>2, <2>3
    <2>5. j \in J
      BY <2>4, LeastOf DEF j
    <2>6. PICK y \in m : y[1] = k /\ y[2] = j
      BY <2>5
    <2>7. <<t.format[k], t.frames[k][j]>> \in Wanted(c)
      BY <1>2, <2>6
    <2> QED
      BY <1>3, <1>5, <2>7
  <1> QED
    BY <1>4, <1>5

(* The mode is looked for when the camera is attached and kept from then   *)
(* on.                                                                     *)
Remembers == setting \in Settings /\ (attached => mode = Found[setting.camera])

LEMMA NextRemembers ==
  ASSUME Remembers, [Next]_vars
  PROVE  Remembers'
  <1>1. setting' = setting /\ (attached' => InterfaceInit \/ (attached /\ mode' = mode))
    <2> DEFINE Keeps == setting' = setting /\ mode' = mode /\ (attached' => attached)
    <2>1. CASE InterfaceInit
      BY <2>1 DEF InterfaceInit
    <2>2. CASE InterfaceDeInit \/ uvc_deinit
      BY <2>2 DEF InterfaceDeInit, uvc_deinit, Release
    <2>3. ASSUME HostThread PROVE Keeps
      <3>1. CASE ClassRequest \/ Start \/ StartStream \/ Stop
        <4>1. Ask("class") \/ Ask("open") \/ Ask("set") \/ Ask("stop")
          BY <3>1, Zenon DEF ClassRequest, Start, StartStream, Stop
        <4> QED
          BY <4>1 DEF Ask
      <3>2. CASE Stores
        <4>1. ASSUME NEW what, NEW state, Store(what, state)
              PROVE  Keeps
          BY <4>1 DEF Store
        <4> HIDE DEF Keeps
        <4>2. ClassRequestDone => Keeps
          BY <4>1 DEF ClassRequestDone
        <4>3. Opened \/ NotOpened => Keeps
          BY <4>1 DEF Opened, NotOpened
        <4>4. GivesUp => Keeps
          BY <4>1 DEF GivesUp
        <4>5. StartStreamDone \/ StopDone \/ StartInDone \/ DataInFails => Keeps
          BY <4>1 DEF StartStreamDone, StopDone, StartInDone, DataInFails
        <4> QED
          BY <3>2, <4>2, <4>3, <4>4, <4>5 DEF Stores
      <3>3. CASE ClassRequestIdle \/ StartIn \/ DataIn \/ DataInLate
        <4>1. UNCHANGED <<setting, mode, attached>>
          <5>1. CASE ClassRequestIdle
            BY <5>1 DEF ClassRequestIdle
          <5>2. CASE StartIn
            BY <5>2 DEF StartIn
          <5>3. CASE DataIn
            BY <5>3 DEF DataIn
          <5>4. CASE DataInLate
            BY <5>4 DEF DataInLate
          <5> QED
            BY <3>3, <5>1, <5>2, <5>3, <5>4
        <4> QED
          BY <4>1
      <3> HIDE DEF Keeps
      <3> QED
        BY <2>3, <3>1, <3>2, <3>3 DEF HostThread, Stores
    <2>4. CASE uvc_stream_stop \/ uvc_stream_resume
      BY <2>4 DEF uvc_stream_stop, uvc_stream_resume, Calls
    <2>5. CASE World
      <3>1. CASE Elsewhere
        BY <3>1 DEF Elsewhere
      <3> QED
        BY <2>5, <3>1 DEF World, CameraSends, CameraErrs, CameraEndsLater, PacketLost,
                          GoesSilent, SpeaksAgain
    <2>6. CASE UNCHANGED vars
      BY <2>6 DEF vars, host
    <2> QED
      BY <2>1, <2>2, <2>3, <2>4, <2>5, <2>6 DEF Next
  <1>2. CASE InterfaceInit
    BY <1>1, <1>2 DEF Remembers, InterfaceInit
  <1>3. CASE ~ InterfaceInit
    BY <1>1, <1>3 DEF Remembers
  <1> QED
    BY <1>2, <1>3

(* The mode asked for is one the camera offers and that is wanted, and is  *)
(* found when there is one, whatever the camera lists as long as a format  *)
(* comes first and the table holds them:                                   *)
(* usbh_video_desc_parsing.c:71-259, usbh_video.c:625-674.                 *)
THEOREM AsksRightly == Spec => []AsksForWhatIsOffered
  <1>1. Init => Remembers
    BY DEF Init, Remembers
  <1>2. Remembers => AsksForWhatIsOffered
    <2> SUFFICES ASSUME Remembers, attached, Orderly(setting.camera)
                 PROVE  IF Wanted(setting.camera) = {} THEN mode = NoMode
                        ELSE mode \in Wanted(setting.camera)
      BY DEF AsksForWhatIsOffered
    <2> DEFINE c == setting.camera
    <2>1. setting \in Settings /\ mode = Found[c]
      BY DEF Remembers
    <2>2. Found[c] = uvc_get_stream_ctrl_format_size(c)
      BY <2>1 DEF Found, Cameras
    <2>3. Listing(c)
      BY <2>1, HostAssumption DEF Listing
    <2> HIDE DEF c
    <2>4. IF Wanted(c) = {} THEN mode = NoMode ELSE mode \in Wanted(c)
      BY <2>1, <2>2, <2>3, FoundMode
    <2> QED
      BY <2>4 DEF c
  <1> QED
    BY <1>1, <1>2, NextRemembers, PTL DEF Spec
===============================================================================
