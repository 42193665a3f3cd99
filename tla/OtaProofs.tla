------------------------------- MODULE OtaProofs --------------------------------
(***************************************************************************)
(* The firmware update, for every set of images and every digest under     *)
(* which they are told apart or not, and any number of downloads: no loss  *)
(* of power, repeated or missing packet, failed erasure and new            *)
(* announcement leaves the device without an image to start or to finish   *)
(* writing, provided the host never sends as much as fills a slot; and     *)
(* whatever it sends, what is recorded as installed is what was asked for. *)
(***************************************************************************)
EXTENDS Ota, TLAPS

(* What is sent after one announcement, with what is repeated, is less     *)
(* than a slot: FLASH_If_Erase then ends within it.  The size of the RAM   *)
(* for the image does not see to that.                                     *)
DownloadFits == MAX_DOWNLOAD < SlotLen

Pending == update_pack.updateState \in {"RECEIVE_DATA", "PREPARATION"}
Safe    == Whole(status.appStartADDR)

Types ==
  /\ TypeOK
  /\ pc = "save" /\ appFile # NoFile => Len(appFile) + saving =< MAX_DOWNLOAD

(* What the RAM's copy of the status has to do with the file.              *)
Loaded ==
  /\ pc # "jump" => update_pack.appStartADDR = status.appStartADDR
  /\ pc = "check" => update_pack = status /\ status.app
  /\ ~status.app => status.updateState = "other"
  /\ pc \in {"erase", "write", "jump"} => ~Pending

(* An update is for the other slot from its announcement to its end.       *)
Away ==
  DownloadFits /\ ~inPlace =>
    /\ Safe
    /\ status.app => status.newAppStartADDR # status.appStartADDR
    /\ Pending \/ pc \in {"delete", "save", "mark", "erase", "write"} =>
         update_pack.newAppStartADDR # update_pack.appStartADDR

(* What the boot loader writes has the digest asked for.                   *)
Checked ==
  /\ pc \in {"mark", "erase", "write"} =>
       /\ source = "file" => appFile # NoFile
       /\ Alike(ToWrite, update_pack.md5)
  /\ pc = "write" => /\ cur_len =< Len(ToWrite)
                     /\ \A i \in 1..cur_len : slot[Target][i] = ToWrite[i]
  /\ pc = "jump" => Whole(update_pack.appStartADDR)

(* An update in place: while the slot is not whole the file is, and the    *)
(* status asks for it.                                                     *)
Resume ==
  DownloadFits /\ ~lost =>
    /\ ~Safe => /\ status.app /\ status.newAppStartADDR = status.appStartADDR
                /\ appFile # NoFile /\ Alike(appFile, status.md5)
    /\ mode = "app" /\ pc # "hung" => Safe
    /\ pc = "idle" /\ Pending => Safe
    /\ pc = "jump" => Safe
    /\ pc \in {"mark", "erase"} /\ source = "temp" => Safe
    /\ pc = "write" => source = "file"
    /\ pc \in {"mark", "erase", "write"} /\ source = "file" =>
         /\ status.app /\ status.md5 = update_pack.md5
         /\ status.newAppStartADDR = update_pack.newAppStartADDR

IInv == Types /\ Loaded /\ Away /\ Checked /\ Resume

-------------------------------------------------------------------------------
(* Contents are the sequences of pieces no longer than a download.         *)
LEMMA ContentIs ==
  /\ \A c \in Content : /\ c \in Seq(Piece \cup {Erased}) /\ Len(c) \in 0..MAX_DOWNLOAD
                        /\ c \in [1..Len(c) -> Piece \cup {Erased}]
  /\ \A c \in Seq(Piece \cup {Erased}) : Len(c) =< MAX_DOWNLOAD => c \in Content
  <1>1. MAX_DOWNLOAD \in Nat
    BY OtaAssumption
  <1>2. ASSUME NEW c \in Content
        PROVE  /\ c \in Seq(Piece \cup {Erased}) /\ Len(c) \in 0..MAX_DOWNLOAD
               /\ c \in [1..Len(c) -> Piece \cup {Erased}]
    <2>1. PICK n \in 0..MAX_DOWNLOAD : c \in [1..n -> Piece \cup {Erased}]
      BY DEF Content
    <2>2. c \in Seq(Piece \cup {Erased}) /\ Len(c) = n
      BY <1>1, <2>1
    <2> QED
      BY <2>1, <2>2
  <1>3. ASSUME NEW c \in Seq(Piece \cup {Erased}), Len(c) =< MAX_DOWNLOAD
        PROVE  c \in Content
    <2>1. Len(c) \in 0..MAX_DOWNLOAD /\ c \in [1..Len(c) -> Piece \cup {Erased}]
      BY <1>1, <1>3
    <2> QED
      BY <2>1 DEF Content
  <1> QED
    BY <1>2, <1>3

LEMMA ReceivedContent ==
  ASSUME TypeOK
  PROVE  Received \in Content /\ Len(Received) = update_pack.len
  <1>1. /\ updateData \in Seq(Piece \cup {Erased}) /\ Len(updateData) = CACHE
        /\ update_pack.len \in 0..CACHE /\ CACHE \in Nat
        /\ update_pack.len =< MAX_DOWNLOAD
    <2>1. update_pack.len \in 0..MAX_DOWNLOAD
      BY DEF TypeOK, Pack
    <2>2. CACHE \in Nat /\ MAX_DOWNLOAD \in Nat /\ MAX_DOWNLOAD =< CACHE
      BY OtaAssumption
    <2> QED
      BY <2>1, <2>2 DEF TypeOK
  <1>2. /\ SubSeq(updateData, 1, update_pack.len) \in Seq(Piece \cup {Erased})
        /\ Len(SubSeq(updateData, 1, update_pack.len)) = update_pack.len
    <2> DEFINE n == update_pack.len
    <2>1. /\ updateData \in Seq(Piece \cup {Erased}) /\ Len(updateData) = CACHE
          /\ n \in 0..CACHE /\ CACHE \in Nat
      BY <1>1
    <2> HIDE DEF n
    <2>2. /\ SubSeq(updateData, 1, n) \in Seq(Piece \cup {Erased})
          /\ Len(SubSeq(updateData, 1, n)) = n
      BY <2>1
    <2> QED
      BY <2>2 DEF n
  <1>3. /\ Received \in Seq(Piece \cup {Erased})
        /\ Len(Received) = update_pack.len
    BY <1>2 DEF Received
  <1> QED
    BY <1>1, <1>3, ContentIs

LEMMA PackAnnounced ==
  ASSUME NEW p \in Pack, NEW target \in Slot, NEW m \in Image
  PROVE  [p EXCEPT !.len = 0, !.newAppStartADDR = target, !.md5 = m] \in Pack
  <1> 0 \in 0..MAX_DOWNLOAD
    BY OtaAssumption
  <1> QED
    BY DEF Pack

(* What is alike an image somebody announced makes a slot whole.           *)
LEMMA WholeIf ==
  ASSUME NEW s, NEW n \in 0..SlotLen, NEW img \in Image, Alike(First(s, n), img)
  PROVE  Whole(s)
  BY DEF Whole

LEMMA ToWriteContent ==
  ASSUME Types, Checked, pc \in {"mark", "erase", "write"}
  PROVE  ToWrite \in Content
  BY ReceivedContent DEF Types, TypeOK, Checked, ToWrite

(* Whether the slot in use is whole depends on it and on which it is.      *)
LEMMA SafeKept ==
  ASSUME slot'[status'.appStartADDR] = slot[status.appStartADDR]
  PROVE  (Safe => Safe') /\ (Safe' => Safe)
  BY DEF Safe, Whole, First

-------------------------------------------------------------------------------
LEMMA InitInv == Init => IInv
  <1> SUFFICES ASSUME Init PROVE IInv
    OBVIOUS
  <1>1. PICK img \in Image :
          /\ slot = [s \in Slot |-> [i \in 1..SlotLen |->
                       IF s = 1 /\ i =< Len(img) THEN img[i] ELSE Erased]]
          /\ status = [len |-> 0, md5 |-> img, app |-> FALSE, updateState |-> "other",
                       appStartADDR |-> 1, newAppStartADDR |-> 1]
    BY DEF Init
  <1>2. /\ update_pack = status /\ mode = "app" /\ pc = "poll" /\ inPlace \in BOOLEAN
        /\ starts = 0 /\ lost = FALSE /\ appFile = NoFile
        /\ updateData = [i \in 1..CACHE |-> Erased]
        /\ saving = 0 /\ source = "file" /\ cur_len = 0 /\ retry = 0
    BY DEF Init
  <1>3. Safe
    <2>1. /\ img \in Seq(Piece) /\ Len(img) \in 0..SlotLen /\ SlotLen \in Nat
          /\ Alike(img, img) /\ 1 \in Slot
      BY OtaAssumption
    <2>2. img = [i \in 1..Len(img) |-> img[i]]
      BY <2>1
    <2>3. \A i \in 1..Len(img) : slot[1][i] = img[i]
      BY <1>1, <2>1
    <2>4. First(1, Len(img)) = img
      BY <2>2, <2>3 DEF First
    <2> QED
      BY <1>1, <2>1, <2>4, WholeIf DEF Safe
  <1>4. Types
    <2>1. /\ MAX_DOWNLOAD \in Nat /\ SlotLen \in Nat /\ Downloads \in Nat /\ Slot = 1..2
          /\ img \in Seq(Piece)
      BY OtaAssumption
    <2>3. slot \in [Slot -> [1..SlotLen -> Piece \cup {Erased, Mixed}]]
      BY <1>1, <2>1
    <2>4. status \in Pack
      BY <1>1, <2>1 DEF Pack
    <2>5. updateData \in [1..CACHE -> Piece \cup {Erased}]
      BY <1>2
    <2>6. <<mode, pc>> \in {"app"} \X {"poll", "delete", "save", "load", "reset", "hung"}
      BY <1>2
    <2>7. /\ starts \in 0..Downloads /\ {inPlace, lost} \subseteq BOOLEAN
          /\ appFile \in Content \cup {NoFile}
          /\ {status, update_pack} \subseteq Pack
          /\ {saving, cur_len} \subseteq 0..MAX_DOWNLOAD
          /\ source \in {"file", "temp"} /\ retry \in 0..3
      <3>1. 0 \in 0..Downloads /\ 0 \in 0..MAX_DOWNLOAD /\ 0 \in 0..3
        BY <2>1
      <3>2. {inPlace, lost} \subseteq BOOLEAN
        BY <1>2
      <3>3. {status, update_pack} \subseteq Pack
        BY <1>2, <2>4
      <3> QED
        BY <1>2, <3>1, <3>2, <3>3
    <2>8. ~(pc = "save" /\ appFile # NoFile)
      BY <1>2
    <2> QED
      BY <2>3, <2>5, <2>6, <2>7, <2>8 DEF Types, TypeOK
  <1>5. Loaded
    BY <1>1, <1>2 DEF Loaded, Pending
  <1>6. Away
    BY <1>1, <1>2, <1>3 DEF Away, Pending
  <1>7. Checked
    BY <1>2 DEF Checked
  <1>8. Resume
    BY <1>2, <1>3 DEF Resume
  <1> QED
    BY <1>4, <1>5, <1>6, <1>7, <1>8 DEF IInv

(* Packets arrive. *)
LEMMA HostInv ==
  ASSUME IInv, Host
  PROVE  IInv'
  <1> USE DEF IInv
  <1>1. /\ inPlace' = inPlace /\ status' = status /\ slot' = slot /\ mode' = mode
        /\ pc' = pc /\ saving' = saving /\ source' = source
        /\ cur_len' = cur_len /\ retry' = retry
        /\ (mode = "app" /\ pc # "hung") \/ pc = "idle"
    BY DEF Host, DataStart, DataStartRefused, DataSending, DataOver, Start, Parsing, disk, writer
  <1>2. /\ (Safe => Safe') /\ (Safe' => Safe)
    BY <1>1, SafeKept
  <1>3. /\ pc \notin {"check", "mark", "erase", "write", "jump"}
        /\ mode = "app" => pc # "idle"
    BY <1>1 DEF Types, TypeOK
  <1>4. /\ update_pack \in Pack /\ update_pack.len \in 0..MAX_DOWNLOAD /\ MAX_DOWNLOAD \in Nat
        /\ Downloads \in Nat
    BY OtaAssumption DEF Types, TypeOK, Pack
  <1>5. CASE \E img \in Image, target \in Slot, isCheck \in BOOLEAN :
               DataStart(img, target, isCheck) \/ DataStartRefused(img, target, isCheck)
    <2>1. PICK img \in Image, target \in Slot, isCheck \in BOOLEAN :
               DataStart(img, target, isCheck) \/ DataStartRefused(img, target, isCheck)
      BY <1>5
    <2>2. /\ starts' = starts + 1 /\ starts < Downloads
          /\ inPlace \/ target # update_pack.appStartADDR
          /\ updateData' = updateData
          /\ (appFile' = appFile \/ appFile' = NoFile)
      BY <2>1 DEF DataStart, DataStartRefused, Start, disk
    <2>3. /\ update_pack' \in Pack /\ update_pack'.appStartADDR = update_pack.appStartADDR
          /\ update_pack'.newAppStartADDR = target
          /\ update_pack'.updateState \in {update_pack.updateState, "RECEIVE_DATA", "other"}
      <3>1. /\ Announced(img, target, isCheck) \in Pack
            /\ Announced(img, target, isCheck).appStartADDR = update_pack.appStartADDR
            /\ Announced(img, target, isCheck).newAppStartADDR = target
            /\ Announced(img, target, isCheck).updateState = update_pack.updateState
        <4>1. PICK m \in Image : m = IF isCheck THEN img ELSE update_pack.md5
          BY <1>4 DEF Pack
        <4>2. Announced(img, target, isCheck)
                = [update_pack EXCEPT !.len = 0, !.newAppStartADDR = target, !.md5 = m]
          BY <4>1, Zenon DEF Announced
        <4>3. /\ DOMAIN update_pack = {"len", "md5", "app", "updateState",
                                       "appStartADDR", "newAppStartADDR"}
              /\ update_pack.app \in BOOLEAN /\ update_pack.appStartADDR \in Slot
              /\ update_pack.updateState \in {"other", "RECEIVE_DATA", "PREPARATION"}
          BY <1>4 DEF Pack
        <4>4. /\ Announced(img, target, isCheck).appStartADDR = update_pack.appStartADDR
              /\ Announced(img, target, isCheck).newAppStartADDR = target
              /\ Announced(img, target, isCheck).updateState = update_pack.updateState
          BY <4>2, <4>3
        <4>5. Announced(img, target, isCheck) \in Pack
          <5>1. update_pack \in Pack /\ target \in Slot /\ m \in Image
            BY <1>4, <2>1, <4>1
          <5>2. [update_pack EXCEPT !.len = 0, !.newAppStartADDR = target, !.md5 = m] \in Pack
            BY <5>1, PackAnnounced, Zenon
          <5> QED
            BY <4>2, <5>2, Zenon
        <4> QED
          BY <4>4, <4>5
      <3>2. \/ update_pack' = Announced(img, target, isCheck)
            \/ update_pack' = [Announced(img, target, isCheck) EXCEPT !.updateState = "RECEIVE_DATA"]
            \/ update_pack' = [Announced(img, target, isCheck) EXCEPT !.updateState = "other"]
        BY <2>1 DEF DataStart, DataStartRefused
      <3> QED
        BY <3>1, <3>2 DEF Pack
    <2>4. Types'
      <3>1. lost' \in BOOLEAN
        BY <2>1 DEF DataStart, DataStartRefused, Types, TypeOK
      <3>2. starts' \in 0..Downloads
        BY <1>4, <2>2 DEF Types, TypeOK
      <3> QED
        BY <1>1, <2>2, <2>3, <3>1, <3>2 DEF Types, TypeOK
    <2>5. Loaded'
      BY <1>1, <1>3, <2>3 DEF Loaded
    <2>6. Away'
      BY <1>1, <1>2, <1>3, <2>2, <2>3 DEF Away
    <2>7. Checked'
      BY <1>1, <1>3 DEF Checked
    <2>8. CASE DataStart(img, target, isCheck)
      <3>1. ~lost' => ~lost /\ Safe
        BY <2>8 DEF DataStart, Safe
      <3>2. Resume'
        BY <1>1, <1>2, <1>3, <3>1 DEF Resume
      <3> QED
        BY <2>4, <2>5, <2>6, <2>7, <3>2
    <2>9. CASE DataStartRefused(img, target, isCheck)
      <3>1. lost' = lost /\ appFile' = appFile /\ update_pack'.updateState \in {update_pack.updateState, "other"}
        <4>1. /\ lost' = lost /\ appFile' = appFile
              /\ \/ update_pack' = Announced(img, target, isCheck)
                 \/ update_pack' = [Announced(img, target, isCheck) EXCEPT !.updateState = "other"]
          BY <2>9 DEF DataStartRefused, disk
        <4>2. /\ Announced(img, target, isCheck).updateState = update_pack.updateState
              /\ "updateState" \in DOMAIN Announced(img, target, isCheck)
          BY <1>4 DEF Announced, Pack
        <4> QED
          BY <4>1, <4>2
      <3>2. Resume'
        BY <1>1, <1>2, <1>3, <3>1 DEF Resume, Pending
      <3> QED
        BY <2>4, <2>5, <2>6, <2>7, <3>2
    <2> QED
      BY <2>1, <2>8, <2>9
  <1>6. CASE (\E piece \in Piece : DataSending(piece)) \/ DataOver
    <2>1. /\ starts' = starts /\ appFile' = appFile /\ lost' = lost /\ Pending
      BY <1>6 DEF DataSending, DataOver, disk, Pending
    <2>2. updateData' \in [1..CACHE -> Piece \cup {Erased}]
      BY <1>4, <1>6 DEF DataSending, DataOver, Types, TypeOK
    <2>3. /\ update_pack' \in Pack /\ update_pack'.appStartADDR = update_pack.appStartADDR
          /\ update_pack'.newAppStartADDR = update_pack.newAppStartADDR
      BY <1>4, <1>6 DEF DataSending, DataOver, Pack
    <2>4. Types'
      BY <1>1, <2>1, <2>2, <2>3 DEF Types, TypeOK
    <2>5. Loaded'
      BY <1>1, <1>3, <2>3 DEF Loaded
    <2>6. Away'
      BY <1>1, <1>2, <2>1, <2>3 DEF Away
    <2>7. Checked'
      BY <1>1, <1>3 DEF Checked
    <2>8. Resume'
      BY <1>1, <1>2, <1>3, <2>1 DEF Resume
    <2> QED
      BY <2>4, <2>5, <2>6, <2>7, <2>8
  <1> QED
    BY <1>5, <1>6 DEF Host

-------------------------------------------------------------------------------
(* The application's check. *)
LEMMA AppInv ==
  ASSUME IInv, App
  PROVE  IInv'
  <1> USE DEF IInv
  <1>1. /\ inPlace' = inPlace /\ slot' = slot /\ mode' = mode /\ starts' = starts
        /\ updateData' = updateData /\ source' = source /\ cur_len' = cur_len
        /\ retry' = retry /\ lost' = lost
    BY DEF App, AppCheck, AppDelete, AppSavePiece, AppSaveFails, AppSaved, AppLoad, disk,
           writer
  <1>2. /\ pc \in {"poll", "delete", "save", "load"} /\ mode = "app"
        /\ pc' \in {"poll", "delete", "save", "load", "reset"}
    BY DEF App, AppCheck, AppDelete, AppSavePiece, AppSaveFails, AppSaved, AppLoad,
           Goto, Check, Types, TypeOK
  <1>3. <<mode', pc'>> \in {"app"} \X {"poll", "delete", "save", "load", "reset", "hung"}
    BY <1>1, <1>2
  <1>4. /\ update_pack \in Pack /\ update_pack.len \in 0..MAX_DOWNLOAD /\ MAX_DOWNLOAD \in Nat
        /\ saving \in 0..MAX_DOWNLOAD /\ status \in Pack
    BY OtaAssumption DEF Types, TypeOK, Pack
  <1>5. Checked'
    BY <1>2 DEF Checked
  <1>6. DownloadFits /\ ~lost => Safe
    BY <1>2 DEF Resume
  <1>7. update_pack.appStartADDR = status.appStartADDR
    BY <1>2 DEF Loaded
  <1>8. CASE AppCheck \/ AppDelete \/ AppSavePiece \/ AppSaveFails
    <2>1. /\ status' = status /\ Safe' = Safe
      BY <1>1, <1>8 DEF AppCheck, AppDelete, AppSavePiece, AppSaveFails, disk, Safe, Whole, First
    <2>2. \/ update_pack' = update_pack
          \/ update_pack' = [update_pack EXCEPT !.updateState = "other"] /\ pc' = "poll"
      BY <1>8 DEF AppCheck, AppDelete, AppSavePiece, AppSaveFails, Check, Goto
    <2>3. /\ update_pack' \in Pack
          /\ update_pack'.appStartADDR = update_pack.appStartADDR
          /\ update_pack'.newAppStartADDR = update_pack.newAppStartADDR
          /\ update_pack'.updateState \in {"other", update_pack.updateState}
      BY <1>4, <2>2 DEF Pack
    <2>4. Types'
      <3>1. /\ appFile' \in Content \cup {NoFile} /\ saving' \in 0..MAX_DOWNLOAD
            /\ pc' = "save" /\ appFile' # NoFile => Len(appFile') + saving' =< MAX_DOWNLOAD
        <4>1. CASE AppCheck
          BY <1>4, <4>1 DEF AppCheck, Check, disk, Types, TypeOK
        <4>2. CASE AppDelete
          <5>1. <<>> \in Content
            <6>1. <<>> \in Seq(Piece \cup {Erased}) /\ Len(<<>>) =< MAX_DOWNLOAD
              BY <1>4
            <6> QED
              BY <6>1, ContentIs
          <5> QED
            BY <1>4, <4>2, <5>1 DEF AppDelete, Goto
        <4>3. CASE AppSavePiece
          <5>1. saving' = saving - 1 /\ saving > 0 /\ pc = "save"
            BY <4>3 DEF AppSavePiece
          <5>2. CASE appFile = NoFile
            BY <1>4, <4>3, <5>1, <5>2 DEF AppSavePiece
          <5>3. CASE appFile # NoFile
            <6>1. /\ appFile \in Seq(Piece \cup {Erased}) /\ Len(appFile) \in Nat
                  /\ Len(appFile) + saving =< MAX_DOWNLOAD
              BY <1>4, <5>1, <5>3, ContentIs DEF Types, TypeOK
            <6>2. Len(appFile) + 1 \in 1..CACHE /\ Len(appFile) + 1 =< MAX_DOWNLOAD
              BY <1>4, OtaAssumption, <5>1, <6>1
            <6>3. updateData[Len(appFile) + 1] \in Piece \cup {Erased}
              BY <6>2 DEF Types, TypeOK
            <6>4. appFile' = Append(appFile, updateData[Len(appFile) + 1])
              BY <4>3, <5>3 DEF AppSavePiece
            <6>5. appFile' \in Seq(Piece \cup {Erased}) /\ Len(appFile') = Len(appFile) + 1
              BY <6>1, <6>3, <6>4
            <6>6. Len(appFile') =< MAX_DOWNLOAD
              BY <1>4, <6>2, <6>5
            <6> QED
              BY <1>4, <5>1, <6>1, <6>5, <6>6, ContentIs
          <5> QED
            BY <5>2, <5>3
        <4>4. CASE AppSaveFails
          BY <1>4, <4>4 DEF AppSaveFails, Goto, disk, Types, TypeOK
        <4> QED
          BY <1>8, <4>1, <4>2, <4>3, <4>4
      <3> QED
        BY <1>1, <1>3, <2>1, <2>3, <3>1 DEF Types, TypeOK
    <2>5. Loaded'
      BY <1>2, <1>7, <2>1, <2>3 DEF Loaded
    <2>6. Away'
      <3>1. Pending' => Pending
        BY <2>3 DEF Pending
      <3>2. pc' \in {"delete", "save"} => Pending \/ pc \in {"delete", "save"}
        BY <1>8 DEF AppCheck, AppDelete, AppSavePiece, AppSaveFails, Check, Goto, Pending
      <3> QED
        BY <1>1, <1>2, <2>1, <2>3, <3>1, <3>2 DEF Away
    <2>7. Resume'
      BY <1>1, <1>2, <1>6, <2>1 DEF Resume
    <2> QED
      BY <1>5, <2>4, <2>5, <2>6, <2>7
  <1>9. CASE AppSaved
    <2>1. /\ pc = "save" /\ pc' = "load" /\ appFile' = appFile /\ saving' = saving
          /\ update_pack' = [update_pack EXCEPT !.app = TRUE, !.updateState = "other"]
          /\ status' \in {status, update_pack'}
      BY <1>9 DEF AppSaved, Goto, SaveStatus
    <2>2. /\ update_pack' \in Pack /\ update_pack'.app
          /\ update_pack'.updateState = "other"
          /\ update_pack'.appStartADDR = update_pack.appStartADDR
          /\ update_pack'.newAppStartADDR = update_pack.newAppStartADDR
      BY <1>4, <2>1 DEF Pack
    <2>3. status' \in Pack /\ status'.appStartADDR = status.appStartADDR
      BY <1>4, <1>7, <2>1, <2>2
    <2>4. Safe' = Safe
      BY <1>1, <2>3 DEF Safe, Whole, First
    <2>5. Types'
      BY <1>1, <1>3, <2>1, <2>2, <2>3 DEF Types, TypeOK
    <2>6. Loaded'
      BY <1>7, <2>1, <2>2, <2>3 DEF Loaded
    <2>7. Away'
      BY <1>1, <1>7, <2>1, <2>2, <2>3, <2>4 DEF Away, Pending
    <2>8. Resume'
      BY <1>1, <1>2, <1>6, <2>1, <2>4 DEF Resume
    <2> QED
      BY <1>5, <2>5, <2>6, <2>7, <2>8
  <1>10. CASE AppLoad
    <2>1. /\ pc' = "reset" /\ appFile' = appFile /\ saving' = saving
          /\ update_pack' = status /\ status' = status
      BY <1>10 DEF AppLoad, Goto, disk
    <2>2. Safe' = Safe
      BY <1>1, <2>1 DEF Safe, Whole, First
    <2>3. Types'
      BY <1>1, <1>3, <1>4, <2>1 DEF Types, TypeOK
    <2>4. Loaded'
      BY <2>1 DEF Loaded
    <2>5. Away'
      BY <1>1, <2>1, <2>2 DEF Away, Pending, Loaded
    <2>6. Resume'
      BY <1>1, <1>2, <1>6, <2>1, <2>2 DEF Resume
    <2> QED
      BY <1>5, <2>3, <2>4, <2>5, <2>6
  <1> QED
    BY <1>8, <1>9, <1>10 DEF App

(* A reset: only the file, the status and the flash remain. *)
LEMMA ResetInv ==
  ASSUME IInv, Reset
  PROVE  IInv'
  <1> USE DEF IInv
  <1>1. /\ inPlace' = inPlace /\ slot' = slot /\ mode' = "boot" /\ starts' = starts
        /\ updateData' = [i \in 1..CACHE |-> Erased] /\ source' = "file" /\ retry' = 0
        /\ lost' = lost /\ appFile' = appFile /\ status' = status /\ saving' = 0 /\ cur_len' = 0
        /\ update_pack' = status /\ pc' = IF status.app THEN "check" ELSE "idle"
    BY DEF Reset, disk
  <1>2. pc' \in {"check", "idle"} /\ (pc' = "check" => status.app) /\ (pc' = "idle" => ~status.app)
    BY <1>1
  <1>3. Safe' = Safe
    BY <1>1 DEF Safe, Whole, First
  <1>4. Types'
    <2>1. <<mode', pc'>> \in {"boot"} \X {"check", "idle", "mark", "erase", "write", "jump"}
      BY <1>1, <1>2
    <2>2. /\ updateData' \in [1..CACHE -> Piece \cup {Erased}]
          /\ {saving', cur_len'} \subseteq 0..MAX_DOWNLOAD /\ retry' \in 0..3 /\ source' \in {"file", "temp"}
      BY <1>1, OtaAssumption
    <2> QED
      BY <1>1, <1>2, <2>1, <2>2 DEF Types, TypeOK
  <1>5. Loaded'
    BY <1>1, <1>2 DEF Loaded
  <1>6. Away'
    BY <1>1, <1>2, <1>3 DEF Away, Pending, Loaded
  <1>7. Checked'
    BY <1>2 DEF Checked
  <1>8. Resume'
    BY <1>1, <1>2, <1>3 DEF Resume, Pending, Loaded
  <1> QED
    BY <1>4, <1>5, <1>6, <1>7, <1>8

-------------------------------------------------------------------------------
(* The boot loader. *)

(* It decides to write the file or the RAM, or not to.                     *)
LEMMA BootChecksInv ==
  ASSUME IInv, BootCheck \/ BootCheckFails \/ BootTempCheck
  PROVE  IInv'
  <1> USE DEF IInv
  <1>1. /\ inPlace' = inPlace /\ slot' = slot /\ mode' = mode /\ starts' = starts
        /\ updateData' = updateData /\ retry' = retry /\ lost' = lost
        /\ appFile' = appFile /\ status' = status /\ saving' = saving /\ cur_len' = cur_len
    BY DEF BootCheck, BootCheckFails, BootTempCheck, disk, writer
  <1>2. /\ mode = "boot" /\ pc \in {"check", "idle"} /\ pc' \in {"idle", "mark"}
        /\ source' \in {"file", "temp"}
    BY DEF BootCheck, BootCheckFails, BootTempCheck, Goto, Check, Types, TypeOK, writer
  <1>3. <<mode', pc'>> \in {"boot"} \X {"check", "idle", "mark", "erase", "write", "jump"}
    BY <1>1, <1>2
  <1>4. Safe' = Safe
    BY <1>1 DEF Safe, Whole, First
  <1>5. /\ update_pack \in Pack /\ update_pack.appStartADDR = status.appStartADDR
    BY <1>2 DEF Types, TypeOK, Loaded
  <1>6. CASE BootCheck
    <2>1. /\ pc = "check" /\ pc' = "mark" /\ source' = "file" /\ update_pack' = update_pack
          /\ appFile # NoFile /\ Alike(appFile, update_pack.md5)
          /\ update_pack = status /\ status.app
      BY <1>6 DEF BootCheck, Goto, FileVerified, Loaded
    <2>2. Types'
      BY <1>1, <1>2, <1>3, <2>1 DEF Types, TypeOK
    <2>3. Loaded'
      BY <1>1, <2>1 DEF Loaded
    <2>4. Away'
      BY <1>1, <1>4, <2>1 DEF Away
    <2>5. Checked'
      <3>1. ToWrite' = appFile
        BY <1>1, <2>1 DEF ToWrite
      <3> QED
        BY <1>1, <2>1, <3>1 DEF Checked
    <2>6. Resume'
      BY <1>1, <1>2, <1>4, <2>1 DEF Resume
    <2> QED
      BY <2>2, <2>3, <2>4, <2>5, <2>6
  <1>7. CASE BootCheckFails \/ (BootTempCheck /\ pc' # "mark")
    <2>1. /\ pc' = "idle" /\ update_pack' = [update_pack EXCEPT !.updateState = "other"]
      BY <1>2, <1>7 DEF BootCheckFails, BootTempCheck, Goto, Check
    <2>2. /\ update_pack' \in Pack /\ update_pack'.updateState = "other"
          /\ update_pack'.appStartADDR = update_pack.appStartADDR
      BY <1>5, <2>1 DEF Pack
    <2>3. Types'
      BY <1>1, <1>2, <1>3, <2>1, <2>2 DEF Types, TypeOK
    <2>4. Loaded'
      BY <1>1, <1>5, <2>1, <2>2 DEF Loaded
    <2>5. Away'
      BY <1>1, <1>4, <2>1, <2>2 DEF Away, Pending
    <2>6. Checked'
      BY <2>1 DEF Checked
    <2>7. Resume'
      BY <1>1, <1>2, <1>4, <2>1, <2>2 DEF Resume, Pending
    <2> QED
      BY <2>3, <2>4, <2>5, <2>6, <2>7
  <1>8. CASE BootTempCheck /\ pc' = "mark"
    <2>1. /\ pc = "idle" /\ pc' = "mark" /\ source' = "temp" /\ update_pack' = update_pack
          /\ Alike(Received, update_pack.md5) /\ Pending
      BY <1>8 DEF BootTempCheck, Check, TempVerified, Pending
    <2>2. Types'
      BY <1>1, <1>2, <1>3, <2>1 DEF Types, TypeOK
    <2>3. Loaded'
      BY <1>1, <1>5, <2>1 DEF Loaded
    <2>4. Away'
      BY <1>1, <1>4, <2>1 DEF Away
    <2>5. Checked'
      <3>1. ToWrite' = Received
        BY <1>1, <2>1 DEF ToWrite, Received
      <3> QED
        BY <1>1, <2>1, <3>1 DEF Checked
    <2>6. Resume'
      BY <1>1, <1>2, <1>4, <2>1 DEF Resume
    <2> QED
      BY <2>2, <2>3, <2>4, <2>5, <2>6
  <1> QED
    BY <1>6, <1>7, <1>8

(* It records the update, and again when the record is lost. *)
LEMMA BootMarkInv ==
  ASSUME IInv, BootMark
  PROVE  IInv'
  <1> USE DEF IInv
  <1>1. /\ inPlace' = inPlace /\ slot' = slot /\ mode' = mode /\ starts' = starts
        /\ updateData' = updateData /\ retry' = retry /\ lost' = lost
        /\ appFile' = appFile /\ saving' = saving /\ source' = source
        /\ cur_len' = cur_len /\ pc = "mark" /\ pc' = "erase"
        /\ update_pack' = [update_pack EXCEPT !.app = TRUE, !.updateState = "other"]
        /\ status' \in {status, [update_pack EXCEPT !.app = TRUE]}
    BY DEF BootMark, Goto, writer
  <1>2. mode = "boot" /\ status \in Pack /\ update_pack \in Pack
    BY <1>1 DEF Types, TypeOK
  <1>3. /\ update_pack' \in Pack /\ update_pack'.updateState = "other"
        /\ update_pack'.app
        /\ update_pack'.md5 = update_pack.md5 /\ update_pack'.len = update_pack.len
        /\ update_pack'.appStartADDR = update_pack.appStartADDR
        /\ update_pack'.newAppStartADDR = update_pack.newAppStartADDR
    BY <1>1, <1>2 DEF Pack
  <1>4. /\ status' \in Pack
        /\ status' = status \/
             /\ status'.app /\ status'.md5 = update_pack.md5
             /\ status'.appStartADDR = update_pack.appStartADDR
             /\ status'.newAppStartADDR = update_pack.newAppStartADDR
    BY <1>1, <1>2 DEF Pack
  <1>5. /\ update_pack.appStartADDR = status.appStartADDR
        /\ status'.appStartADDR = status.appStartADDR
    BY <1>1, <1>4 DEF Loaded
  <1>6. Safe' = Safe
    BY <1>1, <1>5 DEF Safe, Whole, First
  <1>7. Types'
    <2>1. <<mode', pc'>> \in {"boot"} \X {"check", "idle", "mark", "erase", "write", "jump"}
      BY <1>1, <1>2
    <2> QED
      BY <1>1, <1>3, <1>4, <2>1 DEF Types, TypeOK
  <1>8. Loaded'
    BY <1>1, <1>3, <1>4, <1>5 DEF Loaded, Pending
  <1>9. Away'
    BY <1>1, <1>3, <1>4, <1>5, <1>6 DEF Away
  <1>10. Checked'
    <2>1. ToWrite' = ToWrite
      BY <1>1, <1>3 DEF ToWrite, Received
    <2> QED
      BY <1>1, <1>3, <2>1 DEF Checked
  <1>11. Resume'
    <2>1. CASE source = "temp"
      BY <1>1, <1>2, <1>6, <2>1 DEF Resume
    <2>2. CASE source = "file"
      <3>1. DownloadFits /\ ~lost =>
                     /\ status'.app /\ status'.md5 = update_pack'.md5
                     /\ status'.md5 = status.md5
                     /\ status'.newAppStartADDR = update_pack'.newAppStartADDR
                     /\ status'.newAppStartADDR = status.newAppStartADDR
        BY <1>1, <1>3, <1>4, <2>2 DEF Resume
      <3> QED
        BY <1>1, <1>2, <1>5, <1>6, <2>2, <3>1 DEF Resume
    <2> QED
      BY <2>1, <2>2 DEF Types, TypeOK
  <1> QED
    BY <1>7, <1>8, <1>9, <1>10, <1>11

(* It erases the slot to be written, and no other when there is room. *)
LEMMA BootEraseInv ==
  ASSUME IInv, BootErase
  PROVE  IInv'
  <1> USE DEF IInv
  <1>1. /\ inPlace' = inPlace /\ mode' = mode /\ starts' = starts /\ retry' = 0
        /\ updateData' = updateData /\ appFile' = appFile /\ status' = status
        /\ saving' = saving /\ source' = source /\ update_pack' = update_pack
        /\ cur_len' = 0
        /\ pc = "erase" /\ pc' = "write" /\ lost' = (lost \/ source = "temp")
    BY DEF BootErase, Goto, disk
  <1>2. /\ mode = "boot" /\ update_pack \in Pack /\ update_pack.len \in 0..MAX_DOWNLOAD
        /\ MAX_DOWNLOAD \in Nat /\ SlotLen \in Nat /\ Target \in Slot
    BY <1>1, OtaAssumption DEF Types, TypeOK, Pack, Target
  <1>3. \/ slot' = slot
        \/ \E end \in 0..update_pack.len : slot' = ErasedTo(end)
    BY DEF BootErase
  <1>4. status.appStartADDR \in Slot /\ update_pack.appStartADDR = status.appStartADDR
    BY <1>1 DEF Types, TypeOK, Pack, Loaded
  <1>5. slot' \in [Slot -> [1..SlotLen -> Piece \cup {Erased, Mixed}]]
    <2>1. ASSUME NEW end PROVE ErasedTo(end) \in [Slot -> [1..SlotLen -> Piece \cup {Erased, Mixed}]]
      BY DEF ErasedTo, Types, TypeOK
    <2> QED
      BY <1>3, <2>1 DEF Types, TypeOK
  <1>6. ASSUME DownloadFits, NEW s \in Slot, s # Target PROVE slot'[s] = slot[s]
    <2>1. ASSUME NEW end \in 0..update_pack.len
          PROVE  ErasedTo(end)[s] = slot[s]
      <3>1. ASSUME NEW i \in 1..SlotLen PROVE ~Reached(s, i, end)
        <4>1. 0 \in SectorStart /\ end < SlotLen /\ end \in Nat
          BY <1>2, <1>6, OtaAssumption DEF DownloadFits
        <4>2. SlotLen \in SectorStart \cup {SlotLen + c : c \in SectorStart}
          <5>1. SlotLen = SlotLen + 0
            BY <1>2
          <5> QED
            BY <4>1, <5>1
        <4>3. Offset(s, i) = SlotLen + i - 1
          BY <1>6 DEF Offset
        <4>4. ~(SlotLen =< end \/ Offset(s, i) < SlotLen)
          BY <1>2, <4>1, <4>3
        <4> QED
          BY <4>2, <4>4 DEF Reached
      <3>2. ErasedTo(end)[s] = [i \in 1..SlotLen |-> IF Reached(s, i, end) THEN Erased ELSE slot[s][i]]
        BY DEF ErasedTo
      <3>3. ErasedTo(end)[s] = [i \in 1..SlotLen |-> slot[s][i]]
        BY <3>1, <3>2
      <3> QED
        BY <3>3 DEF Types, TypeOK
    <2> QED
      BY <1>3, <2>1
  <1>7. DownloadFits /\ status.appStartADDR # Target => (Safe => Safe') /\ (Safe' => Safe)
    BY <1>1, <1>4, <1>6, SafeKept
  <1>8. Types'
    <2>1. <<mode', pc'>> \in {"boot"} \X {"check", "idle", "mark", "erase", "write", "jump"}
      BY <1>1, <1>2
    <2>2. lost' \in BOOLEAN /\ retry' \in 0..3 /\ cur_len' \in 0..MAX_DOWNLOAD
      BY <1>1, <1>2
    <2> QED
      BY <1>1, <1>5, <2>1, <2>2 DEF Types, TypeOK
  <1>9. Loaded'
    BY <1>1 DEF Loaded, Pending
  <1>10. Away'
    BY <1>1, <1>4, <1>7 DEF Away, Target, Pending
  <1>11. Checked'
    <2>1. ToWrite' = ToWrite
      BY <1>1 DEF ToWrite, Received
    <2>2. Len(ToWrite) \in Nat
      BY <1>1, <1>2, ToWriteContent, ContentIs
    <2>3. cur_len' =< Len(ToWrite') /\ \A i \in 1..cur_len' : FALSE
      BY <1>1, <2>1, <2>2
    <2> QED
      BY <1>1, <2>1, <2>3 DEF Checked
  <1>12. Resume'
    <2> SUFFICES ASSUME DownloadFits, ~lost' PROVE Resume'
      BY DEF Resume
    <2>1. ~lost /\ source = "file"
      BY <1>1 DEF Types, TypeOK
    <2>2. /\ status.app /\ status.md5 = update_pack.md5
          /\ status.newAppStartADDR = update_pack.newAppStartADDR
          /\ appFile # NoFile /\ Alike(appFile, update_pack.md5)
      BY <1>1, <2>1 DEF Resume, Checked, ToWrite
    <2>3. CASE status.appStartADDR = Target
      BY <1>1, <1>2, <2>1, <2>2, <2>3 DEF Resume, Target
    <2>4. CASE status.appStartADDR # Target
      BY <1>1, <1>2, <1>7, <2>1, <2>2, <2>4 DEF Resume
    <2> QED
      BY <2>3, <2>4
  <1> QED
    BY <1>8, <1>9, <1>10, <1>11, <1>12

(* A piece written or spoilt is one of the slot to be written.             *)
LEMMA ProgrammedIs ==
  ASSUME Types, Checked, Writing, NEW piece \in Piece \cup {Erased, Mixed}
  PROVE  /\ Programmed(piece) \in [Slot -> [1..SlotLen -> Piece \cup {Erased, Mixed}]]
         /\ \A s \in Slot : s # Target => Programmed(piece)[s] = slot[s]
         /\ Programmed(piece)[Target][cur_len + 1] = piece
         /\ \A i \in 1..cur_len : Programmed(piece)[Target][i] = slot[Target][i]
         /\ cur_len + 1 \in 1..Len(ToWrite) /\ Len(ToWrite) =< MAX_DOWNLOAD
         /\ ToWrite[cur_len + 1] \in Piece \cup {Erased}
  <1>1. /\ slot \in [Slot -> [1..SlotLen -> Piece \cup {Erased, Mixed}]]
        /\ Target \in Slot /\ cur_len \in Nat /\ pc = "write" /\ cur_len < Len(ToWrite)
        /\ MAX_DOWNLOAD =< SlotLen /\ MAX_DOWNLOAD \in Nat /\ SlotLen \in Nat
    BY OtaAssumption DEF Writing, Types, TypeOK, Pack, Target
  <1>2. /\ ToWrite \in [1..Len(ToWrite) -> Piece \cup {Erased}]
        /\ Len(ToWrite) \in 0..MAX_DOWNLOAD
    BY <1>1, ToWriteContent, ContentIs
  <1>3. /\ cur_len + 1 \in 1..Len(ToWrite) /\ cur_len + 1 \in 1..SlotLen
        /\ \A i \in 1..cur_len : i \in 1..SlotLen /\ i # cur_len + 1
    BY <1>1, <1>2
  <1>4. ToWrite[cur_len + 1] \in Piece \cup {Erased}
    BY <1>2, <1>3
  <1> DEFINE row == [slot[Target] EXCEPT ![cur_len + 1] = piece]
  <1>5. Programmed(piece) = [slot EXCEPT ![Target] = row]
    BY DEF Programmed
  <1>6. /\ row \in [1..SlotLen -> Piece \cup {Erased, Mixed}]
        /\ row[cur_len + 1] = piece
        /\ \A i \in 1..cur_len : row[i] = slot[Target][i]
    BY <1>1, <1>3
  <1> HIDE DEF row
  <1>7. /\ Programmed(piece) \in [Slot -> [1..SlotLen -> Piece \cup {Erased, Mixed}]]
        /\ \A s \in Slot : s # Target => Programmed(piece)[s] = slot[s]
        /\ Programmed(piece)[Target] = row
    BY <1>1, <1>5, <1>6
  <1> QED
    BY <1>2, <1>3, <1>4, <1>6, <1>7

(* Whether the slot in use is whole changes only when it is written.       *)
LEMMA SlotKept ==
  ASSUME Types, Checked, Writing, NEW piece \in Piece \cup {Erased, Mixed},
         slot' = Programmed(piece), status'.appStartADDR = status.appStartADDR,
         status.appStartADDR # Target
  PROVE  (Safe => Safe') /\ (Safe' => Safe)
  <1>1. status.appStartADDR \in Slot
    BY DEF Types, TypeOK, Pack
  <1>2. slot'[status'.appStartADDR] = slot[status.appStartADDR]
    BY <1>1, ProgrammedIs
  <1> QED
    BY <1>2, SafeKept

(* It writes one piece, or tries to. *)
LEMMA BootWriteInv ==
  ASSUME IInv, BootWrite \/ BootWriteFails
  PROVE  IInv'
  <1> USE DEF IInv
  <1>1. /\ inPlace' = inPlace /\ mode' = mode /\ starts' = starts
        /\ updateData' = updateData /\ appFile' = appFile /\ status' = status
        /\ saving' = saving /\ source' = source /\ update_pack' = update_pack
        /\ lost' = lost /\ pc = "write" /\ pc' = "write" /\ Writing
    BY DEF BootWrite, BootWriteFails, Writing, disk
  <1>2. /\ mode = "boot" /\ Target \in Slot /\ status.appStartADDR \in Slot
        /\ update_pack.appStartADDR = status.appStartADDR
        /\ cur_len \in Nat /\ MAX_DOWNLOAD \in Nat
    BY <1>1, OtaAssumption DEF Types, TypeOK, Pack, Target, Loaded
  <1>3. /\ slot' \in [Slot -> [1..SlotLen -> Piece \cup {Erased, Mixed}]]
        /\ \A i \in 1..cur_len : slot'[Target][i] = slot[Target][i]
        /\ \A s \in Slot : s # Target => slot'[s] = slot[s]
        /\ cur_len + 1 \in 1..Len(ToWrite) /\ Len(ToWrite) =< MAX_DOWNLOAD
    <2>1. CASE BootWrite
      <3>1. slot' = Programmed(ToWrite[cur_len + 1]) /\ ToWrite[cur_len + 1] \in Piece \cup {Erased}
        BY <1>1, <2>1, ProgrammedIs DEF BootWrite
      <3> QED
        BY <1>1, <3>1, ProgrammedIs
    <2>2. CASE BootWriteFails
      <3>1. slot' = slot \/ slot' = Programmed(Mixed)
        BY <2>2 DEF BootWriteFails
      <3>2. slot \in [Slot -> [1..SlotLen -> Piece \cup {Erased, Mixed}]]
        BY DEF Types, TypeOK
      <3>3. Mixed \in Piece \cup {Erased, Mixed}
        OBVIOUS
      <3>4. cur_len + 1 \in 1..Len(ToWrite) /\ Len(ToWrite) =< MAX_DOWNLOAD
        BY <1>1, <3>3, ProgrammedIs
      <3>5. CASE slot' = slot
        BY <3>2, <3>4, <3>5
      <3>6. CASE slot' = Programmed(Mixed)
        BY <1>1, <3>3, <3>4, <3>6, ProgrammedIs
      <3> QED
        BY <3>1, <3>5, <3>6
    <2> QED
      BY <2>1, <2>2
  <1>4. \/ /\ cur_len' = cur_len + 1 /\ retry' = 0
           /\ slot'[Target][cur_len + 1] = ToWrite[cur_len + 1]
        \/ cur_len' = cur_len /\ retry' = retry + 1 /\ retry < 3
    <2>1. CASE BootWrite
      <3>1. slot' = Programmed(ToWrite[cur_len + 1]) /\ ToWrite[cur_len + 1] \in Piece \cup {Erased}
        BY <1>1, <2>1, ProgrammedIs DEF BootWrite
      <3> QED
        BY <1>1, <2>1, <3>1, ProgrammedIs DEF BootWrite
    <2>2. CASE BootWriteFails
      BY <2>2 DEF BootWriteFails
    <2> QED
      BY <2>1, <2>2
  <1>5. status.appStartADDR # Target => (Safe => Safe') /\ (Safe' => Safe)
    BY <1>1, <1>2, <1>3, SafeKept
  <1>6. Types'
    <2>1. <<mode', pc'>> \in {"boot"} \X {"check", "idle", "mark", "erase", "write", "jump"}
      BY <1>1, <1>2
    <2>2. cur_len' \in 0..MAX_DOWNLOAD /\ retry' \in 0..3
      <3>1. Len(ToWrite) \in Nat
        BY <1>1, ToWriteContent, ContentIs
      <3>2. retry \in 0..3
        BY DEF Types, TypeOK
      <3> QED
        BY <1>2, <1>3, <1>4, <3>1, <3>2
    <2> QED
      BY <1>1, <1>3, <2>1, <2>2 DEF Types, TypeOK
  <1>7. Loaded'
    BY <1>1 DEF Loaded, Pending
  <1>8. Away'
    BY <1>1, <1>2, <1>5 DEF Away, Target, Pending
  <1>9. Checked'
    <2>1. ToWrite' = ToWrite /\ Target' = Target
      BY <1>1 DEF ToWrite, Received, Target
    <2>2. cur_len =< Len(ToWrite) /\ \A i \in 1..cur_len : slot[Target][i] = ToWrite[i]
      BY <1>1 DEF Checked
    <2>3. cur_len' =< Len(ToWrite)
      BY <1>2, <1>3, <1>4, <2>2
    <2>4. \A i \in 1..cur_len' : slot'[Target][i] = ToWrite[i]
      <3>1. \A i \in 1..cur_len' : i \in 1..cur_len \/ (cur_len' = cur_len + 1 /\ i = cur_len + 1)
        BY <1>2, <1>4
      <3> QED
        BY <1>2, <1>3, <1>4, <2>2, <3>1
    <2> QED
      BY <1>1, <2>1, <2>3, <2>4 DEF Checked
  <1>10. Resume'
    <2> SUFFICES ASSUME DownloadFits, ~lost' PROVE Resume'
      BY DEF Resume
    <2>1. ~lost /\ source = "file"
      BY <1>1 DEF Resume
    <2>2. /\ status.app /\ status.md5 = update_pack.md5
          /\ status.newAppStartADDR = update_pack.newAppStartADDR
          /\ appFile # NoFile /\ Alike(appFile, update_pack.md5)
      BY <1>1, <2>1 DEF Resume, Checked, ToWrite
    <2>3. CASE status.appStartADDR = Target
      BY <1>1, <1>2, <2>1, <2>2, <2>3 DEF Resume, Target
    <2>4. CASE status.appStartADDR # Target
      BY <1>1, <1>2, <1>5, <2>1, <2>2, <2>4 DEF Resume
    <2> QED
      BY <2>3, <2>4
  <1> QED
    BY <1>6, <1>7, <1>8, <1>9, <1>10

(* Only the place changes. *)
LEMMA BootReadFailsInv ==
  ASSUME IInv, BootReadFails
  PROVE  IInv'
  <1> USE DEF IInv
  <1>1. /\ inPlace' = inPlace /\ mode' = mode /\ starts' = starts /\ slot' = slot
        /\ updateData' = updateData /\ appFile' = appFile /\ status' = status
        /\ saving' = saving /\ source' = source /\ update_pack' = update_pack
        /\ cur_len' = cur_len /\ retry' = retry
        /\ lost' = lost /\ pc = "write" /\ pc' = "idle"
    BY DEF BootReadFails, Goto, disk, ram, writer
  <1>2. mode = "boot" /\ ~Pending
    BY <1>1 DEF Types, TypeOK, Loaded
  <1>3. Types'
    <2>1. <<mode', pc'>> \in {"boot"} \X {"check", "idle", "mark", "erase", "write", "jump"}
      BY <1>1, <1>2
    <2> QED
      BY <1>1, <2>1 DEF Types, TypeOK
  <1>4. Safe' = Safe
    BY <1>1 DEF Safe, Whole, First
  <1>5. Loaded'
    BY <1>1, <1>2 DEF Loaded, Pending
  <1>6. Away'
    BY <1>1, <1>2, <1>4 DEF Away, Pending
  <1>7. Checked'
    BY <1>1 DEF Checked
  <1>8. Resume'
    BY <1>1, <1>2, <1>4 DEF Resume, Pending
  <1> QED
    BY <1>3, <1>5, <1>6, <1>7, <1>8

(* Four failures: the update is called off. *)
LEMMA BootGiveUpInv ==
  ASSUME IInv, BootGiveUp
  PROVE  IInv'
  <1> USE DEF IInv
  <1>1. /\ inPlace' = inPlace /\ mode' = mode /\ starts' = starts
        /\ updateData' = updateData /\ appFile' = appFile /\ retry' = retry
        /\ saving' = saving /\ source' = source /\ cur_len' = cur_len
        /\ update_pack' = [update_pack EXCEPT !.app = FALSE]
        /\ status' \in {status, update_pack'}
        /\ lost' = TRUE /\ pc = "write" /\ pc' = "idle" /\ Writing
        /\ slot' = slot \/ slot' = Programmed(Mixed)
    BY DEF BootGiveUp, Goto, SaveStatus, writer
  <1>2. /\ mode = "boot" /\ update_pack \in Pack /\ status \in Pack
        /\ update_pack.updateState = "other"
        /\ update_pack.appStartADDR = status.appStartADDR
    BY <1>1 DEF Types, TypeOK, Loaded, Pending, Pack
  <1>3. /\ update_pack' \in Pack /\ ~update_pack'.app /\ update_pack'.updateState = "other"
        /\ update_pack'.appStartADDR = status.appStartADDR
    BY <1>1, <1>2 DEF Pack
  <1>4. status' \in Pack /\ status'.appStartADDR = status.appStartADDR
    BY <1>1, <1>2, <1>3
  <1>5. Types'
    <2>1. <<mode', pc'>> \in {"boot"} \X {"check", "idle", "mark", "erase", "write", "jump"}
      BY <1>1, <1>2
    <2>2. slot' \in [Slot -> [1..SlotLen -> Piece \cup {Erased, Mixed}]]
      BY <1>1, ProgrammedIs DEF Types, TypeOK
    <2> QED
      BY <1>1, <1>3, <1>4, <2>1, <2>2 DEF Types, TypeOK
  <1>6. status.appStartADDR # Target => (Safe => Safe') /\ (Safe' => Safe)
    BY <1>1, <1>4, SlotKept, SafeKept
  <1>7. Loaded'
    BY <1>1, <1>2, <1>3, <1>4 DEF Loaded
  <1>8. Away'
    <2> SUFFICES ASSUME DownloadFits, ~inPlace PROVE Away'
      BY <1>1 DEF Away
    <2>1. Safe /\ Target # status.appStartADDR
      BY <1>1, <1>2 DEF Away, Target
    <2>2. Safe' /\ ~Pending'
      BY <1>3, <1>6, <2>1 DEF Pending
    <2>3. status'.app => status' = status
      BY <1>1, <1>3
    <2> QED
      BY <1>1, <1>3, <1>4, <2>2, <2>3 DEF Away
  <1>9. Checked'
    BY <1>1 DEF Checked
  <1>10. Resume'
    BY <1>1 DEF Resume
  <1> QED
    BY <1>5, <1>7, <1>8, <1>9, <1>10

(* The slot begins with what was to be written. *)
LEMMA WrittenWhole ==
  ASSUME IInv, pc = "write", cur_len = Len(ToWrite)
  PROVE  /\ Alike(First(Target, Len(ToWrite)), update_pack.md5)
         /\ update_pack.md5 \in Image /\ Whole(Target)
  <1>1. /\ ToWrite \in [1..Len(ToWrite) -> Piece \cup {Erased}]
        /\ Len(ToWrite) \in 0..MAX_DOWNLOAD /\ update_pack.md5 \in Image
    BY ToWriteContent, ContentIs DEF IInv, Types, TypeOK, Pack
  <1>2. Len(ToWrite) \in 0..SlotLen
    BY <1>1, OtaAssumption
  <1>3. First(Target, Len(ToWrite)) = ToWrite
    BY <1>1 DEF IInv, Checked, First
  <1>4. Alike(First(Target, Len(ToWrite)), update_pack.md5)
    BY <1>3 DEF IInv, Checked
  <1> QED
    BY <1>1, <1>2, <1>4, WholeIf

LEMMA BootWrittenInv ==
  ASSUME IInv, BootWritten
  PROVE  IInv'
  <1> USE DEF IInv
  <1>1. /\ inPlace' = inPlace /\ mode' = mode /\ starts' = starts /\ slot' = slot
        /\ updateData' = updateData /\ appFile' = appFile /\ retry' = retry
        /\ saving' = saving /\ source' = source /\ lost' = lost /\ cur_len' = cur_len
        /\ update_pack' = [update_pack EXCEPT !.app = FALSE, !.appStartADDR = Target]
        /\ status' \in {status, update_pack'}
        /\ pc = "write" /\ pc' = "jump" /\ cur_len = Len(ToWrite)
    BY DEF BootWritten, Goto, SaveStatus, writer
  <1>2. /\ mode = "boot" /\ update_pack \in Pack /\ status \in Pack /\ Target \in Slot
        /\ update_pack.updateState = "other"
    BY <1>1 DEF Types, TypeOK, Loaded, Pending, Pack, Target
  <1>3. /\ update_pack' \in Pack /\ ~update_pack'.app /\ update_pack'.updateState = "other"
        /\ update_pack'.appStartADDR = Target /\ update_pack'.md5 = update_pack.md5
    BY <1>1, <1>2 DEF Pack
  <1>5. Whole(Target)
    BY <1>1, WrittenWhole
  <1>6. Types'
    <2>1. <<mode', pc'>> \in {"boot"} \X {"check", "idle", "mark", "erase", "write", "jump"}
      BY <1>1, <1>2
    <2> QED
      BY <1>1, <1>2, <1>3, <2>1 DEF Types, TypeOK
  <1>7. /\ status' = status => Safe' = Safe
        /\ status' # status => Safe' /\ ~status'.app /\ status'.updateState = "other"
    BY <1>1, <1>3, <1>5 DEF Safe, Whole, First
  <1>8. Loaded'
    BY <1>1, <1>3, <1>7 DEF Loaded, Pending
  <1>9. Away'
    <2>1. ~Pending' /\ pc' = "jump"
      BY <1>1, <1>3 DEF Pending
    <2>2. CASE status' = status
      BY <1>1, <1>7, <2>1, <2>2 DEF Away
    <2>3. CASE status' # status
      BY <1>1, <1>7, <2>1, <2>3 DEF Away
    <2> QED
      BY <2>2, <2>3
  <1>10. Checked'
    BY <1>1, <1>3, <1>5 DEF Checked, Whole, First
  <1>11. Resume'
    <2> SUFFICES ASSUME DownloadFits, ~lost' PROVE Safe' /\ Resume'
      BY DEF Resume
    <2>1. ~lost /\ source = "file" /\ status.newAppStartADDR = Target
      BY <1>1 DEF Resume, Types, TypeOK, Target
    <2>2. Safe
      BY <1>5, <2>1 DEF Resume, Safe
    <2>3. Safe'
      BY <1>7, <2>2
    <2> QED
      BY <1>1, <1>2, <2>3 DEF Resume
  <1> QED
    BY <1>6, <1>8, <1>9, <1>10, <1>11

LEMMA JumpInv ==
  ASSUME IInv, Jump
  PROVE  IInv'
  <1> USE DEF IInv
  <1>1. /\ inPlace' = inPlace /\ starts' = starts /\ slot' = slot
        /\ updateData' = updateData /\ appFile' = appFile /\ retry' = retry
        /\ saving' = saving /\ source' = source /\ lost' = lost /\ status' = status
        /\ cur_len' = cur_len
        /\ update_pack' = status /\ mode' = "app" /\ pc' \in {"poll", "hung"}
        /\ pc \in {"jump", "idle"}
        /\ pc' = IF Whole(update_pack.appStartADDR) THEN "poll" ELSE "hung"
    BY DEF Jump, disk, writer
  <1>2. Safe' = Safe
    BY <1>1 DEF Safe, Whole, First
  <1>3. Types'
    <2>1. <<mode', pc'>> \in {"app"} \X {"poll", "delete", "save", "load", "reset", "hung"}
      BY <1>1
    <2> QED
      BY <1>1, <2>1 DEF Types, TypeOK
  <1>4. Loaded'
    BY <1>1 DEF Loaded
  <1>5. Away'
    BY <1>1, <1>2 DEF Away, Pending, Loaded
  <1>6. Checked'
    BY <1>1 DEF Checked
  <1>7. Resume'
    <2>1. pc = "idle" /\ pc' # "hung" => Safe
      BY <1>1 DEF Safe, Loaded
    <2> QED
      BY <1>1, <1>2, <2>1 DEF Resume
  <1> QED
    BY <1>3, <1>4, <1>5, <1>6, <1>7

LEMMA StutterInv ==
  ASSUME IInv, UNCHANGED vars
  PROVE  IInv'
  <1> USE DEF IInv
  <1>1. /\ starts' = starts /\ inPlace' = inPlace /\ appFile' = appFile /\ status' = status
        /\ slot' = slot /\ mode' = mode /\ pc' = pc /\ update_pack' = update_pack
        /\ updateData' = updateData /\ saving' = saving /\ source' = source
        /\ cur_len' = cur_len /\ retry' = retry /\ lost' = lost
    BY DEF vars, disk, ram, writer
  <1>2. Safe' = Safe
    BY <1>1 DEF Safe, Whole, First
  <1>3. ToWrite' = ToWrite /\ Target' = Target
    BY <1>1 DEF ToWrite, Received, Target
  <1>4. Types' /\ Loaded'
    BY <1>1 DEF Types, TypeOK, Loaded, Pending
  <1>5. Away'
    BY <1>1, <1>2 DEF Away, Pending
  <1>6. Checked'
    BY <1>1, <1>3 DEF Checked, Whole, First
  <1>7. Resume'
    BY <1>1, <1>2 DEF Resume, Pending
  <1> QED
    BY <1>4, <1>5, <1>6, <1>7

LEMMA NextInv == IInv /\ [Next]_vars => IInv'
  <1> SUFFICES ASSUME IInv, [Next]_vars PROVE IInv'
    OBVIOUS
  <1>1. CASE Host
    BY <1>1, HostInv
  <1>2. CASE App
    BY <1>2, AppInv
  <1>3. CASE Reset
    BY <1>3, ResetInv
  <1>4. CASE Boot
    BY <1>4, BootChecksInv, BootMarkInv, BootEraseInv, BootWriteInv, BootReadFailsInv,
       BootGiveUpInv, BootWrittenInv, JumpInv DEF Boot
  <1>5. CASE UNCHANGED vars
    BY <1>5, StutterInv
  <1> QED
    BY <1>1, <1>2, <1>3, <1>4, <1>5 DEF Next

-------------------------------------------------------------------------------
(* The invariant holds throughout, whatever is reset, lost or repeated.    *)
THEOREM Invariance == Spec => []IInv
  <1>1. Init => IInv
    BY InitInv
  <1>2. IInv /\ [Next]_vars => IInv'
    BY NextInv
  <1> QED
    BY <1>1, <1>2, PTL DEF Spec

(* While updates go to the slot that is not in use, the one the status     *)
(* names holds a whole image: iap.c and iap_littlefs.c.                    *)
THEOREM AlwaysStarts ==
  ASSUME DownloadFits
  PROVE  Spec => []ActiveSlotWhole
  <1>1. IInv => ActiveSlotWhole
    BY DEF IInv, Away, Safe, ActiveSlotWhole
  <1> QED
    BY <1>1, Invariance, PTL

(* An update in place that was begun can be finished after any reset.      *)
THEOREM AlwaysResumes ==
  ASSUME DownloadFits
  PROVE  Spec => []Resumable
  <1>1. IInv => Resumable
    BY DEF IInv, Types, Resume, Safe, Resumable
  <1> QED
    BY <1>1, Invariance, PTL

(* The update recorded as done is the one that was asked for.              *)
THEOREM InstallsWhatWasAsked == Spec => InstalledAsAsked
  <1>1. IInv /\ [Next]_vars =>
          [BootWritten /\ status' # status
             => Alike(First(status'.appStartADDR, Len(ToWrite)), status'.md5)]_vars
    <2> SUFFICES ASSUME IInv, BootWritten, status' # status
                 PROVE  Alike(First(status'.appStartADDR, Len(ToWrite)), status'.md5)
      OBVIOUS
    <2>1. /\ status' = [update_pack EXCEPT !.app = FALSE, !.appStartADDR = Target]
          /\ pc = "write" /\ cur_len = Len(ToWrite) /\ update_pack \in Pack
      BY DEF BootWritten, Goto, SaveStatus, IInv, Types, TypeOK
    <2>2. status'.appStartADDR = Target /\ status'.md5 = update_pack.md5
      BY <2>1 DEF Pack
    <2>3. First(status'.appStartADDR, Len(ToWrite)) = First(Target, Len(ToWrite))
      BY <2>2
    <2> QED
      BY <2>1, <2>2, <2>3, WrittenWhole
  <1> QED
    BY <1>1, Invariance, PTL DEF Spec, InstalledAsAsked
===============================================================================
