-------------------------------- MODULE Ota --------------------------------
(***************************************************************************)
(* The firmware update of components/ota, built with USE_LITTLEFS: the     *)
(* application receives an image in RAM, verifies it, saves it to a file   *)
(* and resets; the boot loader verifies the file, writes it to a slot of   *)
(* the internal flash and jumps there.  The boot loader also takes an      *)
(* image itself and writes it from RAM.  Power may fail between any two    *)
(* steps.                                                                  *)
(*                                                                         *)
(* An image is a sequence of pieces of IAP_WRITE_MAX bytes; a packet holds *)
(* one piece.  A damaged packet is answered with a request to repeat it    *)
(* and changes nothing; the host may send anything at any time, so that    *)
(* packets are repeated or missing.  A slot is some sectors of the flash,  *)
(* and the second begins where the first ends.                             *)
(***************************************************************************)
EXTENDS Naturals, Sequences

CONSTANTS
  Piece,        \* what a piece holds
  Image,        \* the images the host announces
  Alike(_, _),  \* the digests of two contents are equal for strncasecmp
  Slot,         \* the slots, 1..n in the order of their addresses
  SlotLen,      \* the pieces a slot holds
  SectorStart,  \* how many pieces of its slot come before each sector
  CACHE,        \* the pieces of IAP_TEMP_CACHE_SIZE
  MAX_DOWNLOAD, \* bound: the pieces the host sends in one download, with
                \* those it repeats
  Downloads,    \* bound: the downloads the host starts
  NoFile,       \* the file does not exist
  Erased,       \* what an erased part of the flash holds
  Mixed         \* what a failed attempt to write leaves

(* Neither save_app_temp nor write_app_file asks whether the RAM or the    *)
(* slot has room: MAX_DOWNLOAD is what the host owes them.                 *)
ASSUME OtaAssumption ==
  /\ Slot = 1..2 /\ {SlotLen, CACHE, MAX_DOWNLOAD, Downloads} \subseteq Nat
  /\ MAX_DOWNLOAD =< CACHE /\ MAX_DOWNLOAD =< SlotLen
  /\ 0 \in SectorStart /\ SectorStart \subseteq 0..(SlotLen - 1)
  /\ \A img \in Image : img \in Seq(Piece) /\ Len(img) \in 1..SlotLen
  /\ \A img \in Image : Alike(img, img)

Content == UNION {[1..n -> Piece \cup {Erased}] : n \in 0..MAX_DOWNLOAD}

(* update_pack.  len stands for packageLen and storeLen, which move        *)
(* together, and "other" for the states nothing depends on.                *)
Pack == [len : 0..MAX_DOWNLOAD, md5 : Image, app : BOOLEAN,
         updateState : {"other", "RECEIVE_DATA", "PREPARATION"},
         appStartADDR : Slot, newAppStartADDR : Slot]

VARIABLES
  starts,       \* the downloads started
  inPlace,      \* the host may update the slot the status names
  appFile,      \* appFile.bin
  status,       \* status.txt
  slot,         \* what each slot holds
  mode,         \* what runs: the boot loader or the application
  pc,           \* where its update check is
  update_pack,
  updateData,   \* the image in RAM
  saving,       \* the length save_file was called with
  source,       \* what write_app_file writes: the file or the RAM
  cur_len,      \* the pieces it has written
  retry,        \* its failed attempts at the next one
  lost          \* history: the boot loader wrote an image of its own, or gave up,
                \* or a new download dropped the file of an unfinished update

disk == <<appFile, status>>
writer == <<source, cur_len, retry>>
ram == <<update_pack, updateData, saving, writer>>
vars == <<starts, inPlace, disk, slot, mode, pc, ram, lost>>

Init ==
  /\ starts = 0 /\ inPlace \in BOOLEAN /\ lost = FALSE
  /\ appFile = NoFile
  /\ \E img \in Image :
       /\ slot = [s \in Slot |-> [i \in 1..SlotLen |->
                   IF s = 1 /\ i =< Len(img) THEN img[i] ELSE Erased]]
       /\ status = [len |-> 0, md5 |-> img, app |-> FALSE, updateState |-> "other",
                    appStartADDR |-> 1, newAppStartADDR |-> 1]
  /\ mode = "app" /\ pc = "poll" /\ update_pack = status
  /\ updateData = [i \in 1..CACHE |-> Erased]
  /\ saving = 0 /\ source = "file" /\ cur_len = 0 /\ retry = 0

(* What a slot begins with, and that this is an image.                     *)
First(s, n) == [i \in 1..n |-> slot[s][i]]
Whole(s) == \E n \in 0..SlotLen, img \in Image : Alike(First(s, n), img)

Goto(here, there) == pc = here /\ pc' = there

(* save_app_update_status does not look at what save_file returns. *)
SaveStatus == status' \in {status, update_pack'}

-----------------------------------------------------------------------------
(* iapParser, called in the application whatever the update check is doing *)
(* and in the boot loader between its steps.                               *)

Parsing == (mode = "app" /\ pc # "hung") \/ pc = "idle"

(* IAP_CMD_DATA_START. *)
Announced(img, target, isCheck) ==
  [update_pack EXCEPT !.len = 0, !.newAppStartADDR = target,
                      !.md5 = IF isCheck THEN img ELSE @]

Start(target) ==
  /\ Parsing /\ (inPlace \/ target # update_pack.appStartADDR)
  /\ starts < Downloads /\ starts' = starts + 1

DataStart(img, target, isCheck) ==
  /\ Start(target)
  /\ update_pack' = [Announced(img, target, isCheck) EXCEPT !.updateState = "RECEIVE_DATA"]
  /\ appFile' = NoFile
  /\ lost' = (lost \/ ~Whole(status.appStartADDR))
  /\ UNCHANGED <<inPlace, status, slot, mode, pc, updateData, saving, writer>>

(* A version that is not newer or too long leaves the state as it was, a   *)
(* resource without a name sets IAP_RECEIVE_ERROR; the rest has changed.   *)
DataStartRefused(img, target, isCheck) ==
  /\ Start(target)
  /\ update_pack' \in {Announced(img, target, isCheck),
                      [Announced(img, target, isCheck) EXCEPT !.updateState = "other"]}
  /\ UNCHANGED <<inPlace, disk, slot, mode, pc, updateData, saving, writer, lost>>

(* save_app_temp. The bound on the length is the host's, not the code's.   *)
DataSending(piece) ==
  /\ Parsing /\ update_pack.updateState = "RECEIVE_DATA"
  /\ update_pack.len < MAX_DOWNLOAD
  /\ updateData' = [updateData EXCEPT ![update_pack.len + 1] = piece]
  /\ update_pack' = [update_pack EXCEPT !.len = @ + 1]
  /\ UNCHANGED <<starts, inPlace, disk, slot, mode, pc, saving, writer, lost>>

DataOver ==
  /\ Parsing /\ update_pack.updateState = "RECEIVE_DATA"
  /\ update_pack' = [update_pack EXCEPT !.updateState = "PREPARATION"]
  /\ UNCHANGED <<starts, inPlace, disk, slot, mode, pc, updateData, saving, writer, lost>>

(* checkout_temp_file_md5. *)
Received == SubSeq(updateData, 1, update_pack.len)
TempVerified == Alike(Received, update_pack.md5)

-----------------------------------------------------------------------------
(* iapCheckUpdate, in the application. *)

Check(there) ==
  /\ update_pack.updateState = "PREPARATION"
  /\ \/ TempVerified /\ pc' = there /\ UNCHANGED update_pack
     \/ /\ ~TempVerified /\ UNCHANGED pc
        /\ update_pack' = [update_pack EXCEPT !.updateState = "other"]

AppCheck ==
  /\ mode = "app" /\ pc = "poll" /\ Check("delete")
  /\ UNCHANGED <<starts, inPlace, disk, slot, mode, updateData, saving, writer, lost>>

(* delete_file, and save_file with the length there is now. *)
AppDelete ==
  /\ Goto("delete", "save")
  /\ appFile' = <<>> /\ saving' = update_pack.len
  /\ UNCHANGED <<starts, inPlace, status, slot, mode, update_pack, updateData, writer, lost>>

(* save_file syncs after each piece; a file that was deleted meanwhile     *)
(* stays so.                                                               *)
AppSavePiece ==
  /\ pc = "save" /\ saving > 0
  /\ saving' = saving - 1
  /\ appFile' = IF appFile = NoFile THEN NoFile
                ELSE Append(appFile, updateData[Len(appFile) + 1])
  /\ UNCHANGED <<starts, inPlace, status, slot, mode, pc, update_pack, updateData, writer, lost>>

AppSaveFails ==
  /\ Goto("save", "poll") /\ saving > 0 /\ saving' = 0
  /\ update_pack' = [update_pack EXCEPT !.updateState = "other"]
  /\ UNCHANGED <<starts, inPlace, disk, slot, mode, updateData, writer, lost>>

AppSaved ==
  /\ Goto("save", "load") /\ saving = 0
  /\ update_pack' = [update_pack EXCEPT !.app = TRUE, !.updateState = "other"]
  /\ SaveStatus
  /\ UNCHANGED <<starts, inPlace, appFile, slot, mode, updateData, saving, writer, lost>>

AppLoad ==
  /\ Goto("load", "reset")
  /\ update_pack' = status
  /\ UNCHANGED <<starts, inPlace, disk, slot, mode, updateData, saving, writer, lost>>

-----------------------------------------------------------------------------
(* A reset: by System_SoftReset, the host or a loss of power.  iap_init and*)
(* bootCheckUpdateApp load the status.                                     *)
Reset ==
  /\ mode' = "boot" /\ pc' = IF status.app THEN "check" ELSE "idle"
  /\ update_pack' = status
  /\ updateData' = [i \in 1..CACHE |-> Erased]
  /\ saving' = 0 /\ source' = "file" /\ cur_len' = 0 /\ retry' = 0
  /\ UNCHANGED <<starts, inPlace, disk, slot, lost>>

(* check_update_bin. *)
FileVerified == appFile # NoFile /\ Alike(appFile, update_pack.md5)

(* Each operator named ..._Bug is a fault the properties are to notice: it *)
(* stands before the definition it would replace.                          *)

BootCheck_Bug ==
  /\ Goto("check", "mark") /\ appFile # NoFile
  /\ source' = "file"
  /\ UNCHANGED <<starts, inPlace, disk, slot, mode, update_pack, updateData, saving, cur_len,
                 retry, lost>>

BootCheck ==
  /\ Goto("check", "mark") /\ FileVerified
  /\ source' = "file"
  /\ UNCHANGED <<starts, inPlace, disk, slot, mode, update_pack, updateData, saving, cur_len,
                 retry, lost>>

(* The digest differs or the file cannot be read. *)
BootCheckFails ==
  /\ Goto("check", "idle")
  /\ update_pack' = [update_pack EXCEPT !.updateState = "other"]
  /\ UNCHANGED <<starts, inPlace, disk, slot, mode, updateData, saving, writer, lost>>

(* boot_iapCheckUpdate. *)
BootTempCheck ==
  /\ mode = "boot" /\ pc = "idle" /\ Check("mark")
  /\ source' = "temp"
  /\ UNCHANGED <<starts, inPlace, disk, slot, mode, updateData, saving, cur_len, retry, lost>>

BootMark ==
  /\ Goto("mark", "erase")
  /\ update_pack' = [update_pack EXCEPT !.app = TRUE, !.updateState = "other"]
  /\ status' \in {status, [update_pack EXCEPT !.app = TRUE]}
  /\ UNCHANGED <<starts, inPlace, appFile, slot, mode, updateData, saving, writer, lost>>

(* FLASH_If_Erase erases from the first sector of the slot to that of the  *)
(* end address, which is the one behind packageLen bytes: a part of the    *)
(* file's, if a DATA_START or further packets changed the length after the *)
(* file was saved, and the first sector of the next slot, if the length is *)
(* that of a slot.  What it returns is not looked at.                      *)
Target == update_pack.newAppStartADDR
Offset(s, i) == IF s = Target THEN i - 1 ELSE SlotLen + i - 1
Reached(s, i, end) ==
  /\ s \in {Target, Target + 1}
  /\ \A b \in SectorStart \cup {SlotLen + c : c \in SectorStart} :
       b =< end \/ Offset(s, i) < b
ErasedTo(end) ==
  [s \in Slot |-> [i \in 1..SlotLen |-> IF Reached(s, i, end) THEN Erased ELSE slot[s][i]]]

BootErase ==
  /\ Goto("erase", "write")
  /\ slot' \in {slot} \cup {ErasedTo(end) : end \in 0..update_pack.len}
  /\ cur_len' = 0 /\ retry' = 0 /\ lost' = (lost \/ source = "temp")
  /\ UNCHANGED <<starts, inPlace, disk, mode, update_pack, updateData, saving, source>>

(* The file is written by its own size, the RAM by packageLen.             *)
ToWrite == IF source = "file" THEN appFile ELSE Received
Writing == pc = "write" /\ cur_len < Len(ToWrite)
Programmed(piece) == [slot EXCEPT ![Target] = [@ EXCEPT ![cur_len + 1] = piece]]

(* Programming only clears bits.  Where the flash was not erased, the      *)
(* verification passes only if the piece needs no bit set.                 *)
BootWrite ==
  /\ Writing
  /\ slot' = Programmed(ToWrite[cur_len + 1])
  /\ cur_len' = cur_len + 1 /\ retry' = 0
  /\ UNCHANGED <<starts, inPlace, disk, mode, pc, update_pack, updateData, saving, source, lost>>

BootWriteFails ==
  /\ Writing /\ retry < 3
  /\ slot' \in {slot, Programmed(Mixed)}
  /\ retry' = retry + 1
  /\ UNCHANGED <<starts, inPlace, disk, mode, pc, update_pack, updateData, saving, source,
                 cur_len, lost>>

(* The update is called off. *)
BootReadFails_Bug ==
  /\ Goto("write", "idle") /\ source = "file" /\ Writing
  /\ update_pack' = [update_pack EXCEPT !.app = FALSE]
  /\ SaveStatus
  /\ UNCHANGED <<starts, inPlace, appFile, slot, mode, updateData, saving, writer, lost>>

(* The file cannot be read: the status stays as it is. *)
BootReadFails ==
  /\ Goto("write", "idle") /\ source = "file" /\ Writing
  /\ UNCHANGED <<starts, inPlace, disk, slot, mode, ram, lost>>

(* The fourth failure. *)
BootGiveUp ==
  /\ Goto("write", "idle") /\ Writing /\ retry = 3
  /\ slot' \in {slot, Programmed(Mixed)}
  /\ update_pack' = [update_pack EXCEPT !.app = FALSE]
  /\ SaveStatus /\ lost' = TRUE
  /\ UNCHANGED <<starts, inPlace, appFile, mode, updateData, saving, writer>>

(* The last piece is left out. *)
BootWritten_Bug ==
  /\ Goto("write", "jump") /\ cur_len + 1 = Len(ToWrite)
  /\ update_pack' = [update_pack EXCEPT !.app = FALSE, !.appStartADDR = Target]
  /\ SaveStatus
  /\ UNCHANGED <<starts, inPlace, appFile, slot, mode, updateData, saving, writer, lost>>

BootWritten ==
  /\ Goto("write", "jump") /\ cur_len = Len(ToWrite)
  /\ update_pack' = [update_pack EXCEPT !.app = FALSE, !.appStartADDR = Target]
  /\ SaveStatus
  /\ UNCHANGED <<starts, inPlace, appFile, slot, mode, updateData, saving, writer, lost>>

(* jump2APP looks at the first word of the slot only.  What is not a whole *)
(* image hangs; the application's iap_init loads the status.               *)
Jump ==
  /\ mode = "boot" /\ pc \in {"jump", "idle"}
  /\ slot[update_pack.appStartADDR][1] # Erased
  /\ mode' = "app" /\ update_pack' = status
  /\ pc' = IF Whole(update_pack.appStartADDR) THEN "poll" ELSE "hung"
  /\ UNCHANGED <<starts, inPlace, disk, slot, updateData, saving, writer, lost>>

-----------------------------------------------------------------------------
Host ==
  \/ \E img \in Image, target \in Slot, isCheck \in BOOLEAN :
       DataStart(img, target, isCheck) \/ DataStartRefused(img, target, isCheck)
  \/ \E piece \in Piece : DataSending(piece)
  \/ DataOver

App == AppCheck \/ AppDelete \/ AppSavePiece \/ AppSaveFails \/ AppSaved \/ AppLoad

Boot ==
  \/ BootCheck \/ BootCheckFails \/ BootTempCheck \/ BootMark \/ BootErase
  \/ BootWrite \/ BootWriteFails \/ BootReadFails \/ BootGiveUp \/ BootWritten
  \/ Jump

Next == Host \/ App \/ Boot \/ Reset

Spec == Init /\ [][Next]_vars

-----------------------------------------------------------------------------
(* Properties. *)

(* The values the variables take. *)
TypeOK ==
  /\ starts \in 0..Downloads /\ {inPlace, lost} \subseteq BOOLEAN
  /\ appFile \in Content \cup {NoFile}
  /\ {status, update_pack} \subseteq Pack
  /\ slot \in [Slot -> [1..SlotLen -> Piece \cup {Erased, Mixed}]]
  /\ <<mode, pc>> \in
       {"app"} \X {"poll", "delete", "save", "load", "reset", "hung"}
       \cup {"boot"} \X {"check", "idle", "mark", "erase", "write", "jump"}
  /\ updateData \in [1..CACHE -> Piece \cup {Erased}]
  /\ {saving, cur_len} \subseteq 0..MAX_DOWNLOAD /\ source \in {"file", "temp"} /\ retry \in 0..3

(* While updates go to the slot that is not in use, the slot the status    *)
(* names holds a whole image, whatever was lost, repeated, announced anew  *)
(* or interrupted.                                                         *)
ActiveSlotWhole == ~inPlace => Whole(status.appStartADDR)

(* An update in place that was begun can be finished: when the slot does   *)
(* not hold a whole image, the status still asks for the update and the    *)
(* file still holds the image it asks for.  Three things end that: four    *)
(* failures to write a piece, a new download before the boot loader tried  *)
(* again, and an image the boot loader took itself, which no file holds.   *)
(* (And every variable has its type.)                                      *)
Resumable ==
  /\ TypeOK
  /\ ~lost /\ ~Whole(status.appStartADDR) =>
     /\ status.app /\ status.newAppStartADDR = status.appStartADDR
     /\ appFile # NoFile /\ Alike(appFile, status.md5)

(* The update recorded as done is the one that was asked for: the slot     *)
(* holds what has the digest in the status, although the host may have     *)
(* announced another image between the check, the file and the status.     *)
InstalledAsAsked ==
  [][BootWritten /\ status' # status
     => Alike(First(status'.appStartADDR, Len(ToWrite)), status'.md5)]_vars
=============================================================================
