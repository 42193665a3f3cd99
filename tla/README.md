# c_idf: specifications and proofs

c_idf is a collection of C components for firmware on STM32: ring buffers and
queues between interrupt handlers and tasks, a Modbus stack on FreeRTOS, a
firmware update over any link, a USB camera, a heap, a driver of flash chips.  This
directory holds TLA+ modules for its state machines and concurrent data
structures, the TLC runs that check them, and TLAPS proofs.  Paths below are
relative to `components/`.

* [1. The system](#1-the-system)
* [2. Modules and the code](#2-modules-and-the-code)
* [3. Runs](#3-runs)
* [4. Where code and documentation disagree](#4-where-code-and-documentation-disagree)
* [5. Proofs](#5-proofs)
* [6. Assumptions and omissions](#6-assumptions-and-omissions)
* [7. Plan](#7-plan)

Each property stands in its module with a comment that says what it means;
`PROJECT.json` lists components, runs, hazards, theorems, a mutation each
property notices, and the source lines of every definition that models code.

## 1. The system

There is no main program: an application picks components, calls their
initialisers, and connects them to its interrupt handlers and tasks.  Components
rarely call each other; what makes them hard is who else touches their state.

| component | state | operations | who runs concurrently | what makes it correct |
|---|---|---|---|---|
| `lwrb` ring buffer | memory, indices `r` and `w` | write, read, peek, skip, advance, linear blocks, reset, full, free | one writer and one reader, task or interrupt handler or DMA, without a lock | neither side touches the other's bytes; a bounded FIFO of bytes |
| `lwrb_ex` | the same | overwrite, move | nobody: development only, not thread safe | a FIFO that drops its oldest bytes |
| `message_queue` | slots (data, len, argv, ready), two indices, heap blocks | MQInit, MQDeInit, MQEnqueue, PacketPoll | MQEnqueue from an interrupt handler at any point of a removal | a FIFO of packets; no block leaks; the buffer handed to the callback is left alone |
| `MODBUS` master | queue of telegrams, `i8state`, `u8Buffer`, semaphore, two timers, task notification | ModbusQuery, ModbusQueryInject, StartTaskModbusMaster, SendQuery, UART and timer callbacks | application tasks, timer service task, UART and DMA interrupts, slaves | every query ends, with its own answer or a true error |
| `MODBUS` slave | shared registers, semaphore, queue of written addresses, `u8Buffer` | StartTaskModbusSlave, validateRequest, process_FC* | the same, and the master | the registers of a request change together; the semaphore is always given back; silence unless asked |
| `MODBUS` receive buffer | 256 bytes, 8 bit indices and count, overflow flag | RingAdd, RingGetAllBytes, RingClear, getRxBuffer, RxEventCallback | interrupts fill it while a task empties it | a frame whole or an error |
| `ota` | packet state, image in RAM, `appFile.bin`, `status.txt`, flash slots | iapParser, iapCheckUpdate, boot_iapCheckUpdate, bootCheckUpdateApp, write_app_file, jump2APP | the host's packets, resets at any point | the slot in use can always be started, or the update be finished |
| `vfs` | files | save_file, append_file, save_file_end, wrappers of littlefs | tasks that share a file | a file reported written is complete |
| `heap` (lv_mem) | a pool of entries, header and data; a mutex; a count of frees | lv_mem_alloc, lv_mem_free, lv_mem_realloc, lv_mem_monitor, lv_mem_defrag | tasks; a block is cut without the mutex | the entries tile the pool; a block is one task's and keeps what it wrote |
| `button` | state, ticks, debounce and repeat counts per button | button_handler, button_ticks, start, stop | the tick's interrupt, callbacks | one event per gesture |
| `VIDEO` pictures | two frame buffers, FID and end-of-frame memory | video_stream_process_packet and its helpers | packets lost or flagged, the task that shows the picture | a frame that came whole is shown; the picture shown is left alone |
| `VIDEO` class | descriptors' tables, request state, stream state, counters of silence and errors | USBH_VIDEO_InterfaceInit, ClassRequest, InputStream, uvc_stream_stop, uvc_stream_resume, uvc_deinit | other tasks store the stream state between the host thread's reads of it; the camera is pulled out | asks for a mode the camera has; receives only from a stream that was opened; a silent stream comes back |
| `uart_idle_rx` | DMA buffer and counter | idle-line handler, restart | the DMA | no byte lost between packets |
| `w25qxx` | handle (interface, type, address mode, dummy clocks), sector buffer; the chip's registers and array | 60 functions, each a few commands; w25qxx_write | transfers that fail, a chip that is late, resets of either side | the handle agrees with the chip; reads deliver the array; a write replaces its bytes and no others |
| `algorithm` filters, `crc`, `crypto`, `encode`, `string_tools` | none or a sample window | pure functions | - | equal to their reference definitions |
| `mutex`, `flash`, `log`, `cm_backtrace`, `ws2812`, `QMI8658`, `delay` | devices, output | wrappers and drivers | - | see section 6 |

Hard behaviours: interleavings of a task with an interrupt handler that shares
its memory (`lwrb`, `message_queue`, `MODBUS`, `uart_idle_rx`); FreeRTOS
notifications that carry the value 0 and are lost when the task is not blocked,
timers that race with what they time, late and damaged answers (`MODBUS`); loss
of power between any two writes, repeated and missing packets, a host that
starts anew at any point (`ota`); a state both sides keep and nobody compares
(`w25qxx`); a lock that one call does without (`heap`); a variable several tasks
store and one acts on (`VIDEO`); narrow integers at the size of their buffer
(`MODBUS`).  `PROJECT.json` lists them as hazards, each at its line.

## 2. Modules and the code

    LwrbFifo     <= Lwrb           <- MCLwrb, LwrbProofs
    MessageFifo  <= MessageQueue   <- MCMessageQueue, MessageQueueProofs
    ModbusMaster                   <- MCModbusMaster, ModbusMasterProofs
    ModbusRequest <- ModbusSlave   <- MCModbusSlave, ModbusSlaveProofs
    ModbusRing                     <- MCModbusRing, ModbusMasterProofs
    Ota                            <- MCOta, OtaProofs
    NorStore     <= W25qxx         <- MCW25qxx, W25qxxProofs
    W25qxxChip   <- W25qxx
    LvMem                          <- MCLvMem, LvMemProofs
    UvcFormats, UvcStream <- UvcHost <- MCUvcHost, UvcHostProofs

(`A <- B`: B extends A; `A <= B`: B is shown to implement A.)

Operators named `..._Bug` are plausible faults of the code (a dropped guard, an
off-by-one).  They are used nowhere in the specifications; `PROJECT.json` pairs
each with the property that fails when it replaces the definition after it.

### Lwrb and LwrbFifo: `lwrb/lwrb/src/lwrb/lwrb.c`

`buff`, `r`, `w` are the handle's fields.  A call in progress on either side is
`wop` or `rop` with its locals: `wdata`, `wdone` (what is written, how much has
been copied) and `roff`, `rlen`, `rgot`.  One action is what a side does between
two accesses to shared memory: `WriteLoad` reads the reader's index and clips
the length, `WriteByte` copies one byte, `WriteStore` publishes `w`.  Likewise
for read, peek and skip.  Transfers in place are
`LinearWriteLoad` → `WriteByte` → `AdvanceLoad` (lwrb_advance clips again) →
`WriteStore`, and `LinearReadLoad` → `ReadByte` → `LinearSkipLoad` → `ReadStore`.  lwrb_init,
lwrb_free and lwrb_reset are allowed when both sides are idle, as
they are documented not to be thread safe.

`LwrbFifo` says what the application may think it has: every operation in one
step.  The refinement mapping `Pipe` is the bytes from `r` to `w`; a write takes
effect at the store of `w`, a read at the store of `r`, a peek when it returns.

### MessageQueue and MessageFifo: `message_queue/messageQueue.c`

A slot is a record of the fields of `dataqueueBuffer`; `blocks` counts the heap
blocks in use, `packet` is what the callback was handed.  PacketPoll is `Poll`
(the callback runs), then `DeleteData`, `DeleteReady`, `DeleteLen`,
`DeleteArgv`, `Advance`: the stores of dequeue, one at a time, because
MQEnqueue may run from an interrupt handler between any two of them.  MQEnqueue
is itself one step: it interrupts, and nothing interrupts it.  `EnqueueNoMemory`
is the failing malloc, which leaves the slot half changed.  `MessageFifo` is a
FIFO of `Size - 1` packets (of one for `Size = 1`), one of which may be with the
callback.

### ModbusMaster: `MODBUS/Src/Modbus.c`, `UARTCallback.c`

`pc` follows StartTaskModbusMaster through SendQuery and sendTxBuffer:
`idle` (wait for a telegram), `send`, `tx`/`txBlocked`/`txWoken` (the wait of 250
ticks for the end of the transmission), `tc` (the loop on the flag), `await`/
`blocked`/`woken` (ulTaskNotifyTake), `process`, `store`.  Blocking is a step of
its own: a notification that leaves the value at 0 (`eNoAction`,
`eSetValueWithOverwrite` of 0) wakes a task that is blocked and means nothing to
one that is about to block.  The timers are `T35Timer` and `TimeoutTimer`, their
callbacks actions that may come at any time.  `Answer` lets a slave send what it
was asked, damaged or cut short, and at any time, also long after the master
gave the query up; `LineNoise` is a few bytes from nowhere.  `xTypeHW`, how the
port is driven, is chosen once: by interrupt or by DMA.

### ModbusSlave and ModbusRequest

`ModbusRequest` has the arithmetic of validateRequest with its widths, the
registers each process_FC touches, and the length of the answer; it has no
state.  `ModbusSlave` has StartTaskModbusSlave around it: `TakeFrame`,
`Dismiss` (not for us), `Reject` (an exception), `Accept`, `Lock`, `Write` one
register after the other, `Send`, `Finish`; and the application that takes the
semaphore and the queue of written addresses.  Register contents are the
request that wrote them last.  Frames come at any time: the master need not
wait for its answer.

### ModbusRing

RingAdd, getRxBuffer with RingGetAllBytes and RingClear, and the DMA's
HAL_UARTEx_RxEventCallback.  `U8` is the number of values of a `uint8_t` and
`MAX_BUFFER` the size; both are 256 in the repository, and equal here
(`CountWraps`).  `received` is history: what came since the last getRxBuffer.

### Ota: `ota/iap.c`, `iap_littlefs.c`, `iap_md5.c`, `stFlash.c`, `vfs/vfs.c`

An image is a sequence of pieces (a packet, a write of save_file and a write to
flash each hold one).  `status` is `status.txt`, `update_pack` its copy in RAM;
`slot[s]` is the flash.  `mode` tells the boot loader from the application and
`pc` where its update check is; `Reset` may come at any time.  iapParser
(`DataStart`, `DataStartRefused`, `DataSending`, `DataOver`) runs at any point of
the application's check, as another task would, and between the boot loader's
steps.  save_file is a step per piece, synced, with failure; save_app_update_status
may fail unnoticed (`SaveStatus`); a write to the flash may fail up to four
times.  `Alike` is strncasecmp on binary digests, under which different
contents can be equal.

A slot is an array of pieces cut into sectors.  FLASH_If_Erase erases from the
slot's first sector to the one that holds the end address, which may be one of
the next slot (`Reached`, `ErasedTo`), and may stop anywhere; the end address
comes from packageLen, while write_app_file goes by the size of the file, and a
DATA_START in between changes the one and not the other.  Writing is a step per
piece over whatever the erasure left.  save_app_temp and write_app_file have no
check for room: `MAX_DOWNLOAD` is what a host sends at most with one download,
what it repeats included, and no more than the RAM or a slot holds; `CACHE`, the
RAM, may hold more than a slot, as in the repository (1 MB against 512 and 384
KB).  `inPlace` is a host that may name the slot in use; one
that does not always names the other slot.

### W25qxxChip, W25qxx and NorStore: `w25qxx/src/driver_w25qxx.c`

`W25qxxChip` is the chip as its data sheet has it, which is not in the
repository: `Understands` says when a command is taken at all (lines, busy,
power-down, length of the address), `Obeyed` what it does.  A byte is a set of
bits, so that programming only clears; a byte caught half way is `Torn`.

A function of the driver is a record: the commands it sends, whether it then
polls the status, what it returns.  `Outcomes` gives everything that can come of
it: each prefix of the commands with a failing transfer, a chip that stays busy
longer than the driver counts.  `Call`, `Read` and the actions after them are
the calls; `trust` is history, "in" as long as every call returned as it should
and none was one of those that move one side only.  w25qxx_write has steps
of its own: `WriteRead` (the sector), `WriteErase`, `WritePage`, `SectorDone`,
with faults between them.  `NorStore` is what its caller may expect of it: bytes
replaced in place, or a failure that costs at most the sectors of the request.

### LvMem: `heap/lv_mem/lv_mem.c`

The pool is an array of words; who wrote each is known, so that a header is told
from data.  `task[t]` is where a call has got to (`walk`, `merge`, `seek`,
`join`, `count` hold the mutex) and `heads`, history, is the set of entries a
walk reaches.  A walk is a step per entry (`WalkOn`, `Seek`, `Count`), a join a
step per entry (`Joins`).  lv_mem_realloc compares sizes without the mutex; it
cuts a block by two stores, `lv_mem_realloc` and `Shrink`, between which other
tasks walk, and grows one by allocating, then `Drop`.  `joining` is whether
`LV_MEM_AUTO_DEFRAG` was defined.

### UvcFormats, UvcStream and UvcHost: `VIDEO/Src`

`UvcFormats` has no state: how descriptors fill the tables, which alternate
setting has the widest endpoint that fits, which format and frame are asked for.
`UvcStream` is video_stream_process_packet, one packet a step, over frames
numbered modulo the FID bit and cells that know their frame and place; `view` is
what a perfect receiver would hold.  `UvcHost` extends both with the class: a
pass of the host thread (`Pass`) reads the stream state and acts on it later
(`doing` is what it is about), so that `uvc_stream_stop` and `uvc_stream_resume`
store between; `ClassRequest`, `Start`, `StartStream`, `Stop`, `StartIn`, `DataIn`
with their ends `...Done` are its states.  The camera sends, ends frames
late, flags packets, falls silent, is pulled out.

## 3. Runs

Deadlock is checked in every run but `video`, which stops when nothing is plugged
in any more.
No run uses symmetry: the constants are few, or enter arithmetic.

| run | shows | bounds | states |
|---|---|---|---|
| `lwrb` | separation of writer and reader, no clipped transfer in place, the FIFO | memory of 3, two byte values | 55,802 |
| `mq` | the FIFO, blocks, the callback's buffer; liveness: no packet stranded | 3 slots, lengths 0 to 2 with a buffer of 1, one arrival within a removal | 2,421 |
| `master` | the state machine is ready after every outcome; by interrupt a timeout is real; liveness: by DMA every query that is sent is answered | two tasks, one injecting, queue of one, a slave and a broadcast, late, damaged and merged answers, both receptions | 300,600 |
| `master_late` | violation, section 4 | two tasks with a slave each, queue of two | |
| `master_stuck` | violation, section 4 | as `master_late` | |
| `slave` | whole writes, semaphore, silence, what accepted requests touch and answer; liveness: semaphore returned | 130 registers, seven requests at the limits, queue of one, both receptions | 103,002 |
| `ring` | violation, section 4 | 3 bytes, a count of 3 values, frames up to 7 | |
| `ota` | the slot in use whole; an update in place resumable; what was asked is installed | 2 downloads of up to 3 pieces, RAM of 5, slots of 4 in two sectors, images of 1 and 3 | 1,966,326 |
| `ota_full` | violation, section 4 | as `ota`, slots of 3 | |
| `flash` | handle and chip agree, reads right, a write implements `NorStore` | 2 banks of a sector, 2 pages of 2 bytes each, a bit to a byte, five scenes | 60,553 |
| `heap` | the pool tiled, blocks intact; liveness: every call returns | 6 words, two tasks, sizes 0 to 2, every second free a full defragmentation, with and without joining | 190,550 |
| `video` | the mode asked for, whole frames, the picture untouched; liveness: a silent stream comes back | four cameras, frames of 2, 3 and 5 cells in buffers of 3, packets of 2 | 229,418 |

Why the bounds are enough to be of interest:

* `lwrb`: three bytes of memory have every relation of `r` and `w` and a block
  that wraps with a byte on each side; two values tell a byte from a stale one.
  The proofs of section 5 remove the bound.
* `mq`: three slots hold two packets, so that full, empty and wrapped occur, with
  one packet in the callback and another arriving.  `Burst` bounds the packets
  that arrive between the stores of one removal.  With two, or with a queue of
  one slot, the ring breaks: see section 4.
* `master`: two tasks contend for the queue, one telegram overflows it and is
  injected past; the answer of one slave, a late one of an earlier query and noise are what
  the single receive buffer can hold.  In `master_late` and `master_stuck` every
  telegram fits the queue and has a slave of its own, so that nothing but the
  late answer and the lost notification is in the way of the properties.
* `slave`: 130 registers are more than an answer of 256 bytes holds.  The requests are
  one of each kind that takes a path of its own: two registers, whose write
  is not atomic; one register more than fits the answer; coils that begin in the
  last register and end behind it; three broadcasts, one of which reads and one
  of which ends behind the last register; one to another slave.  The proofs of
  section 5 remove the bound.
* `ring`: with as many values of the count as bytes in the buffer, as in the
  repository, any size will do.
* `ota`: `Downloads` (bound on DATA_START) of two lets a second overtake a first
  at each of its steps; `MAX_DOWNLOAD` leaves the shorter image two surplus pieces;
  slots are one piece longer than the longest download and have a sector that
  the shorter ones do not reach.  Both slots are as long as the shorter is.
* `flash`: two banks tell three-byte addresses from four-byte ones, two pages and
  two sectors (one per bank) make writes that cross each boundary.  A behaviour
  keeps to one scene of `MCW25qxx`: `modes` (every change of mode, and reads),
  `locks` (protection), `alter` (erasing and programming), `data` and `guard`
  (w25qxx_write with every fault, on an open and a protected chip).  All faults
  are in every scene.
* `heap`: in six words there are three entries of one word each, so that a block
  has neighbours on both sides, can be cut to leave a header, or a header and
  data, and can be joined twice.  The proofs of section 5 remove the bound.
* `video`: the buffer holds three cells, so that a frame of two is short, of three
  fits, of five does not; packets of two make the last one partial.  The settings
  of `MCUvcHost` share out the faults: pictures with one or two faults of the
  bus, three calls of stop and resume against two silences, a camera nobody
  listens to, and cameras that have no picture to offer, too many formats, or
  no endpoint that fits.  `SilentWindows` and `OpenTries` count as in the code,
  to one.

### Fairness

* `MessageQueue!FairSpec`: weak fairness of `Consumer`: the application keeps
  calling PacketPoll and callbacks return.  Nothing is said of producers.
* `ModbusMaster!FairSpec`: strong fairness of the master's task: it waits for the
  semaphore with `portMAX_DELAY`, which other tasks take and give over and over,
  and FreeRTOS serves the waiting tasks in turn by priority and time.  Weak
  fairness of giving the semaphore back, of both timers and the end of a
  transmission.  Nothing makes a slave answer.
* `ModbusSlave!FairSpec`: the same for the slave's task.
* `LvMem!Spec`: weak fairness of each step of a call that has begun, and strong
  fairness of `Drop`, which waits for the mutex: the others hold it for a
  bounded walk, and FreeRTOS hands it to who waits.
* `UvcHost!Spec`: weak fairness of the host thread ("MUST be called frequently!",
  usbh_video.c:331), of a camera that is plugged in being initialised, of one
  that is not silent sending, and of the application starting over once it
  is told of an error.  Nothing makes a silent camera speak; it does so when its
  stream is started anew.

## 4. Where code and documentation disagree

Four of these are runs that end in a counterexample:

* `ota_full`: FLASH_If_Erase erases the sector of its end address, and iap.c:179
  passes the first address behind the image.  An image that fills its slot
  costs the next slot its first sector; when that slot is in use, the device
  does not start again.  iap.h:158 ends a slot one byte earlier.  The RAM for the
  image holds more than a slot and keeps nobody from sending one that long.
* `ring`: `u8available` is 8 bits wide and `MAX_BUFFER` 256, so that the test for a full
  buffer (Modbus.c:130) never holds: a frame of 256 bytes is taken for nothing, and of
  a longer one what is left after a multiple of 256.  Modbus.c:1329 promises
  `ERR_BUFF_OVERFLOW`.  The longest answer the slave's own checks allow, to a
  request for 2008 coils, has 256 bytes.
* `master_late`: validateAnswer (Modbus.c:1277) looks at CRC, function and exception,
  not at the address; Modbus.c:1176 says "validate message: id, CRC, FCT,
  exception".  Slave 1 answers after its query timed out, and while the
  query to slave 2 waits: the answer is stored as slave 2's.
* `master_stuck`: vTimerCallbackT35 (Modbus.c:462) stops the timeout and notifies with 0.
  If the task has not blocked yet, nothing wakes it again; Modbus.c:1134 says
  "Block indefinitely until a Modbus Frame arrives or query timeouts".  By DMA
  nothing stops the timeout early, and every query that is sent ends
  (`DmaQueryAnswered`).

These were met while modelling and are in the models, without a run of their own:

* By DMA, an answer that is too short ends the query but not its timeout
  (Modbus.c:1164, against :1139): the next query may be told `ERR_TIME_OUT` at
  once: `TimeoutIsReal` is about reception by interrupt only.
* Requests for one register or for coils are accepted one register too far
  (Modbus.c:1435, :1448, :1454; "verify address range"), and no further
  (`RegistersInRange`).  The quantity is not compared with the length of
  the frame (:1373 against :724).
* SendQuery refuses address 0 (Modbus.c:877) although Modbus.h:126 names 0
  as the broadcast's; the master ignores the refusal and waits, without a
  timeout, for a frame (:1133).  `DmaQueryAnswered` excepts it (`NeverSent`).
* ModbusQueryInject drops the telegrams that wait (Modbus.c:821); their tasks are
  not told.
* An exception is five bytes long, and frames below six are `ERR_BAD_SIZE`: the
  master never reports an exception (Modbus.c:1164).
* By interrupt, the slave misses the end of a frame in the same way as the
  master, until the next frame; no property is about it.
* A message queue with room for two packets that arrive between the store that
  clears `ready` and the one that moves `readIdx` (messageQueue.c:45) takes one
  packet too many and then looks empty; so does a queue of one slot.
* `ota`: `isCheck = 0` leaves out the new digest but not the check against the
  old one; a packet of more than 4096 bytes leaves a gap; a length that is no
  multiple of four loses its last bytes in the flash; the boot loader records
  the update of an image it holds only in RAM, and after a reset looks for a
  file.
* `w25qxx`: init by QSPI on a chip whose QE bit is clear sends the command that
  sets it without its data byte (driver_w25qxx.c:7099), and so always fails.
  power_down by QSPI has the chip leave QPI and then sends the command on four
  lines.  enter_qspi_mode leaves the handle at SPI, and exit_qspi_mode then
  refuses.  Resetting the chip takes it back to three-byte addresses, the
  handle stays at four.  deinit never clears `inited`, nor does an init that
  fails (:6870).  After a timeout the next call's commands are ignored by the
  busy chip and may return 0.  On chips from W25Q256 up in three-byte mode, a
  lock of one block loses its write enable to the command that sets the
  fourth byte of the address.  The interface of this board carries plain SPI
  only (w25qxx_interface.c:387), so that every dual and quad function fails.
* `heap`: `LV_MEM_AUTO_DEFRAG` is defined nowhere: entries are split and never
  joined, and the pool wears down to small ones.  lv_mem_lock disables
  interrupts before it takes a mutex that blocks; nobody calls it.
  Rounding up a size near 2^32 wraps to 0 (lv_mem.c:184).
* `VIDEO`: a stop or resume stored while the host thread asks the camera is
  overwritten (usbh_video.c:421): the stop is lost.  Nothing watches a camera
  that is silent while a setting is selected.  `uvc_err_cnt` is not reset on
  resume.  A lost end of frame merges two frames and the merged one is shown
  (`ShownWhole` calls it hurt).  A frame too large may be shown with the tail of
  an older one.  A flagged frame is not shown and still has the buffers
  change places, so that the next one is assembled over the picture last shown.
  `(size < 2) && (size > LIMIT)` never holds.  Frames of formats that no longer
  fit the table go to the last format stored; FindStreamingIN writes past five
  entries.  uvc_deinit frees the intervals twice and uses its handle after.
  uvc_stream_stop and uvc_stream_resume dereference NULL without a camera.

## 5. Proofs

### The ring buffer for every size (`LwrbProofs`)

Assumption: `Size \in Nat \ {0}`; any set of bytes.  Theorems: `TypeCorrect`,
`WriterSafe` (`UnreadUntouched`), `ReaderSafe` (`ReadsPublished`), `LinearSafe`
(`LinearInBounds`), `NeverClipped` (`InPlaceNeverClipped`) and `Refinement`
(`ImplementsFifo`).  They rest on `Invariance`, `Spec => []IInv`.

The safety properties are not inductive: that a byte copied lands in a free slot
follows from what was computed some steps ago from an index that has moved
since.  `IInv` adds to the types:

* `Claims`: the write in progress is no longer than what is free *now*, and the
  block to be read lies within what is full *now*.  Each side moves its index
  only in the direction that gives the other side more.
* `WriteLocals`, `ReadLocals`: what the locals are at each point of a call; a
  block in place does not pass the end of the memory.
* `Written`, `Got`: the bytes copied so far are those they should be; the other
  side never stores into them (`FreeNotUnread`, `WrapAddInjective`).

The lemmas on top are the index arithmetic of lwrb.c: that full and free add up
to `Size - 1`, that storing and taking n bytes changes them by n, and that
slots of the free and of the full part differ.  There is one lemma per
action, then `NextInv`.  The refinement goes by the same cases: each byte copied
is a stutter of the FIFO (`WriteByteStutters`), each store of an index one of
its steps (`WriteStorePuts`, `ReadStoreGets`, `PeekReturnPeeks`).

### The message queue (`MessageQueueProofs`)

Assumption of each theorem: `Spacious`, at least two slots and at most one packet
arriving between the stores of a removal; without it the ring does break (section
4).  Any set of packets, any lengths, both memory schemes, failing allocations.
Theorems: `NoGap` (`ReadyContiguous`), `BlocksAccounted` (`BlocksOwned`),
`CallbackSafe` (`PacketInPlace`), `Refinement` (`ImplementsQueue`).

Everything follows from where the ready slots are: `InRing`, those nearer to the
oldest than writeIdx is.  While a packet is removed, its slot is no longer ready
and readIdx still names it; that one more slot is free then (`Room`) is what
keeps a packet that arrives late from the slot being cleared, and why two break
it.  `Clean` says what a slot that is not ready still holds, `Counted` that heap
blocks and slots agree.  The refinement maps each store of a removal but one to
a stutter.

### The Modbus master (`ModbusMasterProofs`)

Any set of tasks and telegrams, any length of the queue, either reception, slaves
that answer late, damaged, cut short or not at all.  Theorems, from `Invariance`:

* `AlwaysReady` (`ReadyForNext`).  That a query starts with the state machine idle
  has to be known of every place the task can be in: `InCycle` says at which
  ones an answer is waited for and at which the semaphore is held.
* `TimeoutsReal` (`TimeoutIsReal`), for reception by interrupt.  A notification of
  a timeout must not be left over from an earlier query; by interrupt the end of
  any frame stops the timer, so that it runs only while the task waits
  (`Watching`).  By DMA nothing stops it for a frame that is too short, and the
  property does not hold (section 4).

`AnswerMatchesQuery` and `QueryAnswered` do not hold (section 4).

### The Modbus receive buffer (`ModbusMasterProofs`)

Assumption of each theorem: `CountWraps`, the repository's relation of the two
sizes: the count has as many values as the buffer has bytes, and frames may be
longer.  Any size, any set of bytes, both receptions.  Theorems, from
`RingInvariance`: `RingTypeCorrect` (`RingTypeOK`), `OverflowNeverSeen` (`NeverFull`: no
overflow is ever noted), `FramesIntact` (`FrameIntact`: a frame shorter than the
buffer is handed over whole), `NeverStale` (`NothingStale`: of a longer one, its
end, and never a byte of an earlier frame).  They say exactly how much of the
promise of Modbus.c:1329 is left.  The invariant says where the last bytes
received lie, the count being their number modulo the size.

### Requests and the slave (`ModbusSlaveProofs`)

Requests: for every number of registers and every address and quantity of 16
bits, `RegistersInRangeAlways` (`RegistersInRange`) and `AnswerFitsAlways`
(`AnswerFits`), of the requests the slave accepts and processes; the latter for
a buffer of 256 bytes or more and up to 32,765 registers, above which the length of an
answer wraps in its 16 bits (Modbus.c:1462).  The wrapping sums of
`validateRequest` are taken apart case by case.

The slave: for every number of registers, set of requests and length of the
queue, `WholeWrites` (`WritesAreWhole`), `SemaphoreDiscipline` (`SemaphoreHeld`) and
`SilentUnlessAsked` (`SpeaksWhenAsked`).  The invariant: while a request is being
written, each register it touches has either the new value or is still to be
written (`Progress`); the semaphore is held exactly while a request is processed
that was accepted (`Held`); whom the frame was for, at each point of the loop
(`Attending`, `Excepting`).

### The update (`OtaProofs`)

Any images, any digests, told apart or not, any number of downloads, any sizes
of the RAM, the slots and their sectors, and a host that sends no more than fits
(`MAX_DOWNLOAD`, which may be a whole slot).  Theorems: `AlwaysStarts`
(`ActiveSlotWhole`) and `AlwaysResumes` (`Resumable`) under the assumption
`DownloadFits`, that the host sends less than a slot with each download; what
happens otherwise is `ota_full`.  It is an assumption about the host: nothing in
the code sees to it.  `InstallsWhatWasAsked` (`InstalledAsAsked`) and the
invariant need no more.

The copy of the status in RAM, which the host's packets change at any time, and
the file, which survives a reset, drift apart and meet again; the invariant says
when they agree (`Loaded`), that an update is for the other slot from its
announcement to its end (`Away`), that what is written has the digest asked for
(`Checked`), and that while an update in place has left no whole image in its
slot the file holds one and the status asks for it (`Resume`).

### The flash driver (`W25qxxProofs`)

Assumptions: pages divide sectors and sectors divide banks; writes are not empty
and end within the two banks (`GeometryAssumption`, `CallsAssumption`).  Any size
of page, sector and bank, any contents, any failures of the bus, the chip, the
supply and the processor.  Theorems: `TypeCorrect` (`TypeOK`), `StaysInStep`
(`InStep`), `ReadsWhatIsThere` (`NeverMisread`), `Refinement` (`WritesInPlace`).

* `Known` is what is true between two steps of a handle that is trusted: how the
  chip is to be spoken to.  Most functions are `Tame`: any prefix of their
  commands, whichever of them fail, leaves that as it is, and what differs from
  call to call is only what they do to the array.  The others change the
  interface or the length of addresses on both sides, or give up trust.
* Every read function gets its address through `Place`, the cell an address
  names in the chip's mode and bank; in step it is the one that was meant.
* `Underway` is what the record of a write may be: the rest of the request, how
  much of this sector it covers, the page in progress.  `Faithful` is what the
  array holds by then: the request up to the sector in progress and what was
  there before from its end on, and in between the pages written and the
  erased ones (`OnCourse`).  Pages and sectors are taken apart by `Division` and
  `Quotient`, the facts of division by a parameter.
* The refinement takes the driver's steps one at a time: commands that touch the
  array are `Work` within the touched sectors, the last page is `Done`, anything
  that breaks off is `Failed`.

### The pool (`LvMemProofs`)

No assumption beyond that the pool has two words and counting starts at one.  Any
number of tasks, any sizes, with and without joining.  Theorems: `AlwaysTiled`
(`Tiled`), `AlwaysIntact` (`BlocksIntact`).

The two properties are nearly inductive; what is missing is what each call relies
on between its steps.  Who walks holds the mutex (`Locked`, `Holder`), so that
one task at a time splits or joins; what is being joined is free and its next
neighbour is where it ends (`Joining`); a block that grows is still its task's
(`Growing`).  A block cut outside the mutex already has the new header inside
its data and still its old size (`Cutting`): until the second store no walk sees
that header, and it lies in nobody else's entry (`Region`, `Elsewhere`).  The rest
is arithmetic of intervals, one lemma per step.

### The camera (`UvcHostProofs`)

No assumption beyond the bounds on the constants and the types of the
descriptors: any set of cameras, any number and order of descriptors, any sizes
of buffers, packets and frames, any number of faults and of calls to stop and
resume.  Theorems:

* `Receives` (`ReceivesWhileStreaming`), `Untouched` (`PictureUntouched`), from
  `Invariance`.  The invariant names which states the stream can be in while a
  pass of the host thread acts on one it read before (`Passes`), that the mode was
  committed before its setting was selected (`Committed`), and that the picture
  handed over lies in the buffer that is not being filled (`Kept`).
* `ShowsWhole` (`ShownWhole`): what is shown is a frame that came whole, and such a
  frame is shown.  The parser sees packets, the property speaks of frames, so
  the invariant follows a frame on its way: the packet received is what the
  camera sent before it went on (`InFlight`); parser and observer have seen the
  same packets, except for the FID of a frame whose end came in a header of its
  own (`Viewed`); what has come whole so far is in the buffer as it was sent, if it
  fits, and goes on with what comes next (`Gathered`); and as long as nothing was
  missed, the buffer is one frame from its first cell on (`Assembled`).
* `AsksRightly` (`AsksForWhatIsOffered`), for cameras that list a format first and
  no more than the table holds (`Orderly`): the table after i descriptors holds just
  the formats among them in their order and the frames of each (`Tabled`), which
  `TabledFormat` and `TabledFrame` show for one more descriptor.  That this covers
  all of them is an induction over the set of the numbers for which it holds
  (`StepByStep`, from the least number of a set): one over an operator is beyond
  the provers.

### What is only model-checked

Liveness under fairness (`NoPacketStranded`, `DmaQueryAnswered`, `SemaphoreReturned`,
`CallsReturn`, `StreamComesBack`): TLAPS does not reason about
ENABLED.  Every other property of a passing run is a theorem, with the conditions named
above.

## 6. Assumptions and omissions

* `lwrb`: `LWRB_DISABLE_ATOMIC` makes the indices plain words.  On the single
  core STM32 accesses are seen in program order; the compiler keeps that order
  because the bytes are stored through a pointer to characters, which may alias
  the indices.  The event callback and lwrb_find are left out.
* FreeRTOS and the HAL are modelled by what the code relies on: notifications,
  semaphores, queues, one-shot timers, a transmission that ends.
  `TIMEOUT_MODBUS` is longer than what can keep the task from running between
  starting the timer and waiting for it (`TimeoutCallback`).
* getRxBuffer is one step: by interrupt it stops reception itself; by DMA
  nothing protects it, and the model assumes no frame comes while it copies.
* The 3.5 character timer may run for any time: `T35Callback` of a frame that began
  before a query was sent may come after it.
* `ota`: the host's program and the boot loader's main loop are not in the
  repository; the boot loader jumps after its checks.  Digests are as good as
  `Alike` says.  The check of the image in RAM is one step although it yields
  to other tasks while it runs: what changes after the check has the same effect.
  Starting a slot that is not a whole image hangs (`hung`) until a reset.
  `Resumable` excepts four failed writes, a new download before the boot loader
  has tried again, and an image taken from RAM (`lost`).  The host sends no more
  with one download than the RAM and a slot hold (`MAX_DOWNLOAD`).
* `w25qxx`: the chip is modelled after the family's data sheet.  Contents of
  status registers are the bits the driver's own behaviour depends on.  Of
  driver_w25qxx_advance.c the wrappers that only pass a call on are left out.
* `heap`: words, not bytes; no memory outside the pool; m_malloc and m_free are
  lv_mem_alloc and lv_mem_free.  lv_mem_realloc with a block of size 0
  (`zero_mem`) reads the word before it; the model has no such block.  The
  statistics and memcpy are left out; lv_mem_test and lv_mem_defrag are public
  and unlocked, and called by nobody outside.
* `VIDEO`: uvc_stream_stop and uvc_stream_resume are one store each, called only
  while a camera is attached; the application answers an error by starting over;
  a control transfer succeeds or fails as a whole; the callback and the buffers
  are set before.  The intervals of a frame are a flag, "the wanted rate is one".
* A checksum tells a damaged frame from a whole one; contents are model values.

Not modelled: `lwrb_ex` (switched off by `#error` outside its development build);
Modbus by USB-CDC and TCP (switched off in the configuration) and the direction
pin of RS485; the update without a file system (another build) and two functions
nobody calls; `log`, `cm_backtrace`, device drivers (output and registers);
`crc`, `crypto`, `encode`, `string_tools` (pure functions on bytes); `button`,
`uart_idle_rx`, the filters and most of `vfs`, which section 7 names.

Hard spots no property covers:

* lwrb_find reads `r` again for every position (lwrb.c:584): only the reader's
  side may call it.
* With allocation per packet the terminating zero is stored past the block of
  the packet (messageQueue.c:111).
* ModbusQueryInject drops the telegrams that wait (Modbus.c:821); a frame with a
  bad CRC is answered by an exception (Modbus.c:728).
* The boot loader writes a slot from the RAM iapParser fills (iap.c:536): there is
  no host in the boot loader that could send then.  Digests are compared by
  strncasecmp although they are binary (iap_md5.c:23).
* Bytes that arrive while UART_IDLE_Callback sets the DMA's counter anew are
  lost or counted to the next packet (uart_comm_helper.c:55).
* append_file goes on with the next piece after one failed (vfs.c:344).
* `mutex/c_mutex.c:8` assigns the new semaphore to its own parameter, so that lock
  and unlock never do anything.

## 7. Plan

Done: `Lwrb` and its FIFO; `MessageQueue` and its FIFO; the Modbus master, slave,
requests and receive buffer; `Ota` over two slots and a file; the flash driver;
the pool allocator; the camera.  Each has proofs of its safety properties, and
the three that implement an abstract specification a proof of that.

What would come next, in order of importance:

1. `Vfs`: append_file and save_file_end, whose failures leave a gap in a file
   reported as written; composed with `Ota` in place of its `AppSavePiece`.
2. `Button`: button_handler with ticks; one event per gesture, repeats counted.
3. `UartIdleRx`: bytes arriving between reading and restarting the DMA, in front
   of a `MessageQueue`.
4. lwrb_find, `lwrb_ex` and the filters as operators on sequences.
