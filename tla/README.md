# SCODE wall controller: specification and proofs

The wall controller is a Zephyr application for an NXP MCXA156: a display with an
encoder knob, a CAN node of an audio system, a firmware-update client and a file
service for a PC on a UART (`src/hello_world/`). This directory holds TLA+ modules
translated from its C sources, the TLC configurations that check them on small
instances, and proofs, checked by TLAPS, of what must hold for all of them.

File names below are relative to `src/hello_world/src/`.

## 1. The parts of the system

| Component | State | Operations | Modelled |
|---|---|---|---|
| Firmware-update session, `Bootloader_Controller/` | session state, announced image, packet counters, lost-packet list, running CRC, flash area, report to retransmit, two deadlines | new image, packet, end, stop, lost-packet report and its acknowledgement, recover, state time-out, report time-out, reboot | `Bootloader` |
| CAN controller, `CAN_Controller/` | two receive queues, failure latch | bootloader thread, frame parsing, answer, send, report of a failed bus | its thread in `Bootloader`, sending and the latch in `CommTransactions` |
| Communication manager, `WallController/WallController_Comm_Manager/` | table of transactions, one mutex each, revision per command, permanent-failure flag | subscribe, transmission complete, ACK/NACK, time-out scan, back-off | `CommTransactions` |
| Bulk transfer and LittleFS files, `ExtFlash_Controller/LittleFsController/` | transfer state, error, queue of 10 messages, worker thread, cleanup work item, file table | start, data, end, worker loop, cleanup, create/read/write/delete | `BulkTransfer` (the transfer) |
| PC UART hub and services, `PC_UART_API/` | selected operation, bulk-session flag, bridge queue of 8 frames | select, release, bulk start/data/end, config read, CAN bridge | `UartHub` |
| Audio-source configuration, `ExtFlash_Controller/AudioSrcConfiguration/` | four records in RAM and four files, a selection mutex, four source mutexes | load, select, unselect, mute, volume, replace a record, read the selected one | `AudioSources` |
| Wall-controller state machine, `WallController/WallController_StateMachine/` | state, first-entry flag, one flag per command | run, set command | in `Screens` |
| Screens, `LVGL_Controller/` | active screen, one pending transition, encoder queue of input events, contexts and delayed works of the screens | request, activate, run, submit input, handlers of seven screens | `Screens` |
| External flash driver, `ExtFlash_Controller/` (SPI, read/write, Zephyr middleware) | set-up flag, semaphore and result of the transfer, receive buffer | set-up, page program, sector erase, read, WEL/busy polling | `FlashDriver` |
| LittleFS/LVGL adapter, text animator, start-up, standalone stubs, test drivers, host tools | none of interest | | no |

How they interact. CAN frames reach two threads through message queues: one hands
bootloader messages, one at a time, to `vUpdateBootloader`; the other serves the
transactions of the communication manager, which transmit through the CAN
controller and hear of the result in a driver callback. Time-outs of the bootloader
and the delayed works of the screens run on the system workqueue. A PC selects an
operation on the UART hub: the bulk service feeds the LittleFS producer, whose worker
thread writes the file, or the bridge exchanges CAN frames. Screens and the state
machine read and update the audio-source configuration, which writes its records
through the LittleFS file service, which is refused while a bulk transfer is active.

At this commit `main.c` starts the PC UART and an I2S demonstration; the initialisation
of the other parts is commented out. Their code is complete and is what is modelled.

What is hard in it: the preemption of a handler between reading a state and acting on
it; time-outs that race the message they wait for; packets lost, repeated and out of
order; a reset at any moment around flash writes and the upgrade request; queues and
lists at their limit; operations that fail in the middle. `PROJECT.json` lists each at
its line, with the properties that watch it.

What makes each part correct:

* firmware update: only an intact image is ever activated; recovery is exact; a session
  always ends; the host is told the truth;
* communication manager: a transaction belongs to one sender at a time, is acknowledged by
  the answer to its own message, completed once, and none waits for ever;
* bulk transfer and hub: a file exists complete or not at all; the hub is idle only when
  no session is active; one worker at a time; a call that returns, and a transfer that ends;
* audio sources: never two selected sources, in RAM or after any loss of power; RAM and
  files agree when nothing is in progress; no deadlock among the mutexes;
* screens: a granted request is activated; nothing of a screen that was left acts on the
  next one; only a silent source is muted;
* flash driver: success is only reported for what was done; nothing else is touched; every
  operation returns.

## 2. Plan

1. **Done:** `Bootloader` (below), its abstract specification `FirmwareUpdate`, and
   `BootloaderProofs`.
2. **Done:** `BulkTransfer` (caller, worker, cleanup work item), `UartHub` (operation
   selection, session flag, dispatch) over it, and `BulkProofs`.
3. **Done:** `CommTransactions` (senders, driver callback, system-management thread) with the
   failure latch of `CAN_Controller.c`, and `CommProofs`.
4. **Done:** `AudioSources` (two clients, one mutex level above the other, two-file
   selection, loss of power) and `AudioProofs`.
5. **Done:** `Screens` (requests, seven screens, delayed works, input queue) with the
   wall-controller state machine, and `ScreenProofs`.
6. **Done:** `FlashDriver` down to the transfers of `SPIController.c`, and `FlashProofs`.
7. **Done:** the proofs that rest on those of steps 1 and 2: `SessionProofs` (lost list,
   answers, reports, single writes, the refinement of `FirmwareUpdate`) and `HubProofs` (the
   transfer below the hub). Every safety property a passing run checks is now a theorem.

## 3. The modules

### Module `Bootloader`

Threads. `btl` is the CAN bootloader thread; `wq` is the system workqueue, which runs
`vBtlState_TimeOutHandler` and `vBtlTxTimeOutHandler`. The workqueue is cooperative and
has the higher priority, so `btl` moves only when `wq` has nothing to do or waits for
the mutex `btl` holds (`MayRun`). Each thread has a program counter `pc`; a handler is
cut at the points where it takes or has released `kMutex_BootloaderSession` and where it
calls something that blocks (the erase of the slot). The lock itself is a variable
(`owner`): what a handler reads before it takes the lock may be stale when it uses it.
The sections under `mutex_LockLostPacket` are single steps.

| Variable | Code |
|---|---|
| `eBtlState` | `stTBtlMgmt_t.eBtlState` |
| `img` | announced size and CRC; `sTFWImg` (`uiNextId`, `uiLastId`, `uiReceivedByteCount`, `uiRunningCRC`, lost packets) |
| `flashOpen` | `flashArea != NULL` |
| `tx` | `stTxLostPacketInfo`: the report and its retries |
| `timer`, `txWork` | the state deadline and the two delayable work items (delay running, queued) |
| `msg`, `ok` | the message in service and `bIsMsgOk` |
| `flash` | the image area of the secondary slot, a cell per packet |
| `requested` | the upgrade request MCUboot will act on |

Actions, by the function they stand for: `Receive`, `Dispatch`, `Reply`
(`vProcess_Bootloader_Messages`, `vUpdateBootloader`); `NewImage`, `NewImageRefused`,
`Erase`, `Start` (`vInit_BootloaderManager_ForNewFWImage`, `vErase_FlashArea`,
`vSet_BootloaderState`); `PacketStored`, `PacketRefused`, `PacketAborts`, `PacketFaults`
(`vUpdate_FWImage` and the helpers below it); `EndPending`, `EndCompletes`, `EndAborts`,
`EndRefused` (`vFinalize_FWImageWrite`); `Completed`, `RequestUpgrade`, `SetReboot`,
`ArmReboot`, `SysReboot` (the way to the reset); `Abort`, `Reinit`, `CancelWork`
(stop, error and recovery); `GetLost`, `GetLostBusy`, `HostAck`, `RetryTx`, `Schedule`,
`TxError` (the report); `ExpireState`, `ExpireTx`, `RunState`, `RunTx`, `StateTimeout`,
`TxTimeout`, `CancelTx` (time and the workqueue); `PowerLoss` (a reset at any step).

Abstractions.

* The bytes of a packet that lie inside the image are one datum, and the CRC is the
  sequence of data it was fed: equal CRCs mean equal images. What a collision would do
  is out of the model.
* Addresses are real: packet sizes, block sizes and the size of the slot are constants,
  and the test that a block leaves the slot is the code's.
* A call to the flash, to MCUboot or to the CAN driver that can fail fails
  nondeterministically; a failing write leaves its cell in an unknown state. `FHALT` is
  outside the sources; it is taken to return.
* `flash_area_write` through a NULL area reads from address 0: it either fails the
  bounds check or faults (`PacketAborts`, `PacketFaults`).
* `bIsFirstEntry`, `bIsFlashWritInProgress` and `bLostPacketDetected` are left out: no
  guard depends on them beyond what the program counter says.
* A malformed frame, the authentication commands and the format of the answers change no
  state and are left out.
* Seeded faults: an operator whose comment starts so is a plausible bug put beside the
  definition it would replace (`NoteGapShort` for `NoteGap`, ...). No specification uses
  it; it serves to confirm that each property notices the bug.

`FirmwareUpdate` is what a firmware update promises, in nine actions and three
variables: a slot is prepared, an image announced, each part goes into a blank cell, and
the swap is requested only for exactly that image. `ImplementsUpdate` maps the session
to it.

### Modules `BulkTransfer` and `UartHub`

Threads. `uart` is the PC UART thread, the only caller of the bulk interface; the worker
is the thread each transfer creates (priority 4, above the UART thread's 6); `wq` is the
cooperative system workqueue with the cleanup `vDataTransfer_TimeOutHandler`. A thread of
higher priority runs until it blocks, so a step of the worker or of the workqueue reaches
from one blocking point to the next (the queue, the mutex, a file-system call), and the
UART thread moves only while the others are blocked (`MayRun`). It may be overtaken between
any two of its own steps: `iSend_BulkTransferData` checks, puts, counts in three steps, and
`vEnd_BulkDataTransfer` is cut into fourteen. The lock is the variable `owner`; `Unlock`
hands it to the workqueue when that waits.

| Variable | Code |
|---|---|
| `bulk` | `stTBulkDataCtrl`: state, error, announced size and CRC, counters, running CRC, the three `bIs...` flags |
| `queue`, `done` | `stMsgQueue_FileTransfer`, `kSem_BulkWorkerDone` |
| `worker` | the transfer thread: dead, waiting for a message, writing one |
| `wq`, `owner` | the cleanup work item, `kMutex_BulkTransfer` |
| `uart` | the call in service, where it is and what it returned |
| `file`, `handle`, `listed` | the path as committed to flash, the open file, its catalogue entry |
| `orphaned` | the locks below the file system belong to a worker that was aborted |
| `taken`, `vouched` | history: data accepted in this transfer; content of the last acknowledged END |
| `eActiveOperation`, `bBulkSessionActive` | the same variables of the hub |
| `endAcked`, `offered` | history: the last answer was the ACK of an END; content announced by the last accepted START |

Actions. `Start*` is `bStart_BulkDataTransfer`, `Send*` is `iSend_BulkTransferData`, `End*`
is `vEnd_BulkDataTransfer`, `Worker*` is `vLittleFs_FileTransferMonitor`, `Cleanup*` is the
work item. In `UartHub` each operation of a frame is an action (`Select`, `Release`,
`Bridge`, `ConfigRead`, `BulkStart`, `BulkData`, `BulkEnd`), and the call it makes into the
file service is answered by `StartReply`, `DataReply` or `EndReply` when it returns.

Abstractions.

* A file is the sequence of units written to it and a CRC the sequence it was computed
  from, as in `Bootloader`.
* One path. LittleFS is external: an operation succeeds, or fails with or without its
  effect (`Deleted`, `Created`, `AfterClose`), and only what was synced or closed survives
  a power cut.
* The locks below the file system, LittleFS' own and `stFlashMutex` of the flash driver, are one
  flag, `orphaned`. A thread that works in the file system gives them back when its operation
  ends; only one that is aborted in it never does. Other holders (the records of the audio
  sources) delay an operation and are not modelled.
* A time-out may fire whenever the thing waited for is not there: its length is not
  modelled, so the order of time-outs is free.
* The bytes of a UART frame are not modelled: an invalid frame is answered with NACK and
  changes nothing, except the END with a payload, which is modelled.

What the abort of the worker may leave behind. END gives the worker two seconds to finish
(`LittleFs_Controller.c:247-263`) and then aborts its thread (292). A slow flash can take
longer: an erase alone is polled for up to 2000 ms. The worker may then be inside
`fs_write`, with the mutex of LittleFS and, below it, `stFlashMutex`, which
`iZephyrFlash_Write` takes with `K_FOREVER` and gives back only when it is done
(`ZephyrFlashMiddleWare.c:185-191`). The kernel does not release the mutexes of an aborted
thread. The `fs_close` of END (297) then waits for ever, with `kMutex_BulkTransfer` held:
the transfer does not end, the call does not return, and the cleanup and every later call of
the interface fail to get the mutex. Other users of the file system are refused, as the
transfer is never over (`bIsBulkTransferActive`), or wait as well if they had passed that test
before the transfer began. `EndKill` has both outcomes; `orphaned` is never reset but by a power cut. The liveness
properties name this state, `StuckInEnd`, as their one exception: nothing but it may keep a
transfer from ending or a call from returning. That is a limit of what the code promises,
not a contradiction of a comment or document (`PC_UART_Protocol.md:26` only says that an END
waits for the worker), so no run claims a violation. A worker that only waits for those locks
while another thread has them, or is in a part of its write that does not hold them, is
aborted without harm; that is the other outcome of `EndKill`.

### Module `AudioSources`

Threads. Each member of `Threads` is a caller: the main loop (screens and state machine),
the system workqueue (the delayed un-mute) or a PC service. The mutexes are one function
`lock` over `Locks`: `kMutex_AudioSrcSelection` is the lock below source 0, since it is taken
before any of `staAudioSrcMutexes`, which `iLock_AudioSources` takes in ascending order.
`Needed` says which of them an operation takes, `NextLock` which one is next.

| Variable | Code |
|---|---|
| `ram` | `staAudioSrcConfigs`, a record per source |
| `file` | the record file of each source, as it would be found at start-up |
| `lock` | owners of the mutexes |
| `cl` | where each thread is in its call, the source it found selected, the record it writes and the one it would restore |
| `up` | start-up has called `bLoad_AudioConfigurations` |
| `told` | history: the mute state and the volume a caller was told are stored |

Actions. `Call`, `NothingToDo`, `LockSelection`, `LockSource`, `Locked`, `LockTimeout`:
entering an operation, from the check under the selection mutex to the last mutex, with the
time-out of each. `NoChange`, `ChangeInRam`, `DropInRam`: what the operation finds once it
has them. `Dropped`, `DropFails`: the write of the source selected before. `Written`,
`WriteFails`: the write of the record itself, and the return. `PowerLoss`, `Load`,
`LoadRefused`. An operation is cut before every mutex and before every write; its releases
are one step with its return, as a release never waits.

Abstractions.

* A record keeps the fields an operation or a check reads. What
  `bDecode_AudioSourceConfiguration` accepts is the set `Records`; its CRC and the encoding
  are not modelled, and a record that cannot be read is the constant `ReadFaults`.
* A write takes effect as a whole or not at all, as LittleFS commits a file when it is
  synchronised or closed. It may fail without effect at any time (busy with a bulk transfer,
  flash error); with `LateErrors` also after its effect, since `iWrite_ToFileBin` calls
  `fs_stat` after `fs_sync` and `fs_close` and returns its error.
* Files are not written by anybody else: records a PC uploads by a bulk transfer are not
  read again until the next start-up, and such an upload is left out.
* `Load` runs before any caller exists; the code serialises it by start-up itself.
* The Bluetooth connection state (a single atomic), the copies made for the screens and the
  raw read of a record for the PC are left out.

### Module `CommTransactions`

Threads. Any number of senders subscribe and transmit, several of them for one command if
`Sends` says so; the completion callback of the CAN driver and the system-management thread
(answers, time-outs, subscription to a failed bus) work on the same table. A section under
the mutex of a slot is one step; what a thread does after it has unlocked is another:
`driver` and `sys` say where these two are.

| Variable | Code |
|---|---|
| `slot` | `staCMDTransactions`: state, command, retries, revision, generation |
| `uiaRevision` | the revision counter of each command |
| `sender` | where each sender is between `stSubscribe_To_TransactionManager` and the result of its transmission, and its slot |
| `asked` | commands for which the application was asked to resend |
| `frames` | frames in the driver with the context (slot, generation, command, revision) that completes them |
| `answers` | ACK, NACK and format-error messages on the bus |
| `latch` | `CAN_Controller.c`: the bus has failed, who is to be told; the manager: subscribed, noticed |
| `acked` | history: the messages of each command the destination acknowledged |

Actions. Senders: `NewMessage`, `NotPending`, `Claim`, `NoneFree`, `Refused`, `Retransmit`,
`RetryLimit` (`stSubscribe_To_TransactionManager`), `Submit`, `NotSubmitted`, `InvalidMsg`,
`BackOff`, `BackOffFails`, `Drop` (sending and `bManage_TransmissionError`), `Resend`.
Driver: `Transmit`, `Complete` (one disjunct per result: `Stale`, `AwaitAnswer`, `Done`,
`Requeue`, `Fatal`), `DriverFrees`. System thread: `Answer` (`Acknowledged`, `NackWaits`,
`NackFails`, `FormatError`, `AnswerIgnored`), `Report`, `Track`, `Ask`, `GiveUp`, `TakenUp`.
Failure of the bus: `Booted`, `Subscribe`, `Register`, `Replay`, `BusFails`, `CallBack`.

Abstractions.

* The senders, with their callbacks, are not in the sources. A sender gives every new message a
  revision (`vUpdate_CommandRevision`), puts the revision of the transaction it was given into
  its frame, and tries again when it is told that the transaction is locked. Any sender of the
  command takes up a request to resend, and two requests for one command not yet taken up
  are one; the application may refuse it. What it is told of a
  result (acknowledged, failed) changes nothing in the table: `DriverFrees` and `Report` are the
  release alone.
* `pstFindAndLockTransaction_ByCMDId` returns the first transaction of the command, or a
  later one if the mutex of one before it is not had in time or its state is read while
  `bManage_TransmissionError` has set it to Invalid (`Overlooked`, `Found`).
* An answer that is malformed, or for a command without a transaction, changes nothing.
* `FHALT` is taken to return. `bDeInit_WallController_Comm_Manager` has no caller.
* A time-out may fire at any time in the states the scan looks at.

What the model shows that no comment or document of the sources denies, so that no run
claims otherwise. Two senders of one command that both look it up before either has claimed
a slot get a slot each: no lock is held between lookup and claim, and the claim does not
look again (`WallController_Comm_Manager.c:702-713`). They never get the same slot
(`OneSenderPerSlot`), and answers are told apart by the revision (`AckTruthful`), but a
lookup finds the first of the two only: an answer to the other message is ignored, and a
request to resend the other takes up, or is refused for, the first. The other transaction
then waits in PrepareRetransmit until a sender of the command comes upon it, since the scan
does not visit that state. `TransactionEnds` names this as an exception, `PassedOver`, and
allows it only while, or after, the command had two transactions (`Doubled`). Its other
exception is a back-off whose mutex is not had within its time (799-811), which leaves the
transaction waiting for a completion that never comes (`Stranded`). An ACK that is handled
before the completion of its frame is dropped, so that the command is sent again.

### Module `Screens`

Threads. The main loop activates a requested screen, hands it the queued events, runs it and
runs the wall-controller state machine (`at` says where it is); it is cut where it blocks in
the audio-source configuration. The system workqueue, above the main loop, runs the delayed
works of the selection and of the mute screen. Interrupts queue the events of knob and button.

| Variable | Code |
|---|---|
| `ui` | `UI_ScreenManager.c`: active screen, pending request, screens with objects |
| `queue` | `kmsgq_eQDC_MessageQueue` |
| `wall` | state of the wall controller and its Startup command |
| `cfg` | what the audio-source configuration stores: selected source, mute states, volumes |
| `info`, `menu`, `mute`, `ble` | contexts of the screens |
| `submit`, `mute.work` | the two delayed works |
| `presses` | history: presses handed to the screen of the selected source |

Actions. Activation: `NoRequest`, `SameScreen`, `CreateFails`, `Switch` (exit of the active
screen, entry of the next, deletion). Events, by screen: `InfoTurn`, `InfoPress`,
`InfoRelease*`, `MenuTurn`, `SelectSource`, `Commit`, `SelectLeave`, `MainMenuPress`,
`BtMenuPress`, `BtControlPress`, `MutePress`, `Ignored`. The run of a screen: `SaveVolume`,
`SaveNothing`, `MuteSource`, `MuteFails`, `MuteNothing`, `Hold`, `RunMute`, `TickNothing`. The
state machine: `WallRests`, `WallMoves`, `LoadScreen`. Works and interrupts: `Submit`,
`MuteWork`, `Unmuted`, `UnmuteFails`, `FadeDone`, `Event`.

Abstractions.

* Widgets, fonts, layout and animations are left out, except that an animation runs.
* Time windows (debounce, double press, long press, delay before a volume is stored or a source
  muted) may be over or not whenever they are looked at.
* The context of a screen that is not active is blank, as its creation zeroes it.
* Events come in any order: the queue loses some when it is full, and the check for room and
  the put are two calls in an interrupt that another interrupt may preempt.
* A muted source may have any volume at start-up, as `bDecode_AudioSourceConfiguration`
  accepts it.
* Writes of the configuration by the PC are left out here; `AudioSources` has them. A store or
  lookup fails or succeeds as a whole.

Behaviour the model shows that no comment of the sources denies, so that no run claims
otherwise. An entry whose lookup fails leaves blank contexts: a turn on such a screen stores a
volume for source 0, and a mute screen entered so has no source and asks for its
un-mute for ever. An error in `vLoad_UIScreen` is not tried again: the welcome screen stays.
The delayed work of the selection that falls between the store of a new selection and the
commit decides by the source committed before. A mute that is stored while another request
is pending is not followed by its screen.

### Module `FlashDriver`

The operations of the Zephyr flash interface, a mutex apart, so that one is in service and a
caller that waits has no state. An operation is a script of SPI transfers, each prepared,
started and waited for; the SPI hardware and the chip go on by themselves.

| Variable | Code |
|---|---|
| `op` | the operation in service, its step, the bytes done and received |
| `done` | `stTSem_SPITransferDone` and `eLastTransferResult` |
| `rx` | the receive buffer |
| `setup` | `bIsExtFlashSetupSuccess` |
| `wire`, `chip`, `mem` | the transfer in the SPI hardware; the chip's write-enable latch and command; its cells (external) |
| `past` | history: content when the operation began, whether the chip was at rest, cells asked for |

Actions: `Begin`, `End` (the interface); `CallerAborted` (the caller's thread is aborted);
`Prepare`, `Start`, `StartFails`, `WaitTimeout`, `TransferFails` (a transfer); `Enabled`,
`PollAgain`, `PollTimeout`, `Polled`, `Cleared`, `Fetched`, `SetUp` (what follows one that
succeeded); `TransferDone`, `ChipDone` (hardware).

Abstractions.

* A bit stands for a cell: programming sets it, an erase clears the sector, and a program
  command that runs over the end of its page wraps, as the chip does.
* A transfer may fail, may never complete, may complete after it was given up, and the chip may
  ignore it. The SPI hardware refuses a start while it has a transfer. What is read while the
  chip is busy is not its content.
* The checks of identity, SFDP and registers at set-up are one transfer that succeeds or not.
* The mutex of the SPI is not contended: the flash mutex serialises its only user.
* The thread in an operation may be the worker of a bulk transfer, which END may abort at
  any point of it (`LittleFs_Controller.c:289-294`). The operation then stays where it is,
  its mutex is never given back and no other begins; the transfer and the command under way
  go on by themselves. An operation that does not take the mutex (set-up, a request that is
  refused) is never aborted, as its caller is not a worker, or it is over at once.

`past.quiet` marks the limit of `SuccessIsTrue`: an operation that begins while a transfer or a
command of an abandoned one is still under way may take its completion for its own and report
success for something not done. Nothing in the sources promises otherwise.

## 4. What the runs check

| Run | Instance | Shows |
|---|---|---|
| `recovery` | packets of 2 bytes, images of 5 (3 packets), a slot of 6, up to 2 lost, 2 retries | `TypeOK`, `LostListExact`, `ReportWatched`, `WrittenOnce`, `AbortIsFinal` |
| `update` | images of 3 bytes (2 packets) of good or bad content, 1 retry, fairness | `UpgradeOnlyIntact`, `EndAnswerTruthful`, `ImplementsUpdate`, `SilentHostEndsSession`, `MessagesAnswered` |
| `flash_open` | 2 packets | the code does not do what a comment says: `FlashOpenForWrites` is violated |
| `bulk_hub` | every command of the PC, queue of one message, a file of three units in frames of one or two, identifiers 0..3, failing file system, power cuts | `TypeOK`, `AcknowledgedIsStored`, `LeftClean`, `WorkerBelongs`, `InOrder`, `EndAckTruthful`, `ErrorSticks`, `TransferEnds`, `CallsReturn` |
| `hub_session` | every command of the PC, a file of two units | the code does not do what the protocol document says: `HubKeepsSession` is violated |
| `audio_shared` | two threads that share the whole interface, 2 sources, volumes 0 and 1, failing writes, time-outs, loss of power | `TypeOK`, `OneSelectedInRam`, `OneSelectedOnFlash`, `RamMatchesFlash`, `SavedIsKept`, `NoCircularWait` |
| `audio_returns` | the calls of the user interface, 2 sources, late errors, unreadable records, no time-out of a mutex | `CallsReturn` |
| `audio_startup` | the calls of the user interface, late errors | the code does not do what a comment says: `StartupSeesAtMostOne` is violated |
| `comm_table` | 2 senders of a command with 2 messages that is answered and retried once, 1 sender of a command with one message that is neither, 2 slots, locks that fail | `OneSenderPerSlot`, `AckTruthful`, `FramesCurrent`, `ReleasedOnce` |
| `comm_ends` | 2 senders of a command with 2 messages and a retry each, 2 slots, locks that fail, a bus that may fail for good during the first message | `TransactionEnds`, `FaultNoticed` |
| `ui` | 2 sources, volumes 0 and 1, a queue of one event, lookups that fail | `NothingLeftBehind`, `MutesOnlySilent`, `SelectNeedsTwoPresses`, `RequestServed`, `UnmuteServed` |
| `flash` | two pages that are sectors of two cells, reads in parts of 3, writes and erases in and across pages | `SuccessIsTrue`, `OnlyRangeTouched`, `OperationsReturn` |

The bounds of the firmware update. Three packets and two lost ones are the least with a gap
before, between and behind received packets, a second gap while the first is pending, and a
lost list that overflows (three missing). Images end inside a packet (5 bytes in packets of
2), so that the last one is partial; the announced sizes include 0 and one that exceeds the
slot. Packet identifiers go up to the first one that lies outside the slot, and the sequence
number wraps (`SeqMod = 2`). Blocks are one byte where the code writes 16: the only effect
of a block is the test at the end of the slot. Nothing else is bounded: there is no limit on
the number of messages, time-outs, resets or sessions. `update` adds wrong contents, which
the bookkeeping of `recovery` does not depend on, and fairness; one packet and one retry
less keep it small.

The bounds of the bulk transfer. A queue of one message is full after one frame, so that a
refused put, an END marker that waits for room and a worker that is late all occur; the
code's 10 differ only in how long that takes. Three units in frames of one and two give a
file of several frames, one that is too long (refused), one that is too short (a byte
count mismatch) and wrong data (a CRC mismatch); the announced sizes include 0, which is
refused, and 2, which the images contradict. Identifiers go one past the last frame.
Calls, transfers, time-outs and power cuts are not bounded. The hub is the only caller of
the transfer, and refuses data and END without a session: calls it never makes are covered
by the theorems about `BulkTransfer` alone.

The bounds of the audio sources. Two sources are what a selection touches at most; a third
could only wait. Two threads make every race of the properties, each of which speaks of two
calls at most. Two volumes distinguish a stored value from a lost one; in `audio_returns` the
values do not matter and one is enough. Provisioned units start with quiet sources, of
which any one or none is selected. Calls and losses of power are not bounded. `audio_shared`
has no late errors because `OneSelectedOnFlash`, `RamMatchesFlash` and `SavedIsKept` are false
with them, as `audio_startup` shows for the first; and no unreadable records, because a unit
whose records were refused has no selected source in RAM, and then stores a new record that
is selected although the file of another source may be selected too.

The bounds of the transactions. Two slots are the least in which a command can have two
transactions, or two commands one each; with three senders, or with two transactions of one
command, a sender finds the table full. `MaxMsgs` bounds the messages of a command that are
started: two let two senders of one command race through lookup and claim, and let a late
answer meet the next message. `FaultMsgs` bounds the messages started before the bus fails
for good: in `comm_table` none, as its properties do not depend on the fault; in `comm_ends`
one, so that the failure falls before, into and after a message, and with the bus at work
the other message still is the second of two transactions. `LastGen = 2` makes the
generation wrap, as the code's counter does. Resends are bounded by the code. Deadlock is
not checked in these two runs: when the bounded senders are done, nothing is left to do.

The bounds of the user interface. Two sources let the selection, the screen and the muted source
differ. With volumes 0 and 1 a turn reaches or leaves silence, or changes nothing at the
end of the scale. A queue of one event drops on every second one; since events come in
any order, a longer queue adds no sequence of events a screen sees. Nothing else is bounded.

The bounds of the flash. Requests begin at the first and the last cell of a page and are
shorter than, as long as and longer than a page or a part of a read; some are out of range or
not aligned, some of length zero. Writes hold blank cells, so that a wrong cell shows.
Operations, faults and time-outs are not bounded. Deadlock is not checked in this run: when a
caller was aborted and the hardware is done, the driver really stands still.

Fairness. `btl` and `wq` are threads of one scheduler and are weakly fair; the two kernel
timers of work items with a running delay are too. The host is not: it may send anything
or fall silent at any point, and power may fail at any point but need not. Strong
fairness is not needed as no thread can be overtaken for ever: a session mutex is held
only for a bounded section, and the workqueue runs only when a time-out is due.

For the bulk transfer the UART thread, the worker and the workqueue are each weakly fair,
and so is the return of a call, which the hub answers before it reads the next frame: flash
operations end, time-outs expire, and the scheduler runs the highest thread that is ready. An
operation of the file system that waits for an `orphaned` lock is not enabled, so fairness does
not finish it.
The PC owes nothing: `TransferEnds` holds though END may never come, because the worker times
out and asks for the cleanup.

For the audio sources each thread in a call is strongly fair: `k_mutex_unlock` hands the
mutex to the thread that waits for it, so a mutex that is free again and again is got.
`audio_returns` has no time-outs, so that `CallsReturn` cannot rest on giving up. A write or read of
a record is taken to return; only one that overlaps the END of a bulk transfer described in
section 3 would not.

For the transactions each thread that has something to do does it, and the bus disposes of
every frame, in any way. The scan of the time-outs is strongly fair per slot: it visits all
slots in each turn of its thread, so a slot that waits again and again is found waiting.

For the user interface the main loop and the workqueue run. `[]<>(at = "tick")` says that the
user turns and presses more slowly than the loop hands out the events: the loop drains the
queue before it goes on. The creation of a screen and the store of an un-mute, which the code
repeats for ever, are strongly fair: memory and file system are not exhausted for good.

For the flash the caller's thread runs unless it is aborted, which `OperationsReturn` names
as its one exception (to abort it is no step of the driver, and fairness does not ask for
it), and the poll, which reads a clock, is over in the end (`SF` of `PollTimeout`). The
hardware owes nothing.

The findings. `vUpdate_FWImage` opens the flash area for "the first received packet", which
it recognises by `uiLastId == 0 && uiNextId == 0` (`Bootloader_Ctrl.c:749-755`). If no packet
arrives at all before FWUpEnd, the end marks all of them as lost and moves `uiNextId` to
their number (612-619): the first packet resent is then not "the first", and is written
through a NULL area (822). The trace of `flash_open` shows it: request, END, packet 0.

`PC_UART_Protocol.md:21-23` says that a release is rejected while a bulk session is active and
that a completed END returns the hub to Idle. `eProcess_BulkEnd` marks the operation
complete before it looks at the frame (`PC_UART_BulkFileService.c:217`), so that an END with
a payload is refused and still returns the hub to Idle, the session and the transfer being
active. The trace of `hub_session`: select, START, END with a payload. The transfer then
ends by its time-out, or goes on after the PC selects the operation again.

`AudioSrcConfiguration.c:337-340` says that a loss of power between the two writes of a
selection leaves none or one selected source for the next start-up. When the second write is
reported as failed after its record reached the flash (a failing `fs_stat`,
`LittleFs_Controller.c:1593-1616`), the selection is taken back in RAM only. RAM then
knows of no selected source, so the next selection of another source unselects none and stores
a second selected record; the start-up after a loss of power refuses all records
(`AudioSrcConfiguration.c:1021`). That is the trace of `audio_startup`.

## 5. What is proved

### Firmware update

`BootloaderProofs` proves for every packet size, slot, limit on lost packets and retries,
and every content, from `ConstantsAssumption` alone:

* `TypeCorrect`: `Spec => []TypeOK`;
* `UpgradeIntact`: `Spec => []UpgradeOnlyIntact`: MCUboot is asked to swap only while the
  slot holds exactly what was announced;
* `AbortedStaysAborted`: `Spec => AbortIsFinal`.

`ConstantsAssumption` says that the sizes are positive, that the markers are neither data
nor images, and `(IdMod - 1) * Payload > Avail`: the last packet identifier lies outside the
slot. The slot has 0xEE000 bytes behind its write offset and a packet 48, so that identifier
65535 lies three megabytes out: the code satisfies the assumption; without it `uiNextId`
would wrap and old packets would be accepted again (lemma `NoWrap` is where it is used).

The argument. `UpgradeOnlyIntact` is not inductive: it speaks of the slot at the moment of
the request only, whereas the request is made on the word of the running CRC. `IInv`
strengthens it in four parts:

* `TypeInv`: types, plus what the program counter says of the message in service and of
  the retry count;
* `Control`: which thread may be where in which session state: the workqueue on its way to
  an abort excludes a completed session, an armed deadline means a session in progress or
  a reboot to come;
* `RequestHeld`: while an upgrade is requested the session is Completed or in Reboot, and
  the bootloader thread can only be where nothing erases or aborts;
* `Digested`: the running CRC is, packet by packet, what the slot holds below the first
  lost packet (or below `uiNextId` if none was lost), and the lost packets lie above it; in
  Completed and Reboot the slot holds the announced image.

`Digested` holds because a packet that extends the CRC is written to the cell of its
number (`StoredDigest`), a gap fixes the first lost packet and stops the CRC there
(`GapDigest`), a recovered packet lies above it and so outside the part already digested,
and at END the rest is read back: CRC and read-back together are the slot
(`ValidatedHolds`). Each of the four parts has a lemma with a step per action. The proof of
`AbortIsFinal` uses `TypeInv` and `Control`: only a thread holding the mutex leaves the
states InProg and Completed, and each reads the state again under it.

`SessionProofs` goes on from there, under the same assumption:

* `LostListIsExact`: `Spec => []LostListExact`, the bound on the list included;
  `CellWrittenOnce`: `Spec => WrittenOnce`;
* `AnswerIsTrue`: `Spec => []EndAnswerTruthful`; `ReportIsWatched`: `Spec => []ReportWatched`;
* `UpdateImplemented`: `Spec => ImplementsUpdate`: every step of the session is one of the
  abstract firmware update, or leaves its variables alone.

The invariant is `SInv`, which adds four parts to `IInv`:

* `Answering`: FWUpEnd is not the message in service at the places of the other commands, one
  that was overtaken by an abort has lost its success, and the way to the reboot is only
  taken after the request. Without it, the answer, which is sent several steps after the
  request, could be that of another message;
* `Watched`: the places at which a thread is about to schedule, retry or abort a report
  are those where no timer runs for it. What `CancelWork` and `CancelTx` rely on after they
  have released the mutex (a session that is over, a report that is acknowledged) holds
  until they act, which is what `ReportWatched` alone does not say;
* `Listed`: cells at or behind the next identifier are blank and only listed packets are
  ever recovered, which a gap, a packet in order and a recovered packet each need to keep
  the list exact;
* `Fits`: the list is finite and has at most `MaxLost` entries. A gap is counted before it is
  recorded, with the packet that shows it and at the end, and overlaps the list at no more than
  it counted (`GapRoom`); cardinalities come from `FiniteSetTheorems`.

`WrittenOnce` then follows from `Listed`: a packet that is stored is the next one, whose cell is
blank, or a pending one, whose cell is unwritten. For the refinement the invariants say that
the abstract request is made of an intact image, and that an abort finds none requested.

### Bulk transfer

`BulkProofs` proves from `BulkConstantsAssumption` alone, for every queue depth, content,
frame size and sequence of calls, with and without failures:

* `BulkTypeCorrect`, `LeftClean` (`CleanAfter`), `WorkerBelongs` (`WorkerOwned`), `ErrorSticks`
  (`ErrorNotForgotten`);
* `AcknowledgedSafe`: `Spec => []AcknowledgedIsStored`;
* `DataInOrder`: `Spec => []InOrder`;
* `AllOrNothing`: `Spec => []NothingHalfWritten` if neither the file system nor the power
  fails. No run checks it: with a file system that fails it is false;
* `LocksLostOnlyInEnd`: `Spec => [](orphaned => StuckInEnd)`: the locks below the file
  system are lost only to an END that gave up waiting for the worker, and it is that END
  which then stands still. The exception of the two liveness properties is thus no wider
  than its name.

The assumption says that the queue has room for a message, frames are not empty, and the
markers are neither content nor threads.

The argument. `IInv` adds to types and properties what makes them inductive:

* `MutexHeld`: the UART thread is at a point of its critical sections exactly when it owns
  the mutex; a cleanup that waits while no transfer exists owns it already, so that it
  cannot meet the next transfer;
* `CallServed`, `Phase`: what each point of the UART thread implies: the worker is dead from
  the moment its signal was taken or it was aborted, an end that fails has its error
  noted, the file is open until the end closes it;
* `Flags`: the flags on which the default and the abort act tell the truth;
* `DataPlaced`: as long as there is no error the open file holds what the running CRC was
  computed from, so an equal CRC means an equal file; sync commits it; and no content is
  vouched for from START to the acknowledged END.

`AllOrNothing` adds `NothingPartial`: a path that is not empty during a transfer is listed, so
that the deletion after a failed transfer finds it. `TypeStep` and `SafeStep` have one step
per action; types are not inductive alone (a sync stores what is open, which must be
content).

`InOrder` says where the accepted data is cut (`Consists`): what is written and being written
comes first and each message of the queue follows, up to the end. Stated with cut points rather
than by joining the queue it needs no induction: a put adds a cut, a take removes the first
(`Ordered`).

### PC UART hub

`HubProofs` proves, from `BulkConstantsAssumption`, for the hub over the transfer:

* `HubImplementsTransfer`: `HubSpec => Spec`: each step of the hub is a step of the transfer or
  leaves it alone, so that (`HubKeepsTransfer`) its types, `AcknowledgedIsStored`, `LeftClean`,
  `WorkerBelongs`, `InOrder` and `ErrorSticks` hold below the hub, where the run checks them;
* `EndAckIsTrue`: `HubSpec => []EndAckTruthful`.

The argument. `HInv` says that a call into the transfer belongs to the selected bulk operation
(`CallInOperation`), that a transfer that is under way is for the content of the last START
the PC saw accepted, or is about to (`TransferOffered`), and that an END that returned well has
vouched for just this content (`EndVouched`). `AcknowledgedIsStored` does the rest.

### Audio sources

`AudioProofs` proves, from `AudioConstantsAssumption` (sources exist, and the marker of a
free mutex is no thread), for every number of sources and threads and every set of
operations they call:

* with any failures: `AudioTypeCorrect`, `OneInRam` (`OneSelectedInRam`), `LookupStaysCurrent`
  (`LookupIsCurrent`), `NoDeadlock` (`NoCircularWait`; its lemma `WaitsAscend` excludes
  circles of any length);
* where a write that is reported as failed has changed nothing (`LateErrors = FALSE`):
  `FlashFollowsRam` (`RamMatchesFlash`) and `NothingSavedIsLost` (`SavedIsKept`);
* where records can be read as well (`ReadFaults = FALSE`): `StartupCanLoad`
  (`OneSelectedOnFlash`).

The argument. `OneSelectedInRam` is not inductive: the step that selects a source relies on
the lookup made several steps before. `IInv` says, for each thread: the mutexes it holds are
the lowest of those it needs, and all of them once it changes something (`Locking`); a
source is noted as selected before only under the selection mutex (`Calling`), and is then
still the selected one (`Lookup`); between the change in RAM and the end of the write, what
is in RAM, what is written and what would be restored differ in one field, and nothing
else is selected (`Dropping`, `Writing`). A step of one thread cannot disturb this for
another (`OthersKeep`): it changes a record, or the selection, only with the mutex for it
(`Frame`). `FlashInv` adds that RAM and flash agree except at the source being written, and
that the record to restore is the one on the flash. Two selected records on the flash are
then impossible since files and RAM differ on a selection only at the source that the one
holder of the selection mutex is writing (`SelectionDiffers`).

### Transactions

`CommProofs` proves from `CommConstantsAssumption` (a command for each sender, a revision,
generation and retry limit for each command, at least one slot, the marker being neither
command nor number), for every number of senders of a command, of commands, slots, messages
and retries, with and without failing locks: `CommTypeCorrect`, `SendersApart`
(`OneSenderPerSlot`), `AnswersTruthful` (`AckTruthful`), `NoStaleCompletion`
(`FramesCurrent`) and `OneRelease` (`ReleasedOnce`).

The argument. A slot is handed from thread to thread without a lock that spans the
hand-over; `Safe` says who has it. From claim to submission it is one sender (`SenderOwns`),
and no frame, callback or report is under way for it; then the one frame in the driver
(`OneFrame`, and `FramesCurrent` for its context); from the completion the callback
(`DriverHolds`); from an answer or a time-out the system thread (`SysHolds`). `SendersApart`
rests on the state of the slot, which a claim and a resend each look at under its mutex: a
slot a sender works on is neither Free nor PrepareRetransmit. `AckTruthful` needs that an
answer carries the revision of the frame it answers, and that an acknowledging one was given
for it (`AnswerTrue`).

### User interface

`ScreenProofs` proves from `ScreensConstantsAssumption` and `NoScreenAssumption` (there is a
source, a volume and room for an event; the marker is no number and no screen), for every number
of sources, range of volumes and size of the queue: `ScreenTypeCorrect`, `NothingIsLeft`
(`NothingLeftBehind`), `MuteIsSilent` (`MutesOnlySilent`) and `SelectionNeedsTwo`
(`SelectNeedsTwoPresses`).

The argument. `IInv` adds to types and `NothingLeftBehind`: the main loop waits inside a
handler only on the screen of that handler (`LoopOnScreen`), so that what it does when it
goes on is done to the right context; a mute that is pending means volume zero, and once it
is due the volume that is stored (`ZeroIsStored`), although the mute is decided several
steps after the turn that asked for it; a release that counts had a press of its own
(`PressesCounted`), although the queue drops events.

### Flash driver

`FlashProofs` proves from `FlashConstantsAssumption` and `NoCommandAssumption` (positive sizes,
whole pages in a sector and whole sectors in the device, as the device tree has them; the
marker is no command), for all sizes, requests and faults: `FlashTypeCorrect`, `RangeIsKept`
(`OnlyRangeTouched`) and `SuccessIsTruthful` (`SuccessIsTrue`).

The argument. `FlashInv` has five parts: `TypeInv`; `Script`, the step an operation is at
fits its kind and what it has left; `Bounded`; `Contained`, what the chip is busy with, what
is on the wire and what may still be asked for lies within the requested cells; and
`Faithful`, for an operation that began in peace and for which nothing has failed: the only
transfer in the hardware is the one it waits for, and the content is what its finished parts
make of the content it found (`Progress`), with or without the part in service, which the
latch of the chip tells apart. The arithmetic is in lemmas of its own: a part that ends with
its page is programmed where it should be, however the chip wraps around (`SamePage`), and
an aligned sector is the cells from its begin on (`SectorCells`); `WorkCells` draws the
conclusion for the commands of the driver and `WorkDone` for the content.

### Only model-checked

Liveness under fairness is outside the prover: `SilentHostEndsSession`, `MessagesAnswered`,
`TransferEnds`, `CallsReturn` of both modules that have it, `TransactionEnds`, `FaultNoticed`,
`RequestServed`, `UnmuteServed` and `OperationsReturn` are shown by the runs alone. The three
properties of the runs that expect a violation are false.

### Not modelled

* Generated code: fonts and screens made by GUI Guider are more than half of all lines (fonts
  alone about 21000 of 48000, generated screens another 6000): data and calls of the graphics
  library. They are why the share of all lines that the models map stays low; what is not
  mapped of the rest is mostly the making of widgets, parsing, formatting, tests and host
  tools.
* The queue of CAN frames the hub forwards to the PC: frames survive a release of the
  bridge (`PC_UART_API.c:201`), and nothing says whether they should.
* The frame layouts and their parsing on CAN and UART: an invalid frame changes no state.
* The bulk transfer and the audio-source configuration are not composed: each sees the other as
  a call that fails (`LittleFs_Controller.c:1531`).
* The LVGL file-system adapter and the text animator (no state of interest), start-up and
  stubs, on-target tests, host tools (the host may send anything in the models).

## 6. Files

| File | Content |
|---|---|
| `Bootloader.tla` | the model |
| `BootloaderProperties.tla` | its properties and the refinement mapping |
| `FirmwareUpdate.tla` | the abstract specification |
| `MCBootloader.tla`, `Bootloader*.cfg` | instances for TLC |
| `BootloaderProofs.tla`, `SessionProofs.tla` | theorems and proofs; the second goes on from the first |
| `BulkTransfer.tla`, `BulkProperties.tla` | the bulk transfer and its properties |
| `UartHub.tla` | the hub over it, with its properties |
| `MCUartHub.tla`, `BulkHub.cfg`, `UartHubSession.cfg` | instances for TLC |
| `BulkProofs.tla` | theorems and proofs |
| `HubProofs.tla` | theorems and proofs about the hub, over those of the transfer |
| `AudioSources.tla`, `AudioProperties.tla` | the audio-source configuration and its properties |
| `MCAudio.tla`, `Audio*.cfg` | instances for TLC |
| `AudioProofs.tla` | theorems and proofs |
| `CommTransactions.tla`, `CommProperties.tla` | the communication manager and its properties |
| `MCComm.tla`, `Comm*.cfg` | instances for TLC |
| `CommProofs.tla` | theorems and proofs |
| `Screens.tla`, `ScreenProperties.tla` | the user interface and its properties |
| `MCScreens.tla`, `Screens.cfg` | the instance for TLC |
| `ScreenProofs.tla` | theorems and proofs |
| `FlashDriver.tla`, `FlashProperties.tla` | the flash driver and its properties |
| `MCFlash.tla`, `Flash.cfg` | the instance for TLC |
| `FlashProofs.tla` | theorems and proofs |
| `PROJECT.json` | components, runs, source lines of every definition, hazards, findings, theorems |
