# OpenSMA: a TLA+ model of the firmware's core protocols

OpenSMA is the firmware of NVIDIA's system management agent on NXP MCXN
microcontrollers: FreeRTOS tasks in C++ (`src/src/nv`), platform code
(`src/src/sys/mcxn556`) and the protocol libraries of corepdk (MCTP in C++, PLDM
firmware update in Ada). This directory holds TLA+ models of the parts whose
correctness depends on interleavings, timeouts and loss of power, the TLC runs
over them and machine-checked proofs.

All paths below are relative to the repository (`src/` in `PROJECT.json`).

## Inventory

| Component | State | Operations | Works with |
|---|---|---|---|
| Flash service (`src/nv/flash/task.cpp`, `common.h`, `flash.cpp`) | FlashSema (one per core), FlashRequest (shared), FlashResponse (per core), FlashEvent bits | `request()` by any task; `start()`, the event loop; `wdt_notify()` | every task that reads or writes flash or settings |
| Background copy (`background_copy.cpp`) | `_state`, `current_offset` | `start`, `next` (one chunk), `status_progress` | the flash task's loop; PLDM starts and polls it |
| Persistent store (`pds.cpp`, `datastore.h`) | RAM copy, two flash copies with a digest | `init` (load, repair, adjust), `set_data`, `get_data` | flash task; power smoothing, boot slots, debug tokens keep settings in it |
| Event log (`src/nv/logger`) | ring of entries, metadata slots, download session | `store`, `load_metadata`, `init`, `clean`, download | flash service, MCTP/NSM clients |
| C2C link (`src/nv/ipc/ipc_task.cpp`, `sys/.../ipc`) | stream buffer between the cores, pending header flag | `handle_queue_data`, `handle_event_data` | queues and events whose destination is the other core |
| MCTP assembly (`corepdk/modules/mctp-cpp`, `src/nv/mctp/driver.cpp`) | partial message, sequence and tag state | `recv_packet`, `gen_packet`, `validate`, `on_receive` | every bus, PLDM, SPDM and NSM handlers |
| PLDM firmware update (`corepdk/modules/pldm-fd`, `src/nv/pldm/task.cpp`) | update state machine, component state, retry counters, authentication result | commands, timeouts, flash writes, activation | flash service, SPDM task, bootloader |
| Watchdog and boot (`src/nv/watchdog`, `sys/.../watchdog`, `sys/.../bootloader`) | alive bits, try counters, slot flags | periodic query, `mark_task_alive`, slot choice | every task; PDS keys of the slots |
| LSTP router, USB proxy, I2C/I3C, SPDM, power smoothing, debug tokens, SSIF and the small register translators | see `PROJECT.json` | | |

What makes the code hard:

- **Interleaving.** Tasks of seven priorities and, in the dual-core build, two
  cores share queues and event bits that are updated one after the other.
- **Timeouts.** A flash caller that gives up leaves its request behind and asks
  the flash task, with an event bit, to give its semaphore back.
- **Loss of power.** The persistent store and the log rewrite flash in several
  steps; what the next boot makes of the remains is code no unit test runs.
- **Long sequences.** Firmware update crosses PLDM, flash, authentication and
  boot slots.

`PROJECT.json` lists each hazard at its line with the properties that cover it.

### What makes each component correct

- Flash service: one caller per core inside; an answer reaches the call it
  answers; queue slots suffice; requests are executed at most once; calls return,
  the watchdog is answered, a copy ends.
- Persistent store: a loss of power leaves one usable copy; RAM and flash agree
  when idle; a boot makes the settings valid and changes no other.
- Log: no entry is lost but the overwritten ones and, at a crash, the last; a
  download session never yields an entry twice or from an erased sector.
- C2C link: items are delivered whole, in order, to the queue they were sent to.
- MCTP assembly: what is handed on is a whole message of one sender; a message
  that arrives undisturbed is handed on, whatever came before it. Both for the
  messages that the validator tracks.
- PLDM update: a component is applied only after a verdict of this update (that
  it was a success is left to the update agent); the state machine returns to
  idle from everywhere; the other slot, while marked bootable, is whole.
- Watchdog and boot: a hung task leads to a reset; a slot that does not boot is
  left for the other.

## Modules

| Module | What it is |
|---|---|
| `FlashRpc` | what `request()` promises: a call is executed at most once and returns the status of its own execution, or a refusal |
| `FlashTask` | the flash service in detail: clients, both queues, semaphores, event bits, the loop, the background copy |
| `MCFlashTask` | two or three clients on one or two cores |
| `FlashTask_proofs` | the proofs about `FlashTask` |
| `Pds` | the persistent store |
| `MCPds` | its instances |
| `Pds_proofs` | the proofs about `Pds` |
| `MctpReceive` | the receiving half of the MCTP driver: validator, composer, hand-over |
| `MCMctpReceive` | two senders of one endpoint |
| `MctpReceive_proofs` | the proofs about `MctpReceive` |
| `LogStore` | the event log in flash: ring of entries, metadata slots, error handling, boot |
| `LogDownload` | the download session, composed with the log it reads |
| `MCLog` | an instance of `LogDownload` |
| `Log_proofs` | proofs about `LogStore` and `LogDownload`: types, slots, restarts, the monitor |
| `LogRing_proofs` | what the ring holds: room, order, survival |
| `LogStream_proofs` | what a download sends |
| `FwUpdate` | the PLDM task: update state machine, image write, verdicts, background copy, restarts |
| `MCFwUpdate` | its instances |
| `FwUpdate_proofs` | proofs about `FwUpdate`: types, the slots, the timer, the session |
| `FwImage_proofs` | the image a download writes |

### FlashTask and the code

A client is a task inside `request()` (task.cpp:115-193). Its `pc` names the
blocking call it is at:

| Action | Code |
|---|---|
| `Call`, `SemaphoreTake`, `SemaphoreTimeout` | 115-122: `semaphore_take()` |
| `SendRequest` | 124-135: the request is queued, or Busy |
| `SetEvent` | 136-173: the bit of the request's kind |
| `ReceiveResponse`, `GiveAndReturn` | 175-178, 188-192 |
| `ReceiveTimeout`, `SetTimeoutEvent` | 180-186: the receive has given up; the bit is set |
| `BackgroundCopyStart`, `WdtNotify` | flash.cpp:137, task.cpp:595 |

The flash task is one loop (`fpc`): `WakeForRequest`, `StartCopy`, `CopyNext` or
`WakeForNothing` at `wait()`, by the else-if chain `Branch`; then `TakeRequest`,
`CheckQueueSize`, `ClearEvent`, `Process`, and in `send_response_to_queue()`
`DropResponse` or `SeeNoTimeout` and `PostResponse`. Between any two of them
another task may run; on the second core it runs at the same time.

Abstracted: the 18 request types become three kinds, one per event bit (`Op`,
`Query`, `Data`); an operation's effect on flash is its status, Ok or Error; a
message carries its client and call number, which the code does not have and
which the properties need. `served` is history: the calls executed. On core 0 a
receive times out only with an empty response queue, since the flash task has
the lowest priority and cannot post between the timeout and the return of the
receive; on core 1 it can. The mailbox between the cores is taken as delivering:
a message to the other core is in its queue when it is sent (the C2C link is a
component of its own). A timeout has no duration: it may strike whenever a
client with a timeout waits. `Usecs::max()` is an infinite wait.

### Pds and the code

`PdsInfo` is cut into nine parts in the order of their addresses: digest, size,
and seven groups of keys. A part is what a property tells apart from the next.
`Erase` and `Program` write one part of one copy; the status of a whole
`write_pds()` is ignored by all of its callers, so a failure only ends the write
where it is (`WriteFails`). `Load` reads both copies and repairs them in RAM;
phases `rewrite`, `choose`, `restore` or `reset`, `check`, `adjust` are
`load_pds()` and `adjust_pds()` (pds.cpp:94-243); `set` is `set_data()`. The two
copies are written primary first. `PowerLoss` may come before or after any part
is programmed. An interrupted erase leaves the copy as it was or erased; the
contents of a half-erased sector are not modelled.

`Calibrate` is the client of `soc_pwr_smoothing.cpp:129-202`: marker cleared,
points stored, marker set. `old` and `new` are history: the settings before and
after the latest `set_data()`.

### MctpReceive and the code

One action is one packet taken from the data queue by `on_receive()`
(mctp/driver.cpp:238-342). `Reject`, `ValidateStart` and `ValidateNext` are
`Validator::validate()`; `HandOnSingle` is the path around the composer;
`Start`, `DropUnknown`, `Overflow`, `AppendMiddle`, `AppendLast`,
`SkipOverflowed` and `EndOverflowed` are the branches of
`Composer::recv_packet()` for longer messages, with what the driver does next.
`Lose` is a packet lost on the bus or at a full queue. A packet is its sender,
message number, type, length of the message and place in it; the buffer is
counted in packets. `handed` is the message that `on_receive()` found complete,
before the filter for stalled endpoints and the dispatch to an application;
`heard` (the packets of one message received without anything in between) and
`seen` are history.

`validate()` is a chain of branches by message type, and the type is the first
byte of *every* packet's payload. The branches for starts remember tag, sequence
number and endpoint (`Remembered`), or nothing (NSM, single packets of Control
and vendor messages), or, for a Control start or one with a vendor number other
than the DMTF's, the sequence number alone (validator.cpp:145-155). What no
branch takes is compared with what is remembered (`Compared`, `Successor`:
156-174), and counts the number on even if that is wrong (`CountOn`). The vendor
branch (113-143) has no test of `som`: a later packet whose payload reads as a
header of the DMTF (`ReadsVendor`) ends there, accepted without a comparison or
rejected without being counted (`AcceptVendor`, `Refused`). Which later packets
read so is part of the message: the third item of a shape.

Type `Other` stands for a vendor message with a foreign number and for the types
without a branch (Ncsi, Eth, Nvm); `Refused` for a message whose header one of
the branches refuses. Abstracted: the rest of the payloads, a later packet whose
payload reads as another type (only the vendor branch looks at it), and packets
to other endpoints, which are rejected without a trace. Senders number the
packets of a message from 0, as this code does when it sends (`gen_packet()`).

### LogStore, LogDownload and the code

The log task runs alone, so what interleaves with its steps is a loss of power,
and each flash operation is a step. A step that may fail has a branch or an
action (`...Fails`) for it.

| Action | Code |
|---|---|
| `LoadPointers`, `LoadNothing`, `LoadFails` | `load_metadata()`: the last valid slot, or a new sector of slots |
| `EraseFirst`, `KeepFirst`, `ReadTail` | the rest of `Logger::init()` |
| `Store`, `WriteEntry`, `EraseNext` | `Logger::store()`, with `update_metadata()` as its first step |
| `EraseMeta`, `WriteMeta` | `update_metadata()`, for the caller in `caller` |
| `EraseZero`, `EraseFaults`, `AddFault` | the rest of `Logger::clean()` |
| `CleanRequest`, `NextRound`, `HandleError` | the task's loop and `handle_error()` |
| `StartDownload`, `RefuseRequest`, `FetchEntry`, `FetchNoEntry`, `FetchFatal`, `FetchPerf`, `EndDownload` | the states of the download session |

An entry is the number of the store that wrote it; `Foreign` is what was in
flash before the log. A slot is a pair of pointers or `NoPtr`, an erased slot or
one whose checksums do not match. `batch` stands for the order of the loop: a
request is looked at first, then some stores, then the error flag. The stores of
start-up (up to four) are stores of such a round.

`torn`, `ignored`, `moved` and `paired` are history, and say where a property
does not hold because the code does not defend it: a loss of power between the
store that fills a sector and the erase of the next, or before a marked error
was handled (`torn`: the next boot finds a sector that was not erased, or what
the error left behind, until the slots are started anew); an operation of
`clean()` or `init()` whose status nobody reads failed (`ignored`); entries were
dropped during a session (`moved`: the client then reads what took their place);
sessions were abandoned or ended twice while the monitor was stopped (`paired`:
the second `StartDownload` saves the mode `Disable`).

Left out: the queues between the tasks and the log, and their clients' timeouts;
the console commands; the fault records a crash handler writes (log_fault.cpp);
a failing read in `get_fatal_download_size()`, which counts as an entry.

### FwUpdate and the code

The PLDM task handles one message, one expired timer or one event at a time, so
each handler is one action. `Command` are the update agent's commands, `Answer`
what follows the device's own requests, `Authentication` the verdict of the SPDM
task, `Timeout` the timer's handler by state, `Copying` the background copy, and
`Restart` the reset of the task and the reboot of the device with the
bootloader's choice of slot. `timer` and `tbit` are two variables because the
bit of a timer that has expired survives its being stopped or set again.

Image data is counted in units of the smallest transfer (32 bytes). Transfer
sizes are powers of two from 32 to 4096 bytes (rounded down to one), so that
below the page of 256 bytes they divide it, and every size divides the sector:
`UpdateConstants` says both, and the image is written in steps that end at the
end of a sector. The proofs are for all such sizes; in `fwupdate` a page is four
units (of 64 bytes) and transfers have two or four, in `fwupdate_retry` a page
has two and transfers one. A chunk that would pass the end of the buffer
(possible only after an answer was stored twice, a failed write left the buffer
full, or another download, with smaller transfers or a failed flush, left an odd
rest in it; the Ada code is compiled without range checks) is left out.
`Write_Fail_Retry` is 0 in this code, so a failed write ends the download at the
next timeout (`spi`). The verdict of `AuthFinish` is left open: it does not
depend on what is in flash, since the properties ask when a verdict counts, not
whether it is right. A failing verdict puts the component on the list of
verified ones like a success (state.adb:598-603); when its update is cancelled
afterwards, `Activate` marks it complete in the code and in the model. `judged`
counts every verdict, so `SessionScoped` does not forbid that.

`Mark` is `pldm_update_pds()` (pldm_wrap.cpp:217-305), which clears the mark of
the inactive slot and writes slot and state of the update, in this order; for
the components of its second parameter one of the writes fails and those before
it have happened. `CopyBegins` is the start of the copy, which erases, followed
by three writes whose status is ignored (task.cpp:360-369): the mark, the state,
the slot; each may fail. `CopyRefused` is a start the flash task does not take.

`Reboot` is a boot in which the FMC authenticates both slots. A bootloader
started without the FMC takes both for authentic without a check
(bootloader.cpp:317-320); what it then starts is not modelled.

Exclusions, all at places where the code has no defence: `tainted` (the download
took a chunk out of place, started with a buffer that another download left, or
went on after a failed write), `blind` (the task was reset while a copy ran, and
forgot it), `unmarked` (the write of the mark of the slot failed and the
download went on, or failed after the copy had erased the slot, or data was
stored after the image was refused) and
`Unflushed` (the last write of the buffer failed: no timer is set). `FlushFails`
and the answers after a refusal are in the run; the properties say what remains
true around them.

Left out: queries and status commands, the replay of the response to a repeated
command, the rate limit, the in-band settings, the branch of the boot-slot switch
for a staged image, the slot fail-over by the watchdog, and the one-slot queue
that carries packets and verdicts: they are delivered apart from each other, and
a verdict may be lost (`LoseVerdict`, `ProtocolReset`).

## Runs

| Run | Instance | Shows |
|---|---|---|
| `flash_dual` | 2 clients on core 1, one with a timeout, and one on core 0, 1 call each, 2 kinds, a queue of 2, a copy of 2 chunks | type invariant; `CoreExclusive`, `RequestSlotReserved`, `ResponseSlotFree`, `AnswersOwnCall`; refinement of `FlashRpc` |
| `flash_live` | 2 clients on core 0, no timeouts, 1 call each, 3 kinds, copy and watchdog, under fairness | `HandlerMatchesRequest`, `QueuedRequestHasEvent`; `EveryCallReturns`, `WatchdogServed`, `CopyCompletes` |
| `flash_lost_event` | a client on each core, 1 call each | violation: the event of a queued request is cleared |
| `flash_copy_stalls` | 2 clients on core 0, one with a timeout, 1 call each, under fairness | violation: the copy never ends |
| `pds` | one loss of power, one failed operation, any number of restarts | see the properties of `Pds` |
| `pds_ramp_rate` | no fault | violation: a restart erases the power settings |
| `pds_calibration` | one loss of power | violation: complete marker with points erased |
| `mctp` | 2 senders with tags of their own, 2 messages each of 1, 2, 5 or 7 packets, tracked, untracked and refused ones, payloads that read as a vendor header, a buffer of 5, one loss | `HeardIsHandedOn`, `WholeMessages` |
| `mctp_oversized` | a message of 4 packets, a buffer of 2 | violation: an empty message is handed on |
| `log` | 2 sectors of 2 entries, 3 metadata slots, 6 stores; one loss of power, one failure, one clean, 2 sessions | the order and survival of the log (`RestartContinues`, `SlotIsErased`, `RoomAtTail`, `LogInOrder`, `StoreKeepsLog`, `HoldsNewest`, `WipeHasCause`) and of what a client is sent (`SendsTheLog`, `MonitorResumes`) |
| `fwupdate` | one component of 5 units, a buffer and a sector of 4, transfers of 2 and 4, 2 requests (`UpdateComponent` or a copy), one mishap, under fairness | `WholeImage`, `BootableIntact`, `OneWriter`, `TimerGuards`, `SessionScoped`, `ReturnsToIdle` |
| `fwupdate_retry` | one component of 3 units, a buffer and a sector of 2, transfers of 1, one request | violation: a repeated answer is stored twice |

Why the bounds are enough. The hand-over of a core's semaphore involves the call
that timed out, the flash task and the next caller of that core, and the shared
queue adds a caller of the other core: three clients with one call each give
every such chain, stale requests and stale responses included. The client that
times out is on core 1, where a timeout can also meet a response that is being
posted; on core 0 it cannot, so that its behaviours are among these. Two chunks
are a first and a last. Call numbers are bounded by `MaxCalls` only. `Pds` is
finite but for its faults, bounded by `MaxLosses` and `MaxFailures`: one of each
in the passing run, so that a fault can meet the consequences of another. In
`mctp` a message of 5 packets makes the sequence number wrap and one of 7
overflows the buffer before its last packet; two messages of each sender are
what it takes to leave an assembly open and append to it. Of the message with
two packets that read as a vendor header the second is rejected and the fifth,
numbered 0 again, accepted. In `log` six stores wrap a ring of four entries and
use up three slots twice, so that the two wraps meet in different phases; one
loss and one failure can meet each other and a session, and two sessions let the
second start while the first is open. In `fwupdate` five units are, in transfers
of two, a full buffer of two chunks and a flush of a last one shorter than a
transfer, in transfers of four a page and a short rest; a sector of four is
erased at the start and once within the image; the metadata is complete after
the second chunk or after the first; two requests are an update after an update,
or a copy and an update in either order; one mishap falls anywhere in them.

`CHECK_DEADLOCK FALSE` is said where the system of the run may stop: the calls
of the clients run out (`MaxCalls`) or a client waits for good; both senders
have sent everything; the requests to the device have run out, and a copy that
failed leaves `copying` set, which refuses every further update. The other runs
check deadlock.

Fairness (`FairSpec`). FreeRTOS runs a ready task when those above it wait: weak
fairness of each client's steps inside `request()`, and of the flash task as a
whole. Calls, notifications and timeouts have none. Two wake-ups get strong
fairness, because the chain of branches prefers others: a request of kind Query
or Data can be passed over by `BackgroundCopyStart`, sent once per update, and
the next chunk by a watchdog notification, which is periodic and far slower than
the loop.

`FwUpdate`'s `FairSpec` has weak fairness of `TimerExpires` (a FreeRTOS timer
that is set expires) and of `Timeout` (the task's loop comes to the bit it left).
Nothing is assumed of the update agent, the verdict or the copy: `ReturnsToIdle`
says that if from some time on there are only timers, timeouts and verdicts, the
device goes idle.

## Disagreements of code and documentation

1. `flash_lost_event`: `_request.size() == 0` and the clear of the event are two
   steps. With two cores a request queued between them loses its event, although
   the comment says the event is cleared if the queue is empty. The caller waits
   until another request of the same kind comes. For the same reason a status
   query of one core can be served by the branch of the other core's operation,
   and is then answered Ok.
2. `flash_copy_stalls`: a receive that times out while the response is being
   sent sets a timeout bit nobody clears; the copy, which advances only if its
   bit is the only one, stops, and the core's semaphore is never given again.
   Safety is kept (`CoreExclusive`, `AnswersOwnCall`): the stale response is
   never read because nobody can enter.
3. `pds_ramp_rate`: the repair of the power settings takes any ramp rate, a
   float, for corruption and erases settings and calibration at the next boot.
4. `pds_calibration`: the marker that is committed last is programmed before the
   last calibration points in the rewrite of the structure, and the digest of a
   torn copy is valid.
5. `mctp_oversized`: a message that overflowed the buffer is cleared, not thrown
   away: `clear()` sets the flag `recv_packet()` returns, and a message without
   length is dispatched.
6. `fwupdate_retry`: an answer of the update agent that repeats a chunk is
   dropped only if the chunk is in flash already. With transfers below a page it
   may still be in the buffer, and is then stored a second time; the rest of the
   image is shifted. The authentication refuses such an image.

The limits of the assembly are in the properties instead. `HeardIsHandedOn` is
about messages that `Assembled` names: single packets of the types that have a
branch, and messages of several packets whose start `validate()` remembers and
none of whose later packets reads as a vendor header. `WholeMessages` promises
nothing once a packet arrived that is `Untracked`: of a message of several
packets of another type (NSM, Control, a foreign vendor number), or one that
reads as a vendor header. The code does lose the former and can join parts of
two messages by either; the run contains them, so that what they do to other
messages is covered.
`WholeMessages` allows a lost packet only without single-packet messages: a
single PLDM or SPDM packet makes the validator forget the message that the
composer is assembling, and if the start of the next message of that sender is
lost, its remaining packets are appended to the open one. Two losses can do the
same by themselves: the end of one message and the start of the next, with the
same tag.

A second loss of power can leave the store without a valid copy (`load_pds()`
rewrites both before judging them); `OneCopySurvives` is therefore stated for
the first.

## Proofs

### FlashTask

`FlashTask_proofs` proves, for every set of clients, kinds and bounds that
`FlashConstants` admits:

| Theorem | Property |
|---|---|
| `TypeCorrect` | `TypeOK` |
| `CoreExclusiveAlways` | one caller per core |
| `AnswersOwnCallAlways` | a caller gets the answer to its own call |
| `RequestSlotReservedAlways`, `ResponseSlotFreeAlways` | no queue is ever found full |
| `RpcRefined` | `FlashTask` implements `FlashRpc` |

The argument. A core's semaphore is a token. At any time it is in the FlashSema
queue, with a client inside `request()`, or left behind by a client that timed
out; in the last case there is a request, an answer or a timeout bit that stands
for it. `Safe` says so in seven conjuncts: `CoreExclusive`; `TokenHome` (while
the token is in its queue nothing of the core is in flight); `TimeoutLeftBehind`
(a timeout bit means the token is not with a client); `NothingPending` (a client
about to send has nothing in flight); `OnePerCore` (at most one request, being
served or queued, of a core); `Ownership` (while a client waits, what is in
flight is its call) and `AnswersOwnCall`. The first alone is not inductive: that
`DropResponse` may give the token needs that no client of the core is inside.
`RequestSlotReserved` follows by counting: at most one queued request per core
and one slot for each. For the refinement `History` adds that what was executed
is recorded once and with the status that is on its way, and `Unsent` that a call
not yet sent was not executed; then each step is a step of `FlashRpc` or a
stutter.

Assumed: `FlashConstants`, in particular that with two cores the request queue
has two slots, which is the `static_assert` of the constructor
(task.cpp:50-53).

With the clients on one core two more are proved, under the assumption that
there are no two cores: `HandlerMatchesRequestAlways` and
`QueuedRequestHasEventAlways`. Their invariant `Paired` relates the kind of the
one request of the core, wherever it is, to the event bit and to the branch the
flash task is in; with two cores it fails, which is `flash_lost_event`.

Only model-checked: the liveness properties.

### Pds

`Pds_proofs` proves, from `PdsConstants` only, so for any settings, any history
of changes and restarts and any number of faults:

| Theorem | Property |
|---|---|
| `TypeCorrect` | `TypeOK` |
| `BootSanitisesAlways` | `BootSanitises` |
| `FlashHoldsRamAlways` | `FlashHoldsRam` |
| `OneCopySurvivesAlways` | `OneCopySurvives` |
| `OtherSettingsPersistAlways` | `OtherSettingsPersist` |
| `NothingErasedAlways` | `NothingErased` |

The argument. `LoadedSane` (both images in RAM are repaired until one is chosen)
gives `BootSanitises`. `Synced` says that, while no operation failed, the primary
copy is RAM, or the beginning of RAM while it is being written; `FlashHoldsRam`
is its case for an idle store. The other two need to know what the secondary
holds at every step before the first fault (`Calm`): `Twins` says how the copies
and RAM agree in each phase of a boot and a change, `Kept` how RAM and the
secondary relate to the settings before and after the latest change, as they were
set or as the repair left them. `OneCopySurvives` then has two cases: while the
primary is written the secondary is whole, otherwise the primary is RAM. That the
repair is idempotent (`RecoveredTwice`) is what bounds the outcomes after any
number of restarts.

`NothingErased` speaks of a ready store, while the erased items come in with a
copy that a shorter firmware wrote. `Filled` says of an image that only items
beyond the size it claims may read as erased; `Genuine` that before the first
fault this holds of whatever the settings come from, in each phase: of a copy
only if its digest is valid, of RAM without a condition once a boot has chosen.
`adjust_pds()` then gives a default to every item beyond the size.

The layout in nine parts is part of the model, not a parameter. All safety
properties of the passing run are proved.

### MctpReceive

`MctpReceive_proofs` proves `TypeCorrect` and `HeardIsHandedOnAlways`, from
`MctpConstants` only: any senders, tags, endpoint IDs, message lengths, losses
and capacity. The invariant: `heard` is the beginning of one message and its
sender is not behind it (`HeardOK`, with `CurrentOK`), so the only packet that
can follow is the next one; as long as the message is not complete, validator
and composer follow it (`Following`: its tag, its endpoint, the number of its
last packet, and its packets in the buffer as far as they fit); and an overflow
is always in an open assembly (`ComposerOK`), so that a start clears it.
`HeardIsHandedOn` alone says nothing of a message in progress and is not
inductive. `Following` is claimed of messages that `Assembled` names only; what
the others leave in validator and composer is covered because a start overwrites
it.

`WholeMessagesAlways` proves `WholeMessages` under the one assumption that no two
senders share both the tag and the endpoint (`ToldApart`): only then can the
validator tell them from each other, and the run's constants are such. The
invariant, `Tracking`, is about the one sender the validator remembers, because
only its packets are not rejected. As long as nothing is lost, that sender is in
the middle of a message exactly as far as the composer has it, number included
(`Tracked`), and outside a message nothing is open unless a single packet has
come between. After a loss with an open assembly the sender is at most at its
end, still tracked, or one number ahead of the validator (`Behind`); the
validator counts on at every rejected packet, so that the distance stays and
none of the message's packets is appended. The single packet and the second
loss that the property leaves out are the two ways to break this.

### LogStore and LogDownload

`Log_proofs` proves of `DownloadSpec`, and so of the log with a session next to
it, from `LogConstants` and `DownloadConstants` only: any ring, any number of
slots, stores, losses, failures, cleans and sessions:

| Theorem | Property |
|---|---|
| `DownloadTypeCorrect` | `DownloadTypeOK`, with `TypeOK` of the log |
| `SlotIsErasedAlways` | no metadata slot is programmed twice |
| `RestartContinuesAlways` | a restart between two requests goes on with the pointers in RAM |
| `MonitorResumesAlways` | the end of a session restores the monitor's mode |

The argument. `Ordered`: the valid slots, if any, have a last one and all lie
before `index`, unless the sector is about to be erased; this is what makes
`LastSlot` well defined (the last one is kept as a witness, so that no induction
over the slots is needed) and gives `SlotIsErased`. `Current`: from the update
of the slots to the end of a request, if no error is marked and none was
ignored, the last valid slot holds the pointers in RAM; the handling of an
error, which clears the flag at its end, leaves it so. `Watched` relates the mode
of the monitor, the mode that was saved and the state of the session.

`LogRing_proofs` and `LogStream_proofs` prove, from the same assumptions, what is
in the ring and what a client gets:

| Theorem | Property |
|---|---|
| `RoomAtTailAlways` | the place of the next entry is erased, up to the end of its sector |
| `LogInOrderAlways` | the log is in the order in which it was stored |
| `StoreKeepsLogAlways` | a restart during a store loses no entry the store keeps |
| `WipeHasCauseAlways` | nothing is wiped without a failure or a loss of power |
| `HoldsNewestAlways` | without trouble the log holds the newest entries |
| `SendsTheLogAlways` | a session sends entries of the log, never a stale page |

The argument. None of these is inductive, because a restart goes on with the
last slot and not with RAM. `RingInv` says the same things of both places. Each
head is the first entry of a sector (`Heads`), so that dropping one drops a whole
sector. There is room at the tail, in RAM (`RoomRam`, by step of the request) and
where the last slot points (`RoomFound`), except in the steps between filling a
sector and erasing the next one, which is where a loss of power sets `torn`. The
entries from head to tail are in order in both (`Sorted`), and what is about to
be written is newer than all of them (`Fresh`). `Pending` relates the two places
in the middle of a store: RAM is exactly one step ahead of the slot, and the step
of the head drops only what the store overwrites; `StoreKeepsLog` is read off it.
`Cause` follows the error flag back to what set it. `Newest` gives the
distance of an entry from the tail as its age. A clean, a boot without slots and
the handling of an error are covered by `Phases` and `CleanFound`. The ring's
arithmetic (distances around the wrap, sectors as multiples) is in lemmas ahead
of the steps.

For `SendsTheLog`, `Streams` adds that what a session has still to send lies in
the log and not where a store is writing, and that the page agrees with flash as
far as it reaches: a store only erases or writes outside the log, unless it drops
entries, which sets `moved`.

### FwUpdate

`FwUpdate_proofs` proves, from `UpdateConstants` only, so for any components,
sizes, images and number of commands and mishaps:

| Theorem | Property |
|---|---|
| `BootableIntactAlways` | a slot marked bootable holds a whole image |
| `OneWriterAlways` | no update runs while a copy writes the slot |
| `TimerGuardsAlways` | a device in an update has a timer that ends it |
| `SessionScopedAlways` | only what got a verdict in this update, a failure or not, is activated or staged |
| `FwTypeCorrect` | `TypeOK` |
| `WholeImageAlways` (`FwImage_proofs`) | a transferred image is in flash unit by unit |

The argument. `BootableIntact` needs to know that the mark is gone before the
first unit is written, or `unmarked` says why not (`Marked`), that a copy that
runs is polled (`Polled`) and that until its end is seen the task is idle, knows
of it, and a finished copy is whole (`Ended`): these and the form of the
variables are `Intact`; `OneWriter` follows from `Polled` and `Ended`.
`TimerGuards` is inductive once the two timer variables are known to be Boolean.
For `SessionScoped`, `Judged` says that from the transfer state on the listed
components are among those that got a verdict: `PassComponent` empties the list
on the way there.

For the types, `retry` has to be known to be at most `PN1` in the states that
repeat a request, and a chunk that is stored to fit in the buffer.

`WholeImage` speaks of the end of a download; its invariant, of every moment of
one that met none of the cases the property leaves out (`Downloading`). Then what
was written is a prefix of the image, the buffer holds the units that follow it,
offset and address are equal and a multiple of what is written at once, and from
there on the slot is erased up to the end of the sector that was begun (`Blank`)
or, at such an end, will be erased by the next write (`Progress`). That a write
never straddles a sector is where the sizes have to divide it, and `MultipleGap`,
`MultipleOf` and `WriteKeeps` are the arithmetic of it. Before the metadata is
complete nothing is written and the buffer is empty; the length of the expected
answer is always that of the last request (`Downloads`), so that an answer that
is taken is the next chunk or marks the download (`tainted`). `ChunkStored` and
`ImageStored` are the two outcomes of a chunk, and `StaysPut` covers the actions
that move nothing. The copy is kept out by `Polled` and `Ended` of the invariant
above.

Only model-checked: `ReturnsToIdle`, which is liveness.

### What is left to TLC

Every invariant and action property of the passing runs, and the refinement of
`FlashRpc`, is proved. What remains are the four liveness properties, which are
out of the prover's reach, and the six runs that expect a violation.

## Not modelled, and the plan

In this order:

1. `MctpSend`: splitting a message (`gen_packet()`), composed with
   `MctpReceive`.
2. Boot slots: the choice of the bootloader over the PDS keys and the watchdog's
   record in the CDOG register, and which slot a hang is held against: the slot
   written down is the one that was meant to run, also when the limit of
   switches (`run_on_index()`) keeps the device in the other. `FwUpdate` has the
   bootloader's choice only where an update or a copy depends on it.
3. The one-slot queue of the PLDM task, shared by packets and verdicts.
4. The C2C link (`ipc_task.cpp`) and the conversion of timeouts to ticks, if
   bounds allow.
5. Further proofs: an abstract log (a sequence of entries that loses its oldest)
   and a proof that `LogStore` implements it; an abstract register for `Pds`.

Left aside: sensor and register access over I2C/I3C, fixed-point power smoothing
(covered by bounded model checking of the C++ in `verification/`), cryptography,
USB plumbing and the field translation of NSM messages; `PROJECT.json` gives the
reason for each.
