# Verification of ATOMAN in TLA+

ATOMAN is firmware infrastructure in C for power-electronics controllers: a
run-time built on linker sections, a preemptive scheduler for loadable task
groups ("STL"), a bootloader with in-application update, a flash abstraction,
frame communication with routing, debug services, and the controllers and
protections of several converters. These modules model the parts whose
correctness depends on interleaving, interruption or long sequences of calls.
Paths below are relative to the repository.

Contents: [inventory](#inventory) - [modules](#modules-and-their-correspondence-to-the-code) -
[runs](#runs-bounds-and-what-they-show) - [fairness](#fairness) - [proofs](#proofs) -
[findings and remarks](#findings-and-remarks) - [not modelled](#what-is-not-modelled) -
[plan](#plan).

## Inventory

| component | sources | state | operations |
|---|---|---|---|
| snapshot pool of the STL scheduler | `code/section/srtos_stl/core/section.c` 140-330 | ring of allocation records, ring of pool words, per-task record index | save, restore, cancel a group, reap |
| STL scheduler and group lifecycle | `code/section/srtos_stl/core/section.c` | groups, task slots, ready FIFO, current task, sticky native request, fault latch, host owner | register, initialise, enable, disable, pause, revoke, acquire/release, attest quiescent, forget; run, yield, request native, tick, switch, callback completion |
| STL port | `code/section/srtos_stl/m/port.c`, `m7/`, `m33/` | PENDSVSET, PRIMASK, stack pointers, `dispatch_active` | launch by SVC, PendSV, return to native, lock |
| bootloader core | `code/app/bootloader/core/bootloader_core.c` | `bootloader_t`: the state machine, session, offsets, running CRCs, metadata cache | `bootloader_process`, upgrade begin, data, end |
| bootloader metadata | `code/app/bootloader/core/bootloader_metadata.c` | two record copies in flash | encode, decode, select the newer |
| bootloader protocol | `code/app/bootloader/protocol/` | the mounted instance; everything else is the core's | 0x08 info, 0x09 ready, 0x0A data, 0x0B end, each answered at once |
| IAP update service | `code/app/bootloader/iap/` | pending update, preparation, reset delay | accept 0x08 in the application, prepare, drain, hand over by reset |
| flash abstraction (FAL) | `code/lib/fal/` | `fal_t`: one request, its chunk, stop and result | read, write, erase, stop, mount, process |
| demo storage service and pool | `code/data_source/demo/`, `code/data_pool/demo/` | the transaction, a view of each device, the command slot of the pool | scan, save, load, log, test, restore defaults |
| frame protocol v1 | `code/data_source/comm/comm_v1.c` | parser state, half a frame, the last SEQ acted on | receive by byte or by block, check, dispatch, forward, answer CODEC_SELECT |
| frame protocol v0, link routing | `code/data_source/comm/comm.c` | the same for the 0xE8 frame, table of links | receive, forward, send |
| realtime scope | `code/dbg/realtime_scope.c`, `realtime_scope_service.c`, and `platform/gd32e507/bsp/src/bsp_tcp_stream.c` as its port | two channel banks, frame ring, acquisition, session | sample (interrupt), read (link task), control requests (manage task) |
| bare-metal Section, three SRTOS kernels | `code/section/` | task lists, ready sets, ticks | run, yield, create |
| other debug services | `code/dbg/` | trace, triggered scope, profiling, shell, frequency response | record, arm, drain |
| utility library, converter control and protection | `code/lib/`, `code/ctrl/`, `code/app/chb`, `code/app/npc` | filters, detectors, PI states, timers | step functions |
| host simulation | `code/sim/`, `code/interface/*/sim` | sockets, copies of firmware services | I/O |
| platform packages, Verilog | `platform/`, `verilog/` | vendor libraries, board drivers, testbenches | - |

How they interact. The main loop of a bare-metal target calls the Section
tasks, `bootloader_process`, FAL's poll and the communication task one after
the other. With STL, the main loop is the *native* context: it calls
`section_stl_run`, which launches tasks on PSP and returns when nothing is
ready or native work was requested. Interrupts call the same STL API and the
debug rings. The protocol layer translates frames into the three session calls
of the bootloader core; the core submits one flash operation at a time through
an interface table and polls its result; the application talks to the
bootloader only through a retained request and a reset, and the bootloader
talks to its own next life only through flash. The storage task polls FAL and
then its own transaction; business code and storage meet in one command slot of
the data pool. A communication link is read by one task, which also runs the
handler of a frame. The scope's ring is written by the sampling interrupt, drained
by the task of its data link and reset by its manage task, and on a preemptive
kernel (`srtos_m` on the GD32E507) those two tasks preempt each other anywhere.

What is hard, and what makes each component correct:

* *Snapshot pool.* Frames are freed out of order, but space is reclaimed only
  from the oldest. A frame that does not fit behind the tail wraps and is
  charged for the words it strands. Correct means: a task resumes with exactly
  the words it was preempted with, no refusal while there is room, and the
  internal consistency checks never fire (they would stop the scheduler for
  good).
* *STL scheduler.* Revocation may come from an interrupt while the group's
  init callbacks run outside the lock, while one of its tasks runs, between the
  request for PendSV and PendSV, or between PendSV and its return. Correct
  means: a revoked group has nothing left on the CPU, in the queue or in the
  pool; an attested cleanup stays valid; nothing names a forgotten group; tasks
  run only under the owner the host accepted; revocation, native requests and
  ready tasks are served although callbacks need not return.
* *Bootloader.* Power can be lost at every flash operation, a torn sector can
  hold anything, an operation that is reported as failed may have happened.
  Correct means: only a complete image gets the CPU; the two metadata copies
  behave as one atomically written register; recovery is restarted a bounded
  number of times and, undisturbed, ends with the new application running; the
  old application is not touched before a record says so.
* *Upload.* Frames and answers are lost, repeated and left over from an upload
  given up before, while a packet that was acknowledged is still being
  programmed. Correct means: success is reported only for what is stored, and
  repeating a frame always gets the host on.
* *FAL.* One request becomes many chunks, each can fail, be stopped, or be cut
  by a power loss. Correct means: a request answered SUCCESS has taken effect on
  all of its cells, and no cell it was not about changes.
* *Storage.* Four operations make one record. Correct means: the newest record
  is the old one or the new one at every moment, the log loses only the block it
  reuses, a reported result is true, and every request is completed.
* *Frame reception.* The start byte also occurs inside frames, and what follows
  a damaged frame is read in the state it left. Correct means: only frames that
  were sent are acted on, each once, and nothing damaged costs a later frame
  once the line was quiet.
* *Realtime scope.* The interrupt fills the ring while the link task drains it, and
  `manage()` stops, swaps, starts and changes sessions in the middle of a read. Correct
  means: a client gets whole frames of its own acquisitions, in order, with the
  layout it was told, no read overruns its room, leftovers do not lock the
  scope, and the port reports a client only while it has one (it does not: see
  the [observations](#findings-and-remarks)).

`PROJECT.json` lists the components with their status, and under `hazards`
each of these behaviours at its line with the properties that cover it.

## Modules and their correspondence to the code

```
 SnapshotStore    <== refined by ==  SnapshotPool   --- MCSnapshotPool
                                          \------------ SnapshotPoolProofs
 SectionStl                                         --- MCSectionStl
     \---- SectionStlProofs
 DurableRegister  <== refined by ==  Bootloader     --- MCBootloader
      \                                   \-- extended by  BootProtocol --- MCBootProtocol
      \                                   \-- BootloaderProofs
      \                                          \-- BootProtocolProofs (also on BootProtocol)
       \<========= refined by ==  DemoStorage       --- MCDemoStorage
                                    \     \-- extends  Fal --- FalProofs
                                     \-- DemoStorageProofs (also on FalProofs)
 RealtimeScope                                      --- MCRealtimeScope
     \---- RealtimeScopeProofs
 CommV1                                             --- MCCommV1
     \---- CommV1Proofs
```

**SnapshotStore** is what the pool promises: one optional frame per task,
returned unchanged.

**SnapshotPool** is `records_reap`, `snapshot_save`, `snapshot_restore` and the
record part of `group_cancel`. Variables carry the code's names. The code runs
each operation under the port lock; the model keeps the loop of `records_reap`
one iteration per step, with `lock` naming the operation in progress, so that
the invariant has to hold between iterations as well (which is also what makes
it provable without induction over the number of reaped records). `SaveBegin`,
`ReapPop`, `ReapEnd`, `SavePlace`/`SaveReject` are one `snapshot_save`;
`Restore` and `Cancel` end in the same reap. The three checks that latch
`SECTION_STL_CORRUPT` are modelled as the code has them. What a caller can be
is a precondition of the actions only where the scheduler guarantees it:
`snapshot_save` is called for the running task, which is not in `TASK_OLD`.

**SectionStl** is the scheduler. Each API call runs under the port lock and is
one action; the windows in which the lock is free inside a longer operation
are separate steps, because interrupts use the API there:

| `phase` | code |
|---|---|
| `native` | main loop, `dispatch_active = 0` |
| `svc` | `section_stl_switch` called from the launching SVC |
| `thread` | a task's callback runs on PSP |
| `finish` | `section_stl_entry` after the callback has returned |
| `enter` | PendSV entered, interrupts not yet masked |
| `select` | `section_stl_switch` after the departure of the old task |
| `exit` | PendSV leaving with interrupts open again |
| `return` | `native_restore` done, `section_stl_port_run` has not yet cleared `dispatch_active` |

Departure and selection of `section_stl_switch` are separate actions although
both are under one lock: nothing else is enabled between them, and each reads
like its part of the function. The managed init transaction is
`InitBegin`, one `InitCall` per callback (preceded, as in the code, by a check
for revocation) and `InitEnd`. The host is its two hooks: `hold` is the answer
of `section_stl_host_switch_allowed`, which may change at any time, and an
owner commit may be refused. A task's time is an `age` (ticks since its period
was rebased) instead of an absolute tick with its 32-bit wrap, and `elapsed`
instead of `slice_start`; the tick arithmetic of the code is relative and
correct while periods and slices are below half the range, which
`StlAssumption` states. The allocation history is a sequence of live and
consumed records; where a frame lies is SnapshotPool's subject, and a full pool
is a nondeterministic refusal (`Exhaustible`).

**Bootloader** is `bootloader_process` and the session calls. Each state of
`bootloader_state_t` is a value of `core.state`; `Submit` is the submitting half
of a state, and one action per `_WAIT` state is the half that handles the
result. `op` is the flash operation in flight, `result` what
`p_result_get` will report. `flash` and `request` survive `Reset`, `core` does
not. Data are chunks: a packet, a copied block and a verified block are one
chunk, a cell is the package it came from, `Erased` or `Corrupt`, and the CRC
of a string is the string (CRC collisions are left out: with them no property
of this kind holds of any program). Commits are `METADATA_ERASE`,
`METADATA_ERASE_WAIT`, `METADATA_WRITE`, `METADATA_WRITE_WAIT` as in the code.
Faults, bounded in number by `MaxFaults`, can hit every step: `SubmitRefused`
(the interface refuses), `FlashFailed` (the operation fails, having been
carried out, or in part, or not), `FlashSpoiled` (it reports success and has
not happened as told), `Reset` during an operation, `JumpFailed`.

**DurableRegister** is what two alternating copies promise together, for the
bootloader's metadata and for the demo's parameter slots alike: one record,
which at a power loss or a failed commit is the acknowledged one or the one
being written. A record whose commit was *reported as failed* may have landed;
the next commit replaces it. The abstract register allows exactly that and
nothing further back.

**BootProtocol** puts the four frame handlers (`info_handle`, `ready_handle`,
`data_handle`, `end_handle`) on top of Bootloader's session calls, and
the update service of the running application in front of them. A handler
consumes its frame and answers in the same step: it never waits for a flash
operation. `DataHandle` is `bootloader_packet_submit` in its order: the last
packet again is confirmed without effect, any other unexpected offset is
refused, and so is everything while the core is busy. `UpdateInfoAct`, `Prepared`,
`PrepareFailed`, `Drain` and `HandOver` are `iap_update_service`: acceptance,
the platform's preparation, the delay that lets the answer leave, and the
retained request followed by a reset. The host is external: it sends one frame
and waits, as
`docs/application/bootloader/bootloader_upgrade_usage.md:72-77` asks, may time out
too early, may give up and begin again with another package. The link drops frames and answers
in both directions, and what is left of an abandoned upload is still on it.

**Fal** is `fal_core.c`: `Verdict` is the chain of checks of a request, `Request`
what an accepted one changes, `Process` one pass of `fal_process`, split by what
the pass finds: a failed device, a chunk to issue, a chunk done, a
synchronisation done. `StopRequest`, `Mount` and `MountFails` are the other
entry points. Addresses count *cells*; a cell is whatever unit the properties
tell apart. The demo gives every instance one device, and so does the model. The
device is external: it is busy, ends or fails, and a failed or interrupted
operation leaves each of its cells as it was or torn, or everything done. A
program on a cell that is not erased tears it. `FalSpec` closes the module with
an arbitrary user.

**DemoStorage** is the storage task, which polls the two instances and then its
own transaction, with the two sides of the command slot in the data pool. A cell
is a page here; of a block only the two pages that matter exist, the data page
and the commit page of a record. `worker` is the transaction, and its phases
are the code's: scan of both parameter slots and of the log, decision, erase,
write, read back, commit, read back, finish. `Submits` and `Transferred` are the
two halves of `transfer`. `view` is what the service remembers of a device,
`pool` the command slot with its busy and taken flags. The initial devices are
`Blank` or `Worn`: one that has served until its sequence numbers are about to
wrap. `kept` is a history variable for the log.

**RealtimeScope** is the sampling interrupt, the manage task of `realtime_scope.c`
with its command service, and the link task with the port it polls
(`bsp_tcp_stream.c`). On the GD32E507, which builds with `srtos_m`, the two tasks
preempt each other anywhere and the interrupt preempts both, so a step of a task is one
critical section or one access to what another task writes. `manager` is the place
inside `manage()` with the session it has read there. `reader` is the place inside
the pass of the link task: the port notes its session and its room (`ReadBegin`);
`service_read()` tests the link (`ReadLink`), loads the two sessions in either order and
compares them once (`ReadSession`, `ReadCompare`), then pops frame after frame, one
critical section each (`ReadPop`, `ReadEnd`), collecting them in `reader.frames`; the port
discards them if the link was reset meanwhile (`LinkCheck`) and else stages them, even if
it is reset now (`LinkStage`). `AcceptCheck` and `AcceptPeer` are the two halves of
`accepted()`: its test of the reset request is outside the critical section that begins the session.
The ring is kept byte by byte with the frame each byte came from (`Sampled`), because
the hazard is a frame read with a stride it was not written with; `Popped` is
what a client makes of the bytes it gets. `prepared` is a history variable: for each
acquisition, the layout the last successful swap had reported before it was started, which
is the one the host prepares its decoder for (`realtime_scope_design.md:664`).
`active` and `config` are the banks the two pointers point to. Waiting requests are counted
only: nothing looks at what they ask before they are served in their order, so that the choice is
made there (`ServeStop` ... `ServeStart`).
The ESP32-C5 boards run the pass of the link task with task switches disabled
(`comm_link.c:41-46`), so that only the interrupt can enter it: fewer behaviours of the same model.

**CommV1** is the receive parser of one v1 link, byte by byte: one action per
state of the parser in `RunByte` (`comm_v1_run`), and `RunBlock` for the block
copy of `comm_v1_run_buffer`; `blocks` says which way in the link's transport
uses. A byte's value is read by the state that meets it, so every confusion of
a shifted stream is there: a payload byte as a start byte, a sum as a length. The
sum byte has the value `comm_sum_encode` gives it, escapes included, wherever
it is read as something else; as a checksum it is ideal (it remembers what it was
made from): which damaged frames an 8-bit sum lets through is arithmetic, not
protocol. The host
and the line, which loses, alters and delays bytes, are external.

The `MC` modules hold only the values of constants, the choice of an initial
state and, for the bootloader, a symmetry and a view (below). `PROJECT.json`
maps every definition to the lines it stands for. Definitions whose name has a
suffix (`Forget_Unattested`, `NewSeq_Always`) are deliberate defects used to
show that each property can fail; no specification uses them.

## Runs, bounds and what they show

| run | what it shows | instance | distinct states |
|---|---|---|---|
| `pool` | the accounting of the two rings (`RecordsMatchTasks`, `RingInv`), no two records share a word (`SpansDisjoint`), no internal check ever fires (`NeverCorrupt`), a frame is refused only if the records are used up or no run of unreserved words is long enough (`RejectsOnlyWhenFull`), refinement of SnapshotStore (`ImplementsStore`) | 5 words, 3 records, frames of 1, 2, 3 words, 3 tasks in 2 groups | 452,126 |
| `stl_life` | a revoked group is out of the CPU, queue and pool (`ClosedIsOut`, `QueueSound`); a paused one is idle (`PausedIsIdle`); attestation cannot be overtaken (`QuiescentIsRetired`); nothing names a forgotten group (`NothingOutlivesForget`); no step reopens a closed incarnation or reuses a generation (`ClosedIsFinal`); every revocation completes, even if the callback never returns and the pool is exhausted, once the host stops forbidding switches for good (`RevokeCompletes`) | 2 groups, one with an init callback, a lease holder, two generations | 369,985 |
| `stl_host` | tasks run only under the committed owner, native code under none (`OwnerCommitted`); a task waits in `TASK_OLD` exactly with one live record (`SnapshotsMatch`); `section_stl_run` leaves nothing ready or due behind (`ReturnsOnlyWhenIdle`) | 2 groups, host hold and refusal at any time, exhausted pool, yields, native requests | 1,449,338 |
| `stl_fair` | native requests are served (`NativeServed`) and no ready task starves (`EveryTaskRuns`) | 2 tasks of one group, one of which repeats itself | 86,685 |
| `boot_core` | only complete images boot (`BootsOnlyComplete`), the metadata describe the image truthfully (`ImageGuarded`), recoveries are bounded and a target that does not verify is not installed again without the host (`InstallBounded`), flash is programmed only where erased (`ProgramsErasedOnly`), the old image survives until the candidate is complete (`OldImageKept`), the copies are one register (`CommitsAreAtomic`) | 2 packages of 2 chunks, direct by the host and staged by the application, 3 faults, 1 retry | 1,297,943 |
| `boot_upload` | an 0x0B is answered with success only if the download zone holds what the host sent (`EndMeansStored`); a host that keeps repeating gets the new application running (`UploadCompletes`); an undisturbed recovery ends with it running (`RecoveryCompletes`) | 2 packages of 2 chunks, one upload given up, lossy link, 1 fault | 220,765 |
| `storage` | saves are atomic on each device (`SavesAreAtomic`, the refinement of DurableRegister); the log loses only the block it reuses (`LogKept`); results are true (`ReportsAreTrue`); a request that FAL answers SUCCESS took effect and touched nothing else (`DoesWhatIsAsked`); every request is completed (`RequestCompletes`) | 2 devices, one at the wrap of its sequence numbers, one with a synchronisation; 3 log blocks, 2 requests, 1 fault | 444,306 |
| `scope` | with `manage()`, the link task and the interrupt preempting each other at every step, a client gets whole frames of its own acquisitions, in order, laid out as it was told (`StreamExact`); no read overruns its room (`ReadFits`); leftovers of an ended acquisition are read or discarded, unless the port reports a client it does not have (`LeftoversClear`) | 1 channel of width 1 or 2, ring of 13 bytes, 2 starts of 2 and 1 samples, 3 sessions | 969,652 |
| `comm` | only frames that were sent are acted on, field for field, once and in order (`ActsExactly`); after a quiet line a link fed byte by byte acts on every frame for it (`BytesRecover`) | 3 frames, payloads that contain the start byte, 1 lost or altered byte, 2 sessions | 9,268,566 |
| `boot_read_error` | finding 1 | 2 packages, only metadata reads fail, 2 faults | violated |
| `boot_abandoned` | finding 2 | as `boot_upload`, no faults | violated |
| `comm_block` | finding 3 | as `comm` | violated |

Why the bounds are enough.

* *pool*: with 5 words and frames of 1 to 3 words the tail wraps, stops exactly
  at the end, meets the head exactly (full and empty pool with equal indices),
  and strands 1 or 2 words. Three records allow a tombstone between two live
  records. The proofs cover every other size.
* *STL*: two groups are what one group's revocation can disturb; two
  generations are what a stale handle can confuse. In `stl_life` every handle
  ever given out may be presented to every call. The slice is one or two ticks
  so that a quantum can be partly used. `TickMod` is above twice the longest
  period and slice, as the code's arithmetic requires. Calls a configuration
  leaves out (`Calls`) are covered by another one: yields and native requests
  are left out of `stl_life`, and the lifecycle is reduced in `stl_host` and
  `stl_fair`.
* *bootloader*: with two chunks an image has a header and a footer, and a
  half image exists. Two packages are what an old and a new image can mix.
  Three faults allow a failed commit, a power loss in the next one and one
  more in the recovery. One retry gives both a recovery and its refusal.
  `SequenceMod = 4` makes sequence numbers wrap within a few commits. In
  `boot_upload` one restart leaves frames and answers of an earlier upload, of
  the same or of another package, in the second; the one fault may be a power
  loss or a failure in either. The host there goes on to 0x09 after a rejected 0x08
  (`OnReject = "ready"`), which is how it rejoins a session whose 0x08 was
  accepted and whose answer was lost.
* *storage*: three log blocks are one being erased and two that must stay. Of
  two requests the second meets what the first, or the fault in it, left. The
  worn device wraps its parameter and log sequences with the first record. One
  fault anywhere includes a power loss, which restarts the whole boot scan; a
  second one would only repeat the scan.
* *scope*: 13 bytes hold two frames of one channel of width 1 and one frame of
  width 2, so that the queue fills, wraps, and leaves a rest that no frame uses. The
  room of 13 takes both narrow frames in one read, with `manage()` at any point
  between, but refuses a second wide one. Of three sessions, which count for accepting and
  for dropping as in the port, two can have a client. The two starts may differ in their
  layout, and so in their stride, which is what `ReadFits` is about. `MaxSamples` is for the
  first start; the second takes one fewer. With `RequestDepth = 1` a
  request can be refused; requests then still arrive at every point of `manage()`. The
  index does not wrap in this instance; the proofs cover that, and every other size.
* *comm*: with two values of SEQ the numbers wrap at the third frame, which
  is where deduplication against the *last* SEQ matters. The start byte is a legal
  payload, length and noise. `CanSend` keeps at most one unread byte before the
  next frame, enough to shift one frame into the next. One damaged byte is
  what every recovery starts from; a second one before the line is quiet only
  postpones it.

Symmetry and view. `Interchangeable` exchanges the two packages: no definition
of Bootloader tells them apart. `Live` fingerprints a state without variables
that are always overwritten before they are read again: the session's fields
once it is over, the result of an operation that was already observed, and the
count of erases when no install is under way. Two states with the same view
have the same behaviours as far as the properties of those runs can see.
Symmetry and view are used for safety only (`boot_core`, `boot_read_error`);
no run with a liveness property uses either.

Deadlock is checked in every run but two: those of BootProtocol (`boot_upload`,
`boot_abandoned`) stop when the upload is over and its application runs.

## Fairness

* `WF(Dispatcher)`: PendSV, SVC and the transactions under the lock run to
  completion once started; they contain no wait.
* `WF(Tick)`: the timer keeps interrupting.
* `WF(InitCall)`, `WF(InitEnd)`: managed init callbacks return; `section.h`
  says they must.
* `WF(Run)`: the native main loop keeps calling `section_stl_run`.
* Task callbacks are *not* assumed to return, and the host is *not* assumed to
  release its hold: `RevokeCompletes` has that as an explicit hypothesis
  (`<>[]~hold`).
* `EveryTaskRuns` has the hypothesis that native requests do not arrive in
  *every* return window of `section_stl_port_run`: such a request is accepted
  with `dispatch_active` still 1 (`port.c:351`), stays pending and ends the next
  dispatch before a task ran.
* Upload: `WF(CoreProcess)`, the main loop polls; `WF(CoreFlash)`, an operation
  that was started ends; `WF(Prepared \/ Drain \/ HandOver)`, the application
  calls its update service; `WF(HostSend)`, the host repeats a frame that was not
  answered. `SF(Handle)` and `SF(HostReceive)`: a link that is tried again and
  again does not lose everything. Without strong fairness here nothing could
  be promised of any protocol. Power losses and failures are bounded by
  `MaxFaults`, and `UploadCompletes` and `RecoveryCompletes` start where they are over.
* Storage: `WF(ServiceProcess)` and `WF(FalProcess(d))`, the task is run every
  millisecond; `WF(ChipStep(d))`, a device ends or fails what it began.
* Scope: `WF(Manage)` and `WF(Pass)`, the scheduler gives both tasks their slices for
  ever and each calls again what it has finished (`REG_TASK`); `Pass` holds the steps the link
  task owes once it has begun a read, an acceptance or a reset. `SF` of a
  `ReadBegin` with room for a frame: a client that goes on taking bytes frees the
  port's ring again and again, though not at every pass. Nothing is assumed of the
  interrupt, of peers that come and go, or of the operator. `LeftoversClear` excepts
  the state in which the port reports a connection with no peer behind it (see the
  first of the [observations](#findings-and-remarks)), in which nobody will read.

## Proofs

`SnapshotPoolProofs` proves, for every pool size, history length, set of tasks
and set of frames allowed by `PoolAssumption` (sizes are positive, frames are
not empty, the absent value is none of the others):

| theorem | |
|---|---|
| `Safety` | `Spec => []IInv` |
| `TypeCorrect` | type correctness |
| `RingCorrect` | the ring accounting never loses or double-counts a word |
| `RecordsCorrect` | live records and tasks in `TASK_OLD` correspond one to one |
| `Uncorrupted` | the pool never latches `SECTION_STL_CORRUPT` |
| `PrefixReclaimed` | no consumed record stays at the head after an operation |
| `Disjointness` | no two records share a pool word |
| `NothingWasted` | `Spec => RejectsOnlyWhenFull`: a frame is refused only if the records are used up or no run of unreserved words could hold it |
| `Refinement` | `Spec => ImplementsStore`: a task resumes with the frame it left |

The argument. `IInv` is the conjunction of `TypeOK`, `RecordsMatchTasks`,
`RingInv`, `OldestIsLive` and `NeverCorrupt`; each but the last is needed for
the next step to be safe. The heart is `RingInv`. It measures the end of each
record as a distance around the ring from `pool_head` (`Reach`), says that each
record's charge is the difference to the record before it, and that the newest
record ends at `pool_used` and at `pool_tail`. Neither disjointness nor the
absence of corruption is inductive alone: both follow from the sum of charges,
and `ChargesAdjacent` expresses that sum between neighbours and between any
two records, so that no induction over the number of records is needed.
`DistanceShift` and `PositionShift` say what popping the head does to all
distances at once, `PlaceReach` that a frame accepted by the code's head and
tail comparisons ends exactly its charge beyond the words in use, and
`RingSpansApart` that different distances mean disjoint words. For the
refinement, `FramesKept` (every kept view is a frame) is added, and each action
is mapped: `SavePlace` to `Keep`, `Restore` to `Resume`, `Cancel` to `Drop`, and
the rest to stuttering, because a step that moves no live record and writes no
word under one leaves every view as it is (`ViewKept`). For `NothingWasted`,
`CoverInv` is added: every word from `pool_head` on, as far as words are charged, is
reserved by some record (`Covered`; a pop uncovers exactly what it retires,
`ReservedReach`), and only a record at the start of the pool has skipped words
(`GapsLead`). `FreeRunFits` then places any free run on one side of the words in use, where
one of the comparisons of `snapshot_save` finds it. That a word is reserved is kept
step by step, so no cardinality of a union and no sum over the records is needed.

`FalProofs` proves, for every number of devices, every layout, every page,
block, unit and read size allowed by `FalAssumption` (zones are whole blocks,
pages and blocks whole units, as `device_validate` and `zone_validate` check) and
whatever a user writes (`PayloadAssumption`):

| theorem | |
|---|---|
| `Invariance` | `FalSpec => []IInv` |
| `InBounds` | a request stays in one zone, a program chunk in one page, an erase on whole blocks |
| `Effect` | `FalSpec => DoesWhatIsAsked`: a request answered SUCCESS has taken effect on all of its cells, and no step changes a cell the request under way is not about |

The argument. A success says something about *all* cells of a request while
the code remembers only where it has got to, so `DoesWhatIsAsked` is not
inductive. `IInv` is `TypeOK` and, for each device, `Resting` or `Underway`; the
latter says that what is left is the end of what was asked (`Remainder`), that
the device is carrying out the next chunk, the synchronisation, or nothing, and
in agreement with `state` and `chunk_length` (`Issues`, `Chunked`,
`Synchronising`), that the data left are the end of the data given (`Assigned`),
and that everything before the remainder has taken effect (`Effective`). The
lemmas about `RoundDown` and `RoundUp` show that a rounded erase is whole
blocks and stays inside a zone of whole blocks; `ChunkFacts` bounds a chunk by the
remainder and its page or block; `CommittedFacts` is `completed_chunk_commit`;
`ChunkTakesEffect` extends `Effective` by the chunk the device has ended, and
`OutsideUnchanged` limits what a working, failing or interrupted device can
touch to the cells of its job. `OneDevice` reduces a step to the device it
concerns. The theorem is about `FalSpec`, FAL under any user; `StoreIsServed` below
is the same property where the storage task is the user. For that the steps of FAL
are lemmas about `IInv` alone (`DeviceStep`, `IssueStep`, `SuccessTells`,
`OnlyWhatIsAsked`), which do not care who made the request.

`DemoStorageProofs` proves, for every layout of the zones and all permissions and unit
sizes allowed by `FalAssumption` and `StorageAssumption`, every number of log blocks,
every set of parameters, any number of requests and faults, and every modulus of
sequence numbers above 4 and above twice the log:

| theorem | |
|---|---|
| `StorageInvariance` | `StorageSpec => []StorageInv` |
| `LogIsKept` | `[]LogKept`: the last `LogBlocks - 1` entries are in flash, the last of them is found |
| `SavesHold` | `SavesAreAtomic`: the two slots implement DurableRegister |
| `ReportsHold` | `ReportsAreTrue`: what is reported as OK is in flash |
| `StoreIsServed` | `DoesWhatIsAsked` for the requests the storage task makes |

The argument. The slots and the log are the same thing, a ring of blocks each of
which holds an intact record or none, of 2 and of `LogBlocks` blocks. `Ordered` says
what no single step shows: going back from the head, the numbers go down by one
(`Earlier`, which skips 0 where they wrap), the entries that must be kept are the
first ones met, and any other block with a record is the one to be used next, with a
record just old enough. While the numbers in a ring span less than half of the modulus,
`demo_storage_record_newer` picks the head (`NewerByAge`, `NewestIsHead`); that is
why the modulus is bounded from below. `OrderedAppend` is the new entry in the
block after the head, `OrderedForget` what an erase may take away. `StorageInv` is
FAL's `IInv` with nine parts. `RingsInv` says that both rings are ordered at every
moment, so after a power loss at any moment, when nothing else is known. `ScanInv` says that
a scan without a failure knows the newest record of the blocks it has been through (`Seen`),
so when it is complete it knows the head (`ScanComplete`) and a write goes to the block after
it. `SaveInv` and `LogInv` say how far the write has got: the commit page is erased until the
data page has been verified, so that a block counts as a record only once its commit page has
landed, whole, under the right number. `CommitInv` says that this happens once: after the
commit page is programmed the device is not asked to program it again. `TransferInv` ties the
phase of the transaction to the request FAL is working on. `DiskStep` then bounds what a device,
working, failing or interrupted, does to flash by the target block of the phase, and `BlockStep`
what that makes of the ring. `TestInv` keeps the test zone apart, and `FinishInv` is what is about
to be reported. The worn device, whose numbers wrap with the next record, is in order at the start
(`WornInOrder`). For `SavesHold`, `SaveOutcome` reads the register off the ring: the newest
record is the one being saved, once committed, or else the active slot. The theorems assume that a
page of the store is never taken for erased or torn flash (`PageAssumption`), as the magic
number and the CRC of a page have it.

`CommV1Proofs` proves, for every width of SEQ, every limit of DATA, all payloads and
requests and any number of frames, faults and sessions allowed by `CommAssumption`:

| theorem | |
|---|---|
| `Invariance` | `Spec => []IInv` |
| `Exactly` | `Spec => []ActsExactly`: what is acted on was sent, field for field, in order and once |
| `StaysOnTrack` | `Spec => []Recovering`: where the parser is when it has no excuse |
| `BytesAreRecovered` | `Spec => []BytesRecover`: after a quiet line no whole frame is swallowed |

The argument. Three facts strengthen `ActsExactly`. `Parsed`: at every state of
the parser the fields it has told apart are what stands in its wire buffer, so a
buffer that equals the bytes of a frame (`EncodedFacts`) was read as that frame
(`ReadExactly`), wherever in the stream its first byte came from. `Line`: each
sum byte on the wire belongs to a sent frame, these come in the order of first
sending, and none is older than the last frame acted on; losing and altering bytes
(`PartOfLine`), a new frame and a repeated one (`LineExtended`) keep that.
`Unrepeated`: a half-read frame has another SEQ than the last one acted on, which
with `Line` makes the next one acted on strictly newer. That the same SEQ
comes round again after `SeqCount` frames needs no assumption, because only an older
frame could be mistaken for a new one, and there is none on the line. The
ideal checksum is what the theorem rests on outside the code.

`BytesRecover` says only that nothing is owed when the wire is empty, which is far from
inductive: whether a frame will be acted on is decided byte by byte. `Recovering`
says where the parser stands while it has no excuse (`clear`, or a frame is owed): idle with an
empty wire, or after the first `k` bytes of some sent frame `m` that it admits
(`Reading`, `Admitted`), with the rest of `m` on the wire and after it nothing
(`LastAhead`) or one whole frame that will be admitted once `m` is done (`NextAhead`).
`StartReads` to `DataReads` take the parser from `k` to `k + 1` in each of its
states, `SumReads` ends the frame, and `Kept` carries the prefix in the buffer along; `FrameOpens`
has the decoding of LEN, where the largest payload is sent as 0. A frame that is ahead has not been
acted on (`NotAnswered`, from `Line` and the last SEQ), so what is owed changes only
at its own sum byte. `TransmitStep` shows that the SEQ the host reckons with
(`SeqAhead`) is the one the parser will hold by then. Faults and a pause in the middle of
a frame void the debt, so they make no demand; only the timeout of `comm_v1_run`, which gives
the half frame up, makes the line clear again. The block path has no such timeout,
and the theorem is, as finding 3 shows, false for it.

`BootloaderProofs` proves, for every set of packages, every number of chunks, retries and
faults, every modulus of sequence numbers from 3 on, and all failing operations but one, allowed by
`BootAssumption`:

| theorem | |
|---|---|
| `Invariance` | `MetadataReadable /\ Spec => []IInv` |
| `TypeCorrect` | type correctness |
| `RunsOnlyComplete` | `BootsOnlyComplete`: only a complete image gets the CPU |
| `AlwaysGuarded` | `ImageGuarded`: the record a power-on would find tells the truth about the image |
| `OldImageSafe` | `OldImageKept`: the application changes only after a record says that it may be lost |
| `Atomicity` | `CommitsAreAtomic`: the two copies implement DurableRegister |
| `GivesUpInTime` | `InstallBounded`: at most `MaxRetries + 1` erases of the application for a package |
| `ProgramsInRoom` | `ProgramsErasedOnly`: only erased flash is programmed |

`MetadataReadable` says that reading a metadata copy does not fail (other reads may).
It is needed: finding 1 is what happens without it.

The argument. What is in flash protects the application only because the core knows
which record is the newest, and because it has that record say what it is about to
do before it does it. `IInv` states both. `Known`: outside the scan at power-on the
core holds the number of the record it goes by, and what that record says of the
application is true (`Vouched`). `Superseded` or `Landed`: the other copy is older or
absent, or it carries the next number because a commit that was reported as
failed has landed, and then what it says is true as well. During the scan the two copies are
`Adjacent`, so that the comparison modulo `SequenceMod` finds the newer one
(`SuccessorFacts`, `NewestIs`). `Fit` lists what each state of the machine relies
on: a download that its record announces it, a copy that there is a complete
candidate digest, a verification that the chunks read so far are those in flash.
`Proposed` is the same for the state that follows a commit, under the record being
written, so that the end of a commit needs no further fact. `Carried` and
`Written` tie the operation in progress to the state that waits for it. `Change`
is what any such operation, done, failed, spoiled or cut by a power loss, can make
of the flash, and `ChangeAgrees` shows that `Agree` survives it; a power loss then keeps
what the newest record says.

For `Atomicity`, `Lands` shows that a flash operation turns the record that would be
found into the one being committed or back into the acknowledged one, and nothing
else; every other step is one that keeps the record the core goes by (`Moved`), a
step of the scan (`Scanned`), a restart, or `MetadataWritten`. `GivesUpInTime` adds
`Budget`: the number of erases never exceeds what the newest record, the record
the core goes by and the one being written count, so that a power loss cannot make the
count forget an attempt. `ProgramsInRoom` adds `Roomy`: beyond the prefix received, or beyond the
chunks copied, the zone is erased.

`BootProtocolProofs` carries this over to whole uploads, for every set of packages sent, both
upgrade modes, every reset delay and any number of restarts allowed by `ProtocolAssumption`:

| theorem | |
|---|---|
| `UploadInvariance` | `MetadataReadable /\ ProtocolSpec => []PInv` |
| `UploadsAreSafe` | `BootsOnlyComplete`, `ImageGuarded`, `ProgramsErasedOnly` and `InstallBounded` during uploads |
| `UploadsKeepOldImage` | `OldImageKept` during uploads |
| `UploadsCommitAtomically` | `CommitsAreAtomic` during uploads |
| `SuccessMeansStored` | `MetadataReadable /\ ReportsFailures /\ ProtocolSpec => EndMeansStored` |

The argument. `PInv` is `IInv`, `Roomy` and `Budget` with `Couriers`: every frame, also one
left over from an upload given up, and every request the application keeps names a package.
`ProtocolMoves` shows that each step of a handler, the host, the link or the application is a step
of Bootloader, a stutter, or a failing prepare hook (`HookFailed`), which leaves the bootloader
alone; so the step lemmas of `BootloaderProofs` apply. `SuccessMeansStored` needs one thing more.
A packet is answered when it is submitted, long before it is written, and the CRC that
0x0B compares is that of the packets received, not of the flash. `Stored` says that
the chunks the CRC has been run over are in the download zone (`Holds`), through the erase and
the commits that open a session (`Kept`, for the state that will follow) and through the write
of the next packet, which changes no cell before it (`OneCell`) and leaves, once it is reported
as written, the packet that will be added (`Landing`). 0x0B is accepted only in
`DOWNLOAD_READY`, where no write is pending. `ReportsFailures` says that a program operation that
reports success has taken effect; where it has not, only the verification of the installed image
finds out.

`SectionStlProofs` proves, for every number of groups, tasks,
records, generations and lease holders, every image and every tick step allowed by
`StlAssumption`:

| theorem | |
|---|---|
| `Invariance` | `Spec => []IInv` |
| `TypeCorrect` | type correctness, with `references` within the number of holders |
| `QueueCorrect` | `QueueSound`: the FIFO holds exactly the ready tasks, and each may run |
| `SnapshotsCorrect` | `SnapshotsMatch`: `TASK_OLD` and live records correspond one to one |
| `ClosedCorrect` | `ClosedIsOut`: nothing is left of a revoked group; a revoking one is executing |
| `PausedCorrect` | `PausedIsIdle` |
| `QuiescentCorrect` | `QuiescentIsRetired`: attestation is not overtaken |
| `ForgetCorrect` | `NothingOutlivesForget` |
| `OwnerCorrect` | `OwnerCommitted`: business code runs under its own owner |
| `ClosedStaysClosed` | `ClosedIsFinal`: no reopening, no generation twice |
| `ReturnsIdle` | `ReturnsOnlyWhenIdle` |

The argument. None of the properties is inductive alone: that a queued task may run
depends on which tasks are in `TASK_OLD` under a disabled group, that a revoked group is
off the CPU on who is current, and both on every handle naming a resident
incarnation. `IInv` has ten parts. `Control` says where the CPU is and that a fault is
noticed before the next switch; `Residence` that every handle kept in a task, record,
lease or init transaction is resident, so that a group's identity determines its handle
(`SameIdentity`); `LeasesCounted` that `references` is the number of holders with a lease,
which is what makes forgetting safe for them. `QueueHoldsReady` and `ReadyIsQueued` are the
two halves of the queue, apart because only the first survives a latched fault.
`RecordsPaired`, `GroupsSettled`, `QuiescentRests` and `HostFollows` are the rest. The
module first proves what the operators on queues and histories do (`RemovedFacts`,
`WithDueFacts`, `ReapedFacts`, `ConsumedFacts`: a choice of an ordering function
stands for the linked lists, and is shown to exist), then what each transaction does under the
invariant (`RevokeFacts`, `SelectNextFacts`, `FinishInlineFacts` and their like).
`SelectNextFacts` shows on the way that the loop of `section_stl_switch` never
drops a head: its branch for an inadmissible task is a safeguard no reachable state
needs. `ClosedStaysClosed` holds after a latched fault too; for it `RevokedRests` is
added, the part of `GroupsSettled` that faults do not break.

`RealtimeScopeProofs` proves, for every finite set of channels, all widths, every capacity
of the ring, frame budget, request depth and index width allowed by `ScopeAssumption`:

| theorem | |
|---|---|
| `Invariance` | `Spec => []IInv` |
| `StreamIsExact` | `Spec => []StreamExact`: whole frames, each decoded by its own layout, in order, none missing, none of an older session |
| `ReadsFit` | `Spec => []ReadFits`: no read writes past the room it was offered |

The argument. The client decodes by the layout it was last told, while the interrupt samples by the
active bank and the reader cuts the ring by the stride of the last start. `LayoutTold` says
that the first two agree whenever a frame can be taken, and `QueueSound` that the third does as
long as an acquisition is alive: the usable part of the ring is `k` slots of one stride, the
read position is slot `h`, the write position is the slot after the last queued
one, and each queued slot holds, byte for byte, the frame of its sample (`Geometry`,
`Contents`). A frame is written in one slot, and `SlotsApart` shows that no two slots share
a byte. `NextSlot` and `SlotFacts` are the wrap of both positions. `Expected` ties the
ring to the stream: the oldest queued sample is the one after the last the client received,
or the first of an acquisition it has seen nothing of. The rest is about the two
tasks. `SessionsForward` says that no one has read the number of a session yet to come, and
`AdoptsClean` that `manage()`, which reads the session, compares it and adopts it in steps between
which the link may drop and come back, adopts one only when the queue is its own or empty.
`ReadsForClient` follows a read through `manage()`: the link changes hands only between
two reads, so a read stays with the client accepted last; when it has compared the sessions,
the acquisition is that client's, or the link is reset and nothing will be alive before the
read is over, since a start asks for a connection. `ReadsUnreset` says that a reset during a read
disconnects the link (the one in the middle of `accepted()` does not, but no read is under way
there), so what `LinkCheck` throws away was the end of a session. `SentExact` and `Expected` speak
of `Sent`, the frames staged and those collected by the read under way, because a frame
leaves the ring long before it is staged.
The assumption that
`Channels` is finite is that of the code's channel bitmap.

`PayloadSize` is a fold, that is a recursive function over the subsets of the channels.
That it is a natural number for every set of channels needs an induction over data, which
`NaturalsInduction` offers only with an operator as parameter; here it goes by the least
counterexample instead (`LeastNat`, `FixpointExists`, `FixpointNat`), for which the
well-foundedness of `<` is enough.

Only model-checked: liveness of the scheduler, the bootloader, an upload, the storage
task and the scope.
Out of the prover's reach in principle are liveness under fairness and ENABLED.
Induction over data is within reach only where a least counterexample does, as above.
No RECURSIVE operator is used in any module.

## Findings and remarks

**1. A failed metadata read can lead to booting a half image**
(`boot_read_error`, `bootloader_core.c:206-209`).
`docs/design/bootloader/bootloader_design.md:66`
says of a direct upgrade that, because metadata records it before it starts,
no reset on the way makes a half image boot. If reading a metadata copy *fails*
at startup, the core goes to `WAIT_UPGRADE` with `metadata_sequence` 0 and
source zone `META_B`. A session accepted there writes its `DOWNLOAD_DIRECT`
record with sequence 1, which is older than a surviving `VALID` record with a
higher number. A reset during the erase of the application zone then selects
the `VALID` record and, if the header survived, starts what is left. All other
runs therefore leave failing metadata *reads* out (`Failing`) and allow every
other failure.

**2. An abandoned download keeps new ones out** (`boot_abandoned`,
`bootloader_core.c:851`). The same document counts an interrupted download among
the failures that enter the resident state (151) and says that there a new legal
0x08 can rebuild the session (157). Nothing times a session out, and
`bootloader_upgrade_begin` answers BUSY in every state but `WAIT_UPGRADE`, which
`info_handle` turns into a rejection. A host that begins again with 0x08 is
refused for as long as the bootloader is not reset; all it could do is go on with
the packet at which the lost upload stopped. `UploadCompletes` therefore starts
where no download has been left behind.

**3. The block path of the frame parser has no timeout** (`comm_block`,
`comm_v1.c:617-643`). `docs/design/communication/frame_design.md:75` and
`docs/comm_v1_protocol.md:479` have half a frame reset by the tick difference.
`comm_v1_run` checks it (339-346); `comm_v1_run_buffer` copies a block straight
into the payload while the parser is in `DATA`, without the check, and refreshes
the tick as it does. Half a frame then takes the next frames as its payload,
however late, until its length is used up. `comm.c`'s older block path is of
the same shape.

Observations that are not runs:

* A link reset while a peer is being accepted leaves a false connection
  (`bsp_tcp_stream.c:140-162`). `bsp_tcp_stream.h:29` calls the reset a
  thread-safe retirement request whose teardown runs on the owner task, and
  `test_tcp_stream.c:209-210` asserts that a reset link is not connected. `accepted()`
  tests `reset_requested` at 141 and begins the session in a critical section at
  158-162. If `manage()` serves a stop in between, `connected` is still false when it is
  cleared, and is set afterwards, with the reset still requested. The next poll tears the peer
  down (`clear_peer`, 81-100) and leaves `connected` set. The port then reports a client
  until another one is accepted, the next reset or the loss of the network: a start is admitted
  with nobody to read it, and the queue it fills refuses every swap and start. The model
  has these behaviours (`AcceptCheck`, `ServeStop`, `AcceptPeer`, `Teardown`), and the streams
  of clients stay exact in them; `LeftoversClear` would fail without its exception.
* The bootloader's design document (lines 116-131) draws transitions of the
  record to `FAILED`; the code declares that state and never writes it. A failed
  install stays `COPYING` and is given up by the retry count.
* An 0x0B sent directly after the answer to the last packet arrives while that
  packet is still being programmed and is answered FAILED, as is one repeated
  after its SUCCESS was lost; `bootloader_protocol_types.h` describes FAILED as
  failed validation of the firmware. A host that repeats gets on, as
  `UploadCompletes` shows.
* Natively preempted tasks leave tombstones behind the live head of the history,
  so `1 + (MaxTasks - 1) * SliceTicks` records are needed for the history never
  to be full; the defaults (32 tasks, 10 ticks, 32 records) can exhaust it, as
  `section.h:229` says of the response time. `stl_fair` gives the history that
  room.
* Under a host hold, `section_stl_run` returns to native without a commit.
* The branch of `section_stl_switch` that drops an inadmissible task from the
  ready queue is defensive: `QueueSound` shows the queue never holds one.
* Nothing in the build relates `SECTION_STL_POOL_WORDS` to the largest frame: a
  pool smaller than a frame refuses every save of it.
* FAL's design document draws a failing device as `WAIT_DEVICE` to `ERROR`; in
  the code the instance goes to `IDLE` with `DRIVER_ERROR` and can be used (and
  fails) again. Both demo devices have no `p_sync`; `Storage.cfg` gives device 1
  one so that FAL's path for it is exercised.
* A routed compressed frame is decoded before it is forwarded and dropped if the
  router cannot decode it (`comm_v1.c:518-534`), and `CODEC_SELECT` for a routed
  device is answered by the router (546-554); `docs/comm_v1_protocol.md:477`
  has routers forward what is not for them. The model does what the code does.
* Deduplication compares with the last SEQ of the link only, and the rest of a
  frame refused in its middle is searched for a new start byte; both are
  documented (`docs/comm_v1_protocol.md:479`) and are the conditions in `Due`.

## What is not modelled

* STL port: registers, stack-frame layouts, floating-point context and
  alignment are instructions, not state machines. The loader's checks of image
  addresses are argument checks and are taken as passed.
* Bootloader: checks of arguments, of packet lengths and of flash geometry are
  taken as passed; encoding of metadata is abstracted to valid or absent.
* Frame protocol: the transmit path, the codecs, the link table and the older
  0xE8 parser (`comm.c`), whose state machine is that of CommV1 with a CRC.
* FAL: configuration checks are the module's assumptions; several devices in one
  instance do not occur in the demo.
* Bare-metal Section and the three older SRTOS kernels: the STL kernel holds the
  hard cases; candidates for later.
* Other debug services (trace, triggered scope, profiling, shell, frequency
  response): one loop, or an interrupt that only writes.
* Utility library: sequential filters, codecs and detectors with unit tests.
* Converter control and protection: numerical code in floating or fixed
  point, outside a finite-state checker's reach except for its start-up state
  machines and timers.
* Host simulation, platform packages, Verilog: I/O, vendor code and designs of
  their own. By lines they are nearly all of the repository (CMSIS, vendor
  drivers and headers), so the share of the repository the map names is small
  whatever of ATOMAN's own code is modelled.

## Plan

1. *Done.* SnapshotStore, SnapshotPool, its run and its proofs.
2. *Done.* SectionStl with three configurations.
3. *Done.* DurableRegister, Bootloader.
4. *Done.* BootProtocol: an upload from the first frame to the new application.
5. *Done.* Fal with its proofs, and DemoStorage on top of it.
6. *Done.* RealtimeScope and CommV1, both with their proofs.
7. Proofs: *done* for all safety properties of Bootloader, BootProtocol, SectionStl, Fal,
   DemoStorage, RealtimeScope, CommV1 and the pool.
8. Candidates for models: the SRTOS kernels' ready sets and tick wrap, the
   triggered scope, the start-up state machines and timers of converter protection.
