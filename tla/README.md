# TLA+ models of the PCEE2 libretro core

PCEE2 is a libretro port of the PCSX2 PlayStation 2 emulator. Most of it is
sequential device emulation; what is hard to get right, and nearly impossible to
test, is how its threads meet: the frontend's thread, which makes the `retro_*`
calls, the CPU thread, which runs the EE and the IOP, the GS thread behind MTGS,
and the VU1 thread. This project models that part.

Paths below are relative to `src/`.

## 1. Inventory

| Component | Code | State | Operations | Meets |
|---|---|---|---|---|
| WorkSema | `common/Threading.h`, `common/Semaphore.cpp` | one atomic integer (worker's state, notifications, waiting bit), two kernel semaphores | `NotifyOfWork`, `CheckForWork`, `WaitForWork[WithSpin]`, `WaitForEmpty[WithSpin]`, `Kill`, `Reset` | used by MTGS, MTVU, GSJobQueue |
| Libretro session and pacing | `pcee2-libretro/Libretro.cpp` | session flags, run token / frame ready, work queue, context flags | `retro_load_game`, `retro_run`, `retro_reset`, `retro_serialize`, `retro_unload_game`, `retro_deinit`, atexit, context callbacks, `CPUThreadMain`, `RunOnCPUThread`, `PumpMessagesOnCPUThread` | VM life cycle, MTGS, SPU2 stream |
| VM life cycle | `pcsx2/VMManager.cpp` | `s_state`, `s_gs_open_on_initialize` | `Initialize`, `Execute`, `Reset`, `Shutdown`, `SetState` | opens MTGS, SPU2 |
| MTGS | `pcsx2/MTGS.cpp` | ring, read/write positions, ring signal, vsync counter and listener, WorkSema, open/shutdown flags | packets, `GenericStall`, `PostVsyncStart`, `WaitGS`, `ResetGS`, `WaitForOpen/Close`, `MainLoop` | EE thread to GS thread |
| Frame handoff | `pcsx2/GS/Renderers/OpenGL/{GLLibretro,GSDeviceOGL}.cpp`, `Vulkan/VKLibretro.cpp` | published frame, serials, fences, back buffers, whether the device's context is still shared | `PublishFrame`, `ConsumeFrame`, `AbortPacing`, `Shutdown`, `BeginPresent`, `EndPresent`, `AbandonContext`, `GSreopen` | GS thread to `retro_run` |
| MTVU | `pcsx2/MTVU.cpp` | ring, WorkSema, `semaXGkick`, `mtvuInterrupts`, `gsSignal`, `gsLabel` | `ExecuteVU`, `VifUnpack`, `Write*`, `WaitVU`, `Get_MTVUChanges`, `Reset`, `Open`, `Close` | EE thread, GIF path 1 |
| GIF unit | `pcsx2/Gif_Unit.h`, `Gif_Unit.cpp` | path buffers, packet queue, arbitration state | `Execute`, `CopyGSPacketData`, `RealignPacket`, `FinishGSPacketMTVU`, A+D handlers | MTVU, MTGS |
| Audio stream | `pcsx2/Host/AudioStream.cpp`, `SPU2/spu2.cpp`, `OutputAudio` | sample ring, frames owed, observer pointer | `WriteChunk`, `EmptyBuffer`, `PullFrames`, `ReadFrames`, `OutputAudio`, `CreateOutputStream` | CPU thread to `retro_run` |
| Disc control | `Libretro.cpp`, `Disk*`, `VMManager::ChangeDisc`, `CDVDcommon.cpp` | disc list, index, tray, boot path, source type and file | eject, pick, insert, replace, add, drop, playlist at load | frontend, work queue, CDVD |
| GSJobQueue, save states, recompilers, DMAC/SIF/VIF, CDVD, IPU, SIO, DEV9, USB, renderers, host services, `3rdparty` | | | | see "Not modelled" |

The behaviours that are hard: a wake-up that falls between a test and a sleep;
an unload, a deinit or a process exit at any point of a session; a reset that is
asked for on one thread and carried out on another; a timed wait that gives up on
an answer that is still coming; a ring that is full; a GS thread that is closed,
killed and reopened; flags that outlive the thread or the session they describe;
a buffer one thread fills and another reads without a copy or a lock; values and
flags that belong together and live in separate atomics; a GPU object whose owner
is decided by which of two threads comes first.
`PROJECT.json` lists them as hazards with the line each one bites at.

## 2. Modules

| Module | Models | Role |
|---|---|---|
| `WorkSema` | `Threading::WorkSema` | component, no code abstracted but spin times |
| `WorkSemaProofs` | | inductive invariant and theorems about `WorkSema` |
| `LibretroHost` | `Libretro.cpp` with the parts of `VMManager.cpp`, `spu2.cpp` and `MTGS` it meets | frontend's thread and CPU thread composed |
| `LibretroHostProofs` | | inductive invariants and theorems about `LibretroHost` and `DiscControl` |
| `MTGS` | `MTGS.cpp` | EE thread and GS thread composed over the ring |
| `MTGSProofs` | | inductive invariant and theorems about `MTGS`, refinement of `GSChannel` |
| `GSChannel` | | what a ring promises: a queue of commands; implemented by `MTGS` and `MTVU` |
| `RingOrder` | | the contents of a ring as a sequence; used by the refinement mappings of `MTGS` and `MTVU` |
| `RingOrderProofs` | | lemmas about `RingOrder`, for the two refinements |
| `MTVU` | `MTVU.cpp`, the ring and the VU thread | EE thread and VU thread composed over the ring |
| `MTVUProofs` | | inductive invariants and theorems about `MTVU` and `MTVUInterrupts`, refinement of `GSChannel` |
| `MTVUInterrupts` | `Gif_HandlerAD_MTVU`, `Get_MTVUChanges` | EE thread and VU thread composed over three atomics |
| `GifPath1` | path 1 of `Gif_Unit.h`, `MTGS::WaitGS` and `MainLoop` for it | EE, VU and GS thread composed over the path's buffer |
| `GifPath1Proofs` | | inductive invariant and theorems about `GifPath1` |
| `FrameHandoff` | `GLLibretro.cpp`, `GSDeviceOGL.cpp`, `retro_run` | CPU, GS and frontend thread composed over the published frame |
| `FrameHandoffProofs` | | inductive invariant and theorems about `FrameHandoff` |
| `AudioOutput` | `AudioStream.cpp`, `OutputAudio` | CPU thread and frontend's thread composed over the sample ring |
| `AudioOutputProofs` | | inductive invariant and theorems about `AudioOutput` |
| `DiscControl` | `Disk*` of `Libretro.cpp`, `ChangeDisc` of `VMManager.cpp` | the frontend's calls, the sessions and the drive |

Variables carry the source's names (`s_run_token`, `m_state`, `s_ReadPos`, ...);
the others are program counters and ghosts, declared with a comment. Each action
names the function it stands for in the comment above it or by its own name, and
`PROJECT.json`, "map", gives the lines. Definitions whose comment begins with
"Mutant:" are defective variants used to test that the properties can fail; no
specification refers to them.

### WorkSema

A step is one access to shared memory. `AddWork` then `NotifyOfWork` then
`NotifyPost` is a client; `WaitForEmpty`, `WaitForEmptyWake`,
`WaitForEmptyReturn` the one client that may wait; the worker goes
`Process`/`FoundEmpty`, then one of `CheckForWork`, `WaitForWork`,
`WaitForWorkWithSpin`, with the semaphore operations (`PostEmpty`, `SemaWait`)
and the acknowledging `fetch_and` as steps of their own, or `Kill`s and `Reset`s.
The bit masks on a two's complement integer are written as arithmetic with `FLAG`
as a parameter. The queue belongs to the class's users; it is modelled from the
usage rule in the class comment ("Threads adding work first add their work to the
queue, then call NotifyOfWork"). `promised` and `died` are ghosts that record what
a `WaitForEmpty` was called for. A client stops one notification short of carrying
into `FLAG` (`Headroom`), which the code reaches only after 2^29 of them.

### LibretroHost

`fpc` is the frontend's thread, `cpc` the CPU thread. The frontend may make any
call whenever it is idle: `LoadGame`, `ContextReset`, `ContextDestroy`,
`BlockingCall` (reset, serialize, unserialize, disc change), `RunBegin`
(`retro_run`), `UnloadGame`, `Deinit`, `AtExit`. The game may switch the console off
while it executes (`PowerOff`: `sceCdPowerOff`, answered by `Host::RequestVMShutdown`). `retro_run` is split at every
point where it releases `s_frame_mutex` or where the CPU thread can look:
options, AV info, input and black frame, GL rebuild, token, timed wait, vsync
wait, decision, audio. `CPUThreadMain` is split the same way, with the park of
`PumpMessagesOnCPUThread` as evaluating the predicate (`ParkTest`), going to sleep
(`ParkSleep`) and being woken (`ParkLock`), because `s_cpu_work_pending` and
`s_running` are changed without the mutex. Mutexes are variables naming their
holder. The critical sections of `s_session_mutex` and `s_cpu_work_mutex` are one
step each.

Data is reduced to what the two threads tell apart: a piece of work is "reset",
"state" (any other blocking work) or "settings"; the audio stream is "null",
"live" or "freed"; a frame is its readiness; duplicate frames are the difference
of the two counters. A local whose function has returned is reset to its initial
value, which only merges states that no later step tells apart. Time is left out, so a timed wait may end at any moment. The
GS and the SPU2 output are the flags the threads see (`gs_open`, `stream`).
A negotiation ends with the GS open on the frontend's device, with a GS that was open
already, or with neither. The paraLLEl-GS renderer registers a negotiation of its own
(2400-2407), which opens no GS: it is the case in which nothing changes. The context callback tests neither, as in the code: a Vulkan frontend that was given
no device resets a context of its own. The constants `OptionsChange`, `PSXMode` and `DeinitInSession` switch on a source
of calls each, so that a run can ask its question in a small space.

### MTGS and GSChannel

`epc` is the thread that writes to the ring, `gpc` the GS thread. A packet is
`BeginPacket`, `GenericStall` (with `StallEnable`, `StallKick`, `StallWake`,
`StallRecheck` when the ring is full), `WritePacket`, `Publish`, `Notify`. The
slots are really there: a tag with the packet's length, data slots after it, and
positions that wrap; a slot behind the read position is forgotten, so that reading
it would show. The WorkSema inside is reduced to "idle", "work", "sleep" and
"dead", which module `WorkSema` justifies: a notification is never lost, and
`WaitForEmpty` returns when the worker sleeps or is dead. A VM reset may queue calls
("config") between its `WaitGS` and its `ResetGS`, as `VMManager::Reset` does for a changed
ELF. The ghost `torn` is set by a `ResetGS` that finds the GS thread with such a call in
hand (`Reading`). The GS thread then stores its own position over the reset one and goes on
behind the writer, through whatever the slots held before; that is not followed ("lost").

`MTGS` implements `GSChannel` under the refinement mapping `Queue`: the slots between the
published positions that hold a tag (`Heads`, by their distance from the reader) and, in that
order, the command of each (`Contents`). The slot the GS thread reads next counts as a tag
whatever it holds, and a packet that is not all there has no command's name, so a torn or
misread packet shows as an entry nobody sent. The mapped queue only grows at its end by one
command, loses its head, or is emptied while a reset or a close is under way. `InOrder`
(module `RingOrder`) makes the sequence by counting, without recursion, so that what a step does
to it can be proved.

### MTVU

`epc` is the EE thread, `vpc` the VU thread. A packet is `Begin`, `ReserveSpace`,
`WaitOnSize` (one look at the reader, then `WaitOnSizeKick` and another look),
perhaps `WriteNull` and `CommitWritePos` to end a lap, `Write`, `CommitWritePos`,
`Announce`. The VU thread goes `WaitForWork`, `CheckShutdown`, and `Execute`,
`CommitReadPos` until `FoundEmpty`. The words are there, each with its packet's kind
and its number, and are forgotten when read, so a packet overwritten or read twice
shows. Both positions of each thread are there too: the local one, which moves while
a packet is written or read, and the published one. The eight senders differ in
length only, hence two kinds of packet. The EE thread may be ahead by any number of words,
and `WaitOnSize` looks at the reader no more than the code does. The ghost `lapped` is set by a
null packet written while the reader has not yet followed the writer to its lap
(`~ReaderFollows`): from then on packets may be written over unread, and positions may be
equal with packets pending. It is cleared when a `WaitVU` has returned, the positions being
equal then and nothing being read any more. `MTVU` implements `GSChannel` under a `Queue` of the
same form, in which a null packet is no entry and which is empty while `lapped`
(`Promised`); `dropping` is just that one step. A `Reset` always finds the queue empty. `MTVU_ALWAYS_KICK` and `MTVU_SYNC_MODE`
are 0 in the code and left out.

### MTVUInterrupts

A step is one access to `mtvuInterrupts`, `gsSignal` or `gsLabel`. The VU thread's
SIGNAL is `SignalCheck`, `SignalStore`, `SetFlag`; its LABEL is `LabelBegin`,
`LabelExchange` (the compare-exchange, which may fail without a reason, as
`compare_exchange_weak` may), `SetFlag`; FINISH and the E and T bits are one
`RaiseFlag`. `Get_MTVUChanges` is `GetChanges` and then, for the flags it read, its
five parts in order. A label is a function from bits to "0", "1" or "keep": the pair
of data and mask in the code, with the data under a mask of 0, which nothing reads,
left out. The EE thread writes the register itself too: for a LABEL of PATH2 or PATH3
(`PathLabel`), and to zero for CSR.RESET (`CSRReset`) and `VU_Thread::Reset` with hwReset
(`ResetInterrupts`, which leaves `gsLabel` as it is). Five ghosts record what the EE ought to
see, which bits it wrote under an older pending label (`overtaken`), and whether a reset took
the flag of a pending label (`orphan`).

### GifPath1

Sizes are quadwords. `curSize`, `curOffset`, `gsPack` belong to the VU thread,
`readAmount`, `gsPackQueue` and `semaXGkick` are shared with the GS thread,
`fakePackets` and `stalled` belong to the EE thread. An XGKICK is `XGkick`, perhaps
`RealignPacket`, `CopyGSPacketData`, `ExecuteGSPacketMTVU`; when there is no room it
goes through `WeakWait` and `WeakWaitLoop`, which is `WaitGS(false, true, true)` with its
mutex. The end of a program is `FinishAdd`, `FinishPush`, `FinishPost`. The EE thread
starts programs (`ExecuteVU`, `TransferGSPacketData`, `GifExecute`) and syncs and resets;
the GS thread sleeps, wakes, takes `semaXGkick` with or without the mutex, draws,
gives the space back and pops. `stalled` stands for everything that makes
`Gif_Unit::Execute` hold path 1 packets back: a queued SIGNAL, PSE, the direction bit, a
path that has not ended. A reset drops what is held back and leaves `semaXGkick` as it is; the
ghost `excess` is the number of posts it left. A GS thread that takes one of these finds the
queue empty, fails the assertion of `GetGSPacketMTVU` and is not followed ("failed"): a release
build goes on with a stale slot of the queue (`boost_spsc_queue.hpp`, `pop`).

### FrameHandoff

The CPU thread queues a vsync per token (`PostVsyncStart`, `VsyncWait`, `SignalFrame`,
`TakeToken`); the GS thread skips it (`SkipFrame`) or draws and publishes it
(`BeginPresent`, `EndPresent`, `PublishFrame`, `Presented`), rebuilds its device (`Reopen`)
or lets go of its context (`AbandonContext`); the frontend's thread is `retro_run` split at
its waits (`RetroRun`, `PostToken`, `FrameWait`, `GSWait`, `Decide`, `ConsumeFrame`, `Blit`)
and the context callbacks. A texture is its buffer's index; every reference to one
carries whether it still exists (`alive`) and whether the device that made it is the present one,
in a context the frontend has (`current`). The device is rebuilt (`ApplySettings`,
`s_gl_needs_reopen`) and contexts are lost and replaced at any moment, with frames on their way,
and `AbandonContext` may refuse. Two ghosts: `behind` (when `retro_run` took its frame the GS
thread had as many vsyncs to do as there are buffers) and `fence_lost` (a context was replaced
with fences in it). Fences are numbered
objects, so a leak and a double deletion both show. `s_pacing` is left out: `SetPacing(true)`
is called nowhere, so `PublishFrame` never waits, whatever the comments around it say.

### AudioOutput

The CPU thread is `WriteChunk` (its look at the reader), `WriteCopy`, `WriteStore`, or
`EmptyLoad` and `EmptyStore`, the two accesses of `EmptyBuffer`. The frontend's thread is
`OutputAudio`, `PullFrames`, `ReadFrames`, `ReadCopy`, `ReadStore`. A frame is its number in
the SPU2's output, so a frame lost, repeated or overwritten shows. `s_audio_owed` counts
in parts of a frame, `Unit` to the frame and `quantum` to a video frame, so that a rate like
48000 / 59.94 keeps its fraction. The writer's chunk is one copy, as is the reader's part:
what matters is which slots they touch (`Writing`, `Reading`) and when each side
looked at the other's position. `EmptyBuffer` runs at any moment beside `OutputAudio`, as
the CPU thread's draining of queued work does after a call that emulates nothing. The ghost
`crossed` is set by a store of `EmptyBuffer` in the middle of a read, or after a read its load
did not see, until the next game. The
libretro stream is created without stretching or expansion, so those branches are left
out.

### DiscControl

The frontend's calls are one step each (their way through the work queue is in
`LibretroHost`): `DiskSetEjectState`, `DiskSetImageIndex`, `DiskReplaceImageIndex`,
`DiskDropImage` (the same function with no image), `DiskAddImageIndex`,
`DiskSetInitialImage`. `LoadPlaylist`, `LoadImage` and `LoadNothing` are `retro_load_game`'s
part, `Boot` is `VMManager::Initialize`'s. An image is a model value that stands for the path
shown and the path opened; `NoPath` is the empty string of an entry just added. Opening an
image may fail at any time, so `ChangeDisc` has all of its ends: the new disc, the old one
again, none. `told` is a ghost: the last image the boot or a call answered for, and the answer.

## 3. Runs

| Run | Bounds | Distinct states | Shows |
|---|---|---|---|
| `worksema` | 2 clients, 2 items, FLAG 8 | 5,089 | type, `NoLostWakeup`, `EmptyIsEmpty`, `NoStalePost`, `WorkGetsDone`, `WaiterReturns`; deadlock checked |
| `host` | all three present paths, 2 queued works, 1 duplicate, all switches on | 4.2 M | type, `VMStopsOnlyOnRequest`, `UnloadQuiesces`, `ResetAudioExclusive`, `ContextBeforeBoot` |
| `host_live` | no context and Vulkan, 1 queued work, switches off | 0.13 M | `CallsReturn`, `ResetHappens` |
| `mtgs` | 7 slots, vsync of 2 slots, queue size 0, calls queued before a reset | 0.4 M | type, `StallAssertions`, `FrameCountExact`, `SyncMeansDone`, refinement of `GSChannel` (`ChannelSpec`), `CallsReturn` |
| `mtvu` | 10 words, packets of 3 and 2, safety net 2, no bound on the words ahead | 0.9 M | `WaitVUMeansDone`, refinement of `GSChannel`, `CallsReturn` |
| `mtvu_interrupts` | 2 bits of LBLID | 5.6 M | type, `LabelsPreserved`, `PendingFlagged`, `OverwriteReported`; deadlock checked |
| `path1` | buffer of 11 quadwords, limit 9, kicks of 2, programs of up to 2 kicks, 3 programs undrawn, 1 post left over at a reset | 0.9 M | `BufferIntact`, `OnePacketPerProgram`, `QuietWhenSynced`, `RoomIsFound` |
| `frames` | 3 back buffers, vsync queue size 2, 1 extra run, 1 duplicate outstanding, 1 rebuild or lost context on its way | 9.3 M | `FenceOwnership`, `FrameIntact`; deadlock checked |
| `audio` | ring of 6, chunks of 2, 1.5 frames per call, 4 chunks, 4 calls | 1.0 M | type, `SlotsDisjoint`, `FramesAccounted`, `FramesInOrder`, `RateKept`; deadlock checked |
| `discs` | 2 images (symmetric), lists of up to 3 | 62 k | type, `DriveTruthful`, `SwapAllOrNothing`; deadlock checked |

Why the bounds are enough. With two clients one can be between its `AddWork` and
its `NotifyOfWork` while the other waits for empty, and two items let work arrive
before and after a notification; FLAG 8 leaves room for every state the worker
distinguishes. The host's sessions are not bounded at all: the state space closes
over any number of games, deinits and restarts. The liveness run has the two paths
that differ in what a thread waits for, the context and the negotiation; an OpenGL
context is waited for as a Vulkan one is. Two queued works put a reset behind
a settings change and one reset behind another; one duplicate frame and
`MaxSkipped` 1 (3 in the code) run the extra pass of `retro_run` once. A ring of 7
slots holds packets of one and two slots so that it fills at every offset and wraps
inside a packet, and `SleepLimit` 2 (0x80 in the code) takes both the sleeping and
the spinning stall. In the VU ring 10 is no multiple of 3, so a lap ends
at different offsets and a null packet is written at each of them; it is short enough for
the writer to overtake the reader. Two bits of LBLID make every pair
of labels that agree, differ or miss each other. In path 1 the safe zone of 2 quadwords
holds a kick, as the real one of 1 MB does, three programs of 4 fill the buffer and go
round it, and a program is at most half of it, so the wait for room can end; one post left
over (`MaxPosts`) is enough to lead the GS thread to an empty queue.
`kLibretroBackbuffers` and `VsyncQueueSize` are the code's own values; `MaxSkipped` is 3 in the
code, and one extra pass goes through every branch of it. One rebuild or lost context on its way
at a time (`MaxCalls`) bounds no history: the next may follow as soon as the GS thread has seen
it. A ring of three chunks is full with two of them, wraps inside a read, and four chunks go
round it once and begin another lap; 1.5 frames to a call leaves a fraction every other time; the proofs take the bounds
away. Two images and three entries are enough for a list with the picked entry at its start,
inside it and at its end, and for one image twice; the sessions are not bounded.

Where a run has no separate type invariant, the types are the first part of its first
property.

No run leaves out what the code can do at such a place. Where the code breaks a property by
one identified step, the step is in the model, a ghost marks it, and the property is stated for
the states before it, so that it says that nothing else breaks it:

| Run | Step | Ghost | From then on |
|---|---|---|---|
| `mtgs` | a reset finds the GS thread inside a call queued since its `WaitGS` | `torn` | nothing is claimed of the ring, the frame count or the calls' return |
| `mtvu` | a lap begins before the reader follows | `lapped` | the queue counts as empty, and nothing is claimed of the calls' return, until the next WaitVU |
| `mtvu_interrupts` | the EE writes LBLID over an older pending label; a reset takes a label's flag | `overtaken`, `orphan` | nothing is claimed of these bits, of that flag, until the next label |
| `path1` | a reset drops packets held back and leaves their posts | `excess` | the GS thread may find an empty queue ("failed"); nothing is claimed after that |
| `frames` | `retro_run` takes a frame with the GS thread a round of buffers behind; a context is replaced with fences in it | `behind`, `fence_lost` | that frame may be drawn into; fences are not accounted until the next unload |
| `audio` | `EmptyBuffer`'s store crosses a read | `crossed` | only `TypeOK` and `RateKept` are claimed until the next game |

With the condition taken away TLC finds, in `audio`, `FramesInOrder`, `SlotsDisjoint` and
`FramesAccounted` violated; `RateKept` holds without it.

Deadlock is checked in `WorkSema`. In `LibretroHost` a process that has exited, and
in `MTGS` an EE thread that sleeps for a vsync (finding `mtgs_vsync`), may stop, so
deadlock is off there and the liveness properties say what must not. `MTVU` ends with
`Close`; in `GifPath1` an EE thread that waits for a VU thread whose packets it holds back
itself may stop. `MTVUInterrupts`, `FrameHandoff`,
`AudioOutput` and `DiscControl` are checked for deadlock.

Fairness. `WorkSema`: weak fairness of the worker, of a client that has begun to
announce and of a posted waiter; its queue is a fifo, hence fairness for each item.
`WaiterReturns` holds when the other clients eventually stop adding work: the worker
answers a `WaitForEmpty` only when it runs dry, and the code promises no more.
`LibretroHost`: both threads are scheduled (weak), a mutex that both want is not
refused to one of them for ever (strong), a game reaches its next vsync, and a
timed wait ends; the frontend is never obliged to call anything. `ResetHappens`
assumes explicitly that the frontend goes on with `retro_run`. `MTGS`: both threads
are scheduled; the EE is not obliged to send. `MTVU`: the same. `GifPath1`: the three threads
are scheduled; a mutex the GS thread releases again and again is got in the end, a program
ends, and the EE thread reaches its next vsync (strong). `RoomIsFound` assumes explicitly
that the GIF does not stay stalled and the EE thread not blocked. `MTVUInterrupts`,
`FrameHandoff`, `AudioOutput` and `DiscControl` are checked for safety only.

### What the runs found

Two runs check a statement of the code's own comments that the code does not keep; TLC
prints the interleaving.

| Run | Statement | What happens |
|---|---|---|
| `host_lost_work` | "wake the CPU thread if it's parked" | `RunOnCPUThread` notifies without `s_frame_mutex`; the notify falls between test and sleep, and a blocking caller waits for a thread that sleeps |
| `mtgs_vsync` | "this ensures the EEcore won't sleep the eternity" | the listener flag is stored after the GS thread's last look at it |

Other situations are reachable in the models and have no run of their own. Most are
hazards in `PROJECT.json`; the constants named are those that let TLC get there.

- `retro_unload_game`'s `SetState(Stopping)` can land after `VMManager::Shutdown` has stored
  Shutdown; it stays, and `Initialize` refuses every later game.
- Blocking work pushed before a boot fails is drained by nobody, and its caller waits for ever.
- With `VsyncQueueSize` 2, the default, a GS thread that fell behind has three vsyncs to catch
  up with and goes once round the three back buffers while `retro_run` blits one of them
  (`behind`).
- `EmptyBuffer`, run beside `OutputAudio` for a change of the target speed, stores a position
  that is out of date, and the ring is nearly full of sound already played (`crossed`): frames
  are replayed, slots shared and frames unaccounted. The comment before the call, "CPU thread is
  parked again at this point; safe to drain the audio buffer"
  (`pcee2-libretro/Libretro.cpp:3540`), does not hold in that call.
- The disc callbacks are registered after the list is built, so a frontend just started has no
  `set_initial_image` to call and its game boots the first disc.
- A disc picked before the VM is up is accepted, and the one fixed at the load boots.
- `retro_deinit` in a session never joins: the VM stays Running (`DeinitInSession`).
- After a deinit `s_cpu_thread_initialized` is still set, and the next negotiation runs
  beside the new thread's initialization.
- A changed audio option, or PS1 mode, replaces the stream outside
  `s_audio_stream_mutex` (`OptionsChange`, `PSXMode`).
- The second game on Vulkan finds the GS open and the device pointer reset; its frontend may
  fall back to a device of its own, and the game boots on the GS of the first.
- An unload that ends the wait for the hardware context boots the VM without it.
- After a timed-out `retro_run` the frontend's thread may write to the GS ring while the
  CPU thread executes.
- A second reset handled in the same park is carried out inside the pump, because
  `VMManager::Reset` then finds the VM Resetting.
- A VM reset that queues a configuration change after its `WaitGS` stores `s_ReadPos` while
  the GS thread is inside that packet (`torn`), or drops the change.
- A writer of the VU ring that begins a lap before the reader follows writes over packets that
  were not read, or its position meets the reader's with packets pending, and they are lost
  (`lapped`); the code's FIXME at `WaitOnSize` describes such a case.
- `VU_Thread::Reset` leaves `gsLabel`, so a label pending at a reset is applied after it
  (`orphan`); and a LABEL of PATH2 or PATH3 is overridden by an older one of the VU that is still
  pending (`overtaken`).
- A VM reset with path 1 packets held back by the GIF leaves `semaXGkick` posted, and the
  GS thread then finds "Expected gsPackQueue to have elements!" (`excess`).
- A state saved with path 1 packets held back fails the assertions of `gifPathFreeze`
  (`pcsx2/Gif_Unit.cpp:193-195`); `QuietWhenSynced` says when they hold.
- A frame published before the device is rebuilt can still be consumed, with a texture that is
  gone; the same for every frame after a context was replaced that the GS thread cannot let
  go of. `FrameIntact` claims nothing of frames that are not `current`.
- Dropping an entry below the picked one leaves `s_disc_index` where it is, so it names
  another image than the one in the drive.
- An entry that was added and not yet filled can be inserted: `ChangeDisc` then opens the
  file it had and reports success.

## 4. Proofs

`WorkSemaProofs` proves, for every set of clients and items and every `FLAG` > 4,

- `TypeCorrect`: `Spec => []TypeOK`;
- `WakeupNotLost`: `Spec => []NoLostWakeup`;
- `WaitForEmptyTruthful`: `Spec => []EmptyIsEmpty`;
- `PostsAreFresh`: `Spec => []NoStalePost`;

from the assumptions of `WorkSema` (the waiter is a client, "no work" is not work,
`FLAG` is large enough for the states below it). The invariant properties are not
inductive: that no wake-up is lost depends on what `m_state` can be at each place
of the worker. `IInv` adds

- `StateInv`: the values of `m_state` possible at each worker location;
- `SemaInv`: a sleep that was ended has exactly one Post, delivered or on its way,
  and there is none at any other time;
- `EmptyInv`: the flag, a post about to be made and a post made are three stages of
  one wait: no two at a time, and none without a waiter asleep;
- `QueueInv`: while the worker may go to sleep, spins or sleeps un-notified, all
  queued work is work its client has not announced yet;
- `PromiseInv`: what a waiter was promised is announced work still in the queue, and
  nothing of it is left once the flag has been taken off by a live worker.

`InitIInv` and `NextIInv` show that it holds initially and that each action keeps
it, one step per action.

`MTVUProofs` proves about `MTVUInterrupts`, for every set `Bits` and from no assumption on it,

- `LabelsAreNotLost`: `InterruptSpec => []LabelsPreserved`, for the labels of all three paths;
- `PendingIsFlagged`: `InterruptSpec => []PendingFlagged`, of labels and signals;
- `OverwritesAreReported`: `InterruptSpec => OverwriteReported`, an action property;
- `InterruptTypeCorrect`: `InterruptSpec => []InterruptTypeOK`.

The properties of a signal are not inductive: they depend on which thread may
touch the flag. Its `InterruptInv` adds

- `HandlesRead`: the EE thread is at a flag it has read;
- `SignalInv`: a signal flag the EE thread has read is still set, so a VU thread that
  found it unset cannot meet the EE thread between its load and its clearing of the
  flag.

The labels rest on one lemma about `Override`, `OverrideCoalesces`: merging two
labels and then applying them is applying one after the other. `FirstOfIsFirst` says
that the part of `Get_MTVUChanges` entered next is one whose flag is still to be
handled.

`AudioOutputProofs` proves, for every size of the ring and of a chunk with
`CHUNK_SIZE` < `m_buffer_size`, every `quantum`, `Unit` and limit per call, and any number of
chunks and calls,

- `NoSlotShared`: `Spec => []SlotsDisjoint`;
- `NoFrameLost`: `Spec => []FramesAccounted`;
- `NoFrameReplayed`: `Spec => []FramesInOrder`, with no silence in between;
- `NoDrift`: `Spec => []RateKept`;
- `TypeCorrect`: `Spec => []TypeOK`.

`EmptyBuffer` runs at any moment; the first three speak of the time before it has crossed a
read. `IInv` is `Own`, which every step keeps, and `Clean`, which only a crossing ends. `Own` is the
reader's own numbers (`ReadInv`) and `OwedInv`: what a call wants is owed, which keeps the
account from going below zero and gives `RateKept`. `Clean` is

- `PlaceInv`: the room the writer found and the frames the reader found are still there,
  because each is changed for the worse by its finder alone;
- `Accounted` and `SoundUnbroken`, the bodies of the two properties;
- `OrderInv`: the frames in the ring by their distance from the reader, and those of a
  chunk not yet published by their distance from the writer.

The ring's arithmetic is in five lemmas about `Between` and `Wrapped`. `Shift` is the one that
carries the proof: how the distance to any slot changes when a position moves on.

`LibretroHostProofs` proves, for every `MaxWork`, `MaxCredit` and `MaxSkipped`, every set of
present paths and every setting of the three switches, and so from no assumption but the
types of the constants,

- `StopsOnlyOnRequest`: `Spec => []VMStopsOnlyOnRequest`;
- `UnloadLeavesNothing`: `Spec => []UnloadQuiesces`;
- `AudioExcludesReset`: `Spec => []ResetAudioExclusive`;
- `ContextComesFirst`: `Spec => []ContextBeforeBoot`;
- `TypeCorrect`: `Spec => []TypeOK`.

What an unload leaves depends on what each earlier call left behind, so `IInv` says it of
every place of both threads:

- `Mutexes`: a thread holds a mutex exactly in its critical section;
- `Handshake`: a call that winds a session down has cleared `s_running`, the exit flag stands
  only during a deinit and the exit hook, an inactive session has no boot request, and a
  frontend without a game has a CPU thread that nothing will move;
- `LoopInv`: in the loop of `CPUThreadMain` the VM is Running or Resetting until `s_running`
  has been cleared or the game has switched the console off, and work is taken off the queue only
  to be run;
- `ContextInv`: `s_context_ready` on a hardware path is the context of this game.

It also proves about `DiscControl`, for every set of images and every `MaxDiscs`, from no
assumption on them,

- `DriveIsTruthful`: `DiscSpec => []DriveTruthful`;
- `SwapsAreWhole`: `DiscSpec => SwapAllOrNothing`, an action property;
- `DiscTypeCorrect`: `DiscSpec => []DiscTypeOK`.

`DriveTruthful` is inductive with the types and `IndexInv` (`s_disc_index` names an entry, or is
0 without a list, whatever was added, replaced or dropped). `DiscSteps` sums up what each call
does to the drive, so that both properties rest on four cases: the drive stays as it is, a session
ends, a game is booted, or the entry of the index is inserted with the tray shut.

`MTGSProofs` proves, for every ring size with `RingBufferSize` > `VsyncLen` + 2, every
`SleepLimit` and every `VsyncQueueSize`,

- `StallsAsAsserted`: `Spec => []StallAssertions`;
- `FrameCountKept`: `Spec => []FrameCountExact`;
- `SyncIsDone`: `Spec => []SyncMeansDone`;
- `RingIsQueue`: `Spec => ChannelSpec`, the refinement of `GSChannel`;
- `TypeCorrect`: `Spec => []TypeOK`.

The calls a VM reset may queue after its `WaitGS` are included: `FrameCountExact` and the
mapped queue of `ChannelSpec` speak of a ring that is not torn, the others of every state. Without
the structure of the ring nothing can be said of a read: `IInv` has (the last two items while
the ring is not torn)

- `LifeInv`: where the GS thread can be for each place of the EE thread, through open, close,
  reset and shutdown;
- `EmptyInv`, `SemaInv`: where the ring is empty, and that a GS thread about to sleep has been
  woken or has nothing to do;
- `SignalInv`, `VsyncInv`: a signal somebody waits for is asked for or posted, never both and
  never neither;
- `RingInv`, `WriteInv`, `ReadInv`: a packet ends where the next begins, measured as the
  distance from `s_ReadPos`; the EE thread has the room it writes to; the packet being carried
  out is still the first;
- `FrameInv`: the vsyncs not shown are at most `VsyncQueueSize` + 1, plus one the EE thread is
  about to wait for, minus one when the GS thread is about to signal on its own account. It is
  this last term that makes the bound inductive: the GS thread's safety valve may signal a vsync that
  no vsync packet earned.

The lemmas `Wrapped` and `Distance` hold the arithmetic; `PublishFrames`, `AdvanceFrames` and
`WriteFrames` say how the set of vsync tags changes, and count it with the library's theorems
about finite sets.

`FrameHandoffProofs` proves, for any number of back buffers from two, any `VsyncQueueSize`,
`MaxSkipped`, `MaxCredit` and `MaxCalls`, with the device rebuilt and the context replaced at any
moment,

- `FencesOwned`: `Spec => []FenceOwnership`;
- `FramesIntact`: `Spec => []FrameIntact`;
- `NeverBehind`: `Spec => [](~behind)`, for `kLibretroBackbuffers` >= `VsyncQueueSize` + 3.

The last one says when the exception of `FrameIntact` cannot arise. The code has three buffers, so
it is ruled out with "optimal frame pacing" (queue size 0) and not with the default of 2. The
invariant is `QueueInv` (how many vsyncs the ring can hold for each place of the CPU thread),
`FenceInv` (the fences are those of the three frames, and these are different), `AliveInv` (a frame
of the present device has its texture) and `BufferInv`: the distance, in turns, from a frame's
buffer to the one drawn next, against the frames the GS thread can still draw before it needs
the frontend again.

`GifPath1Proofs` proves, for every `buffSize` > `buffLimit`, every set of kick sizes with
programs of at most half of `buffLimit`, any number of programs and of posts left over by
resets,

- `BufferStaysIntact`: `Spec => []BufferIntact`;
- `PacketsMatchPrograms`: `Spec => []OnePacketPerProgram`;
- `QuietAtFreeze`: `Spec => []QuietWhenSynced`.

A VM reset may drop packets that are held back, whose posts then stay (`excess`). `IInv` has the counts of programs, packets, commands and posts (`CountInv`), what a
sync waits for (`SyncInv`), the VU thread's own numbers (`PathInv`) and two parts that
carry the buffer:

- `TapeInv`: the packets lie one after another on a tape without an end, the quadwords a
  realignment skips included. The positions are a witness (`\E pos`), so the sum that
  `readAmount` is needs no recursion;
- `ClearInv`: no two undrawn packets overlap, and none overlaps what the VU thread has written
  of the open one.

`Reach` draws the one from the other: what `HasRoom` and `RealignPacket` compare, `readAmount`,
bounds how far behind the open packet an undrawn quadword can be.

`MTVUProofs` proves, for every ring, packet length and safety net that `SizeAssumption` admits,

- `WaitVUDone`: `Spec => []WaitVUMeansDone`;
- `PacketsArrive`: `Spec => []PacketsIntact`;
- `VURingIsQueue`: `Spec => ChannelSpec`, the refinement of `GSChannel`.

`PacketsIntact`, defined there, says that, unless a lap was begun too early (`lapped`), the reader
meets a whole packet wherever the positions say there is one, and that equal positions mean an
empty ring. So the safety net and the null packet are enough at every size but for that one
step, which the code does not prevent (its FIXME at `WaitOnSize`). `SafeInv` (types, what fits,
published positions, semaphore) holds always and is enough for the first; `IInv` adds, while not
`lapped`, `Layout` (from the published read position to the writer's own
there is a row of whole packets, and a null packet where a lap ends), `WriteInv` (the room
the EE thread has found is still there) and `ReadInv` (what has been read and not released).

The two refinements go the same way. `RingOrderProofs` says what happens to `InOrder` when an
entry is added behind all the others (`OrderAppend`), when the first is taken away
(`OrderTail`) and when all distances become less by the same number (`OrderShift`); it counts the
entries up to each (`Numbering`) with the library's theorems about finite sets. In each proof
module `Shape` draws from the invariant which slots the queue consists of, and one lemma
for each action that touches the ring or a published position (`WriteQueue`,
`PublishQueue`, `AdvanceQueue`; `WriteNullQueue`, `WriteQueue`, `CommitNullQueue`, `CommitQueue`,
`ReadNullQueue`, `ReadPacketQueue`) gives the step of `GSChannel` it is, or that it is none: what
is written is not in the queue until it is published, and a null packet never is, neither when
it is published nor when the reader passes it and every distance changes by the rest of
the lap.

In each of these modules the invariant was checked with TLC on the run's instance before it
was proved.

Only model-checked:

- liveness, in every module: `WorkGetsDone`, `WaiterReturns`, `CallsReturn`, `ResetHappens`,
  `RoomIsFound` (the prover has no rule for fairness and ENABLED).

Every invariant and every action property the passing runs check, and both refinements, are
theorems.

## 5. Not modelled

- Time stretching and expansion of the audio stream, which the libretro stream does not use, and
  the SPU2's mixing. ELF files and GS dumps as content.
- The Vulkan side of the frame handoff: its retire list of images and the hand-over of the
  frontend's interface. Its `PublishFrame` and `ConsumeFrame` are those of OpenGL without a
  fence.
- The arbitration between the three GIF paths, path 3 masking and slicing (one Boolean in
  `GifPath1`).
- The idle presentation of a paused VM in `MainLoop`; a ring with two writers.
- The values of SIGID, FINISH's and the VU bits' registers, the VU cycle counts.
- A frame's pixels, geometry, the meaning of core options, input, rumble, cheats.
- `GSJobQueue`: a single-producer ring over WorkSema, no protocol of its own.
- Recompilers, interpreters, devices (DMAC, SIF, VIF, CDVD, IPU, SIO, DEV9, USB) and
  renderers: sequential, and their reference is the hardware.
- Save states, patches, the game database, achievements, file access: data and I/O.

Memory is sequentially consistent in the models; the orderings the code asks for
(release stores read with acquire loads, default read-modify-writes) are not
weakened further.

## 6. Plan

1. The Vulkan frame handoff with its retire list, beside `FrameHandoff`.
2. The GIF's path arbitration in place of `stalled`.
3. An abstract specification of a wake-up (a set of announced work, a sleeping
   worker) that `WorkSema` implements, to be used by `MTGS`, `MTVU` and `GifPath1` in
   place of their few-valued semaphore.
4. Proofs: the refinement of item 3, and `GSChannel` for the packet queue of `GifPath1`.
