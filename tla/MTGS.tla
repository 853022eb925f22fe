-------------------------------- MODULE MTGS --------------------------------
(***************************************************************************)
(* The multithreaded GS (pcsx2/MTGS.cpp): the EE thread puts commands into *)
(* a ring buffer, the GS thread carries them out.  Modelled are the ring   *)
(* with its positions, the stall of the EE thread when the ring is full,   *)
(* the limit on queued vsyncs, WaitGS, the hardware reset, and the open,   *)
(* close and shutdown handshakes of the GS thread.                         *)
(*                                                                         *)
(* A slot of the ring holds the tag of a packet (its command and the       *)
(* number of data slots after it) or data, whose contents are left out.    *)
(* s_sem_event is a Threading::WorkSema, modelled by what the worker's and *)
(* the notifier's calls amount to (its inside is module WorkSema).         *)
(* s_CopyDataTally only says whether anything was sent since the last      *)
(* SetEvent; it may pass its limit with any packet that carries data.      *)
(* A slot behind s_ReadPos is dead until it is written again: the model    *)
(* forgets it, and a read of it would show as "data" where a tag belongs.  *)
(* A reset that finds the GS thread between two positions tears the ring:  *)
(* the GS thread then moves s_ReadPos past s_WritePos, and takes what the  *)
(* slots held before for commands.  That is not followed: it is "lost".    *)
(***************************************************************************)
EXTENDS Integers, Sequences, FiniteSets, RingOrder

CONSTANTS
    RingBufferSize,   \* slots of the ring
    VsyncLen,         \* data slots of a vsync packet
    SleepLimit,       \* the EE thread spins for no more slots than this, 0x80 in the code
    VsyncQueueSize    \* EmuConfig.GS.VsyncQueueSize

ASSUME RingAssumption == RingBufferSize \in Nat /\ VsyncLen \in Nat /\ RingBufferSize > VsyncLen + 2
ASSUME LimitAssumption == SleepLimit \in Nat /\ VsyncQueueSize \in Nat

VARIABLES
    ring, s_ReadPos, s_WritePos,
    s_SignalRingEnable, s_SignalRingPosition, s_sem_OnRingReset,
    s_QueuedFrameCount, s_VsyncSignalListener, s_sem_Vsync,
    s_sem_event,            \* "idle", "work", "sleep" or "dead"
    s_CopyDataTally,        \* something was sent since the last SetEvent
    s_open_flag, s_shutdown_flag, s_open_or_close_done,
    epc, cmd,               \* where the EE thread is, and what it sends
    gpc, inc,               \* where the GS thread is, and the size of its packet
    torn                    \* ghost: a reset emptied the ring under the GS thread's packet

ringbuf   == <<ring, s_ReadPos, s_WritePos>>
signal    == <<s_SignalRingEnable, s_SignalRingPosition, s_sem_OnRingReset>>
frames    == <<s_QueuedFrameCount, s_VsyncSignalListener, s_sem_Vsync>>
event     == <<s_sem_event, s_CopyDataTally>>
lifecycle == <<s_open_flag, s_shutdown_flag, s_open_or_close_done>>
ee        == <<epc, cmd>>
gsthread  == <<gpc, inc>>

vars == <<ringbuf, signal, frames, event, lifecycle, ee, gsthread, torn>>

Slots == 0 .. RingBufferSize - 1

(* "gs" is SendSimpleGSPacket, which may announce its packet or not, and   *)
(* RunOnGSThread, which does; "fifo" is a command that is waited for       *)
(* (InitAndReadFIFO, Freeze), "reset" the packet of ResetGS.               *)
Commands == {"gs", "fifo", "vsync", "reset"}

data == <<"data", 0>>

Len_(c) == IF c = "vsync" THEN VsyncLen ELSE 0

Init ==
    /\ ring = [p \in Slots |-> data] /\ s_ReadPos = 0 /\ s_WritePos = 0
    /\ s_SignalRingEnable = FALSE /\ s_SignalRingPosition = 0 /\ s_sem_OnRingReset = 0
    /\ s_QueuedFrameCount = 0 /\ s_VsyncSignalListener = FALSE /\ s_sem_Vsync = 0
    /\ s_sem_event = "idle" /\ s_CopyDataTally = FALSE
    /\ s_open_flag = FALSE /\ s_shutdown_flag = FALSE /\ s_open_or_close_done = 0
    /\ epc = "closed" /\ cmd = "gs"
    /\ gpc = "exited" /\ inc = 0
    /\ torn = FALSE

-----------------------------------------------------------------------------
(* The WorkSema: NotifyOfWork, WaitForWork and WaitForEmpty.               *)

NotifyOfWork == s_sem_event' = IF s_sem_event = "dead" THEN "dead" ELSE "work"

SetEvent == NotifyOfWork /\ s_CopyDataTally' = FALSE

WaitForWork(here, there) ==
    /\ gpc = here
    /\ \/ s_sem_event = "work" /\ s_sem_event' = "idle" /\ gpc' = there
       \/ s_sem_event = "idle" /\ s_sem_event' = "sleep" /\ gpc' = here
    /\ UNCHANGED <<ringbuf, signal, frames, s_CopyDataTally, lifecycle, ee, inc, torn>>

-----------------------------------------------------------------------------
(* The EE thread.                                                          *)

EGoto(here, there) == epc = here /\ epc' = there

PacketSize == 1 + Len_(cmd)

(* Mutant: one slot too many.                                              *)
FreeRoomOffByOne == ((s_ReadPos - s_WritePos - 1) % RingBufferSize) + 2

FreeRoom ==
    IF s_WritePos < s_ReadPos THEN s_ReadPos - s_WritePos
                              ELSE RingBufferSize - (s_WritePos - s_ReadPos)

SomeDone ==
    LET quarter == (RingBufferSize - FreeRoom) \div 4
    IN  IF quarter < PacketSize + 1 THEN PacketSize + 1 ELSE quarter

BeginPacket(c) ==
    /\ EGoto("idle", "stall")
    /\ cmd' = c
    /\ UNCHANGED <<ringbuf, signal, frames, event, lifecycle, gsthread, torn>>

(* GenericStall: room enough, or sleep for a large piece of the ring, or   *)
(* spin for a small one.                                                   *)
GenericStall ==
    /\ epc = "stall"
    /\ \/ /\ FreeRoom > PacketSize
          /\ epc' = "write"
          /\ UNCHANGED s_SignalRingPosition
       \/ /\ FreeRoom <= PacketSize /\ SomeDone > SleepLimit
          /\ epc' = "enable"
          /\ s_SignalRingPosition' = SomeDone
       \/ /\ FreeRoom <= PacketSize /\ SomeDone <= SleepLimit
          /\ epc' = "spin_kick"
          /\ UNCHANGED s_SignalRingPosition
    /\ UNCHANGED <<ringbuf, s_SignalRingEnable, s_sem_OnRingReset, frames, event, lifecycle, cmd, gsthread, torn>>

StallEnable ==
    /\ EGoto("enable", "kick")
    /\ s_SignalRingEnable' = TRUE
    /\ UNCHANGED <<ringbuf, s_SignalRingPosition, s_sem_OnRingReset, frames, event, lifecycle, cmd, gsthread, torn>>

(* Mutant: the EE thread sleeps without a SetEvent.                        *)
StallSilently ==
    /\ EGoto("kick", "ring_wait") \/ EGoto("spin_kick", "spin")
    /\ UNCHANGED <<ringbuf, signal, frames, event, lifecycle, cmd, gsthread, torn>>

StallKick ==
    /\ EGoto("kick", "ring_wait") \/ EGoto("spin_kick", "spin")
    /\ SetEvent
    /\ UNCHANGED <<ringbuf, signal, frames, lifecycle, cmd, gsthread, torn>>

StallWake ==
    /\ EGoto("ring_wait", "recheck")
    /\ s_sem_OnRingReset > 0
    /\ s_sem_OnRingReset' = s_sem_OnRingReset - 1
    /\ UNCHANGED <<ringbuf, s_SignalRingEnable, s_SignalRingPosition, frames, event, lifecycle, cmd, gsthread, torn>>

StallRecheck ==
    /\ \/ epc = "recheck" /\ epc' = IF FreeRoom > PacketSize THEN "write" ELSE "enable"
       \/ EGoto("spin", "write") /\ FreeRoom > PacketSize
    /\ UNCHANGED <<ringbuf, signal, frames, event, lifecycle, cmd, gsthread, torn>>

(* The tag and the data go into the ring ...                               *)
WritePacket ==
    /\ EGoto("write", "publish")
    /\ ring' = [p \in Slots |->
                  LET d == (p - s_WritePos) % RingBufferSize
                  IN  IF d = 0 THEN <<cmd, Len_(cmd)>>
                      ELSE IF d <= Len_(cmd) THEN data ELSE ring[p]]
    /\ UNCHANGED <<s_ReadPos, s_WritePos, signal, frames, event, lifecycle, cmd, gsthread, torn>>

(* ... and s_WritePos gives them to the GS thread: _FinishSimplePacket,    *)
(* SendDataPacket.  A GS packet is only announced when the tally is over   *)
(* its limit.                                                              *)
Publish ==
    /\ epc = "publish"
    /\ s_WritePos' = (s_WritePos + PacketSize) % RingBufferSize
    /\ s_CopyDataTally' = TRUE
    /\ epc' \in (IF cmd = "gs" THEN {"idle", "notify"} ELSE {"notify"})
    /\ UNCHANGED <<ring, s_ReadPos, signal, frames, s_sem_event, lifecycle, cmd, gsthread, torn>>

(* Mutant: WaitGS without its SetEvent.                                    *)
WaitGSSilently ==
    /\ EGoto("idle", "wait_empty")
    /\ cmd' = "sync"
    /\ UNCHANGED <<ringbuf, signal, frames, event, lifecycle, gsthread, torn>>

(* WaitGS begins with a SetEvent too.                                      *)
WaitGS ==
    /\ EGoto("idle", "notify")
    /\ cmd' = "sync"
    /\ UNCHANGED <<ringbuf, signal, frames, event, lifecycle, gsthread, torn>>

Notify ==
    /\ epc = "notify"
    /\ SetEvent
    /\ epc' \in CASE cmd = "vsync"            -> {"vs_count"}
                  [] cmd \in {"fifo", "sync"} -> {"wait_empty"}
                  [] cmd = "config"           -> {"stall", "reset_gs"}
                  [] OTHER                    -> {"idle"}
    /\ UNCHANGED <<ringbuf, signal, frames, lifecycle, cmd, gsthread, torn>>

WaitForEmpty ==
    /\ EGoto("wait_empty", "synced")
    /\ s_sem_event \in {"sleep", "dead"}
    /\ UNCHANGED <<ringbuf, signal, frames, event, lifecycle, cmd, gsthread, torn>>

(* What follows a WaitGS: back to the EE, or on with a reset of the VM or  *)
(* its shutdown.  VMManager::Reset may report the game and apply settings  *)
(* in between, which queues calls for the GS thread ("config") without a   *)
(* wait.                                                                   *)
Synced ==
    /\ \/ EGoto("synced", "idle") /\ UNCHANGED cmd
       \/ EGoto("synced", "reset_gs") /\ cmd = "sync" /\ UNCHANGED cmd
       \/ EGoto("synced", "stall") /\ cmd = "sync" /\ cmd' = "config"
    /\ UNCHANGED <<ringbuf, signal, frames, event, lifecycle, gsthread, torn>>

(* The GS thread has seen that the ring is not empty, or carries out what  *)
(* it found there, and has not moved s_ReadPos yet.                        *)
Reading == gpc \in {"loop", "vs_sub", "vs_signal", "advance"} /\ s_ReadPos # s_WritePos

(* Mutant: the frame count survives the reset.                             *)
ResetGSKeepsCount ==
    /\ EGoto("reset_gs", "stall")
    /\ cmd' = "reset"
    /\ torn' = (torn \/ Reading)
    /\ s_ReadPos' = s_WritePos /\ ring' = [p \in Slots |-> data]
    /\ s_VsyncSignalListener' = FALSE
    /\ UNCHANGED <<s_WritePos, signal, s_QueuedFrameCount, s_sem_Vsync, event, lifecycle, gsthread>>

(* ResetGS(true): the ring is emptied from this side, then a Reset packet  *)
(* is sent.                                                                *)
ResetGS ==
    /\ EGoto("reset_gs", "stall")
    /\ cmd' = "reset"
    /\ torn' = (torn \/ Reading)
    /\ s_ReadPos' = s_WritePos /\ ring' = [p \in Slots |-> data]
    /\ s_QueuedFrameCount' = 0
    /\ s_VsyncSignalListener' = FALSE
    /\ UNCHANGED <<s_WritePos, signal, s_sem_Vsync, event, lifecycle, gsthread>>

(* The end of PostVsyncStart: count the frame, and sleep if there are      *)
(* enough of them.                                                         *)
CountVsync ==
    /\ epc = "vs_count"
    /\ epc' = IF s_QueuedFrameCount < VsyncQueueSize THEN "idle" ELSE "vs_listen"
    /\ s_QueuedFrameCount' = s_QueuedFrameCount + 1
    /\ UNCHANGED <<ringbuf, signal, s_VsyncSignalListener, s_sem_Vsync, event, lifecycle, cmd, gsthread, torn>>

ListenVsync ==
    /\ EGoto("vs_listen", "vs_wait")
    /\ s_VsyncSignalListener' = TRUE
    /\ UNCHANGED <<ringbuf, signal, s_QueuedFrameCount, s_sem_Vsync, event, lifecycle, cmd, gsthread, torn>>

WaitVsync ==
    /\ EGoto("vs_wait", "idle")
    /\ s_sem_Vsync > 0
    /\ s_sem_Vsync' = s_sem_Vsync - 1
    /\ UNCHANGED <<ringbuf, signal, s_QueuedFrameCount, s_VsyncSignalListener, event, lifecycle, cmd, gsthread, torn>>

(* WaitForOpen, which starts the thread if there is none; the VM that is   *)
(* then initialized resets the GS.                                         *)
WaitForOpen ==
    /\ EGoto("closed", "open_notify")
    /\ s_open_flag' = TRUE
    /\ IF gpc = "exited" THEN gpc' = "closed" /\ s_sem_event' = "idle" /\ s_shutdown_flag' = FALSE
                         ELSE UNCHANGED <<gpc, s_sem_event, s_shutdown_flag>>
    /\ UNCHANGED <<ringbuf, signal, frames, s_CopyDataTally, s_open_or_close_done, cmd, inc, torn>>

(* WaitForClose and ShutdownThread.                                        *)
WaitForClose ==
    /\ EGoto("idle", "close_notify")
    /\ s_open_flag' = FALSE
    /\ s_shutdown_flag' \in BOOLEAN
    /\ UNCHANGED <<ringbuf, signal, frames, event, s_open_or_close_done, cmd, gsthread, torn>>

ShutdownThread ==
    /\ EGoto("closed", "exit_notify")
    /\ gpc # "exited"
    /\ s_shutdown_flag' = TRUE
    /\ UNCHANGED <<ringbuf, signal, frames, event, s_open_flag, s_open_or_close_done, cmd, gsthread, torn>>

LifecycleNotify ==
    /\ EGoto("open_notify", "open_wait") \/ EGoto("close_notify", "close_wait") \/ EGoto("exit_notify", "join")
    /\ NotifyOfWork
    /\ UNCHANGED <<ringbuf, signal, frames, s_CopyDataTally, lifecycle, cmd, gsthread, torn>>

LifecycleDone ==
    /\ s_open_or_close_done > 0
    /\ s_open_or_close_done' = s_open_or_close_done - 1
    /\ \/ epc = "open_wait" /\ epc' = IF s_open_flag THEN "reset_gs" ELSE "closed"
       \/ epc = "close_wait" /\ epc' = IF s_shutdown_flag THEN "exit_notify" ELSE "closed"
    /\ UNCHANGED <<ringbuf, signal, frames, event, s_open_flag, s_shutdown_flag, cmd, gsthread, torn>>

Joined ==
    /\ EGoto("join", "closed")
    /\ gpc = "exited"
    /\ UNCHANGED <<ringbuf, signal, frames, event, lifecycle, cmd, gsthread, torn>>

-----------------------------------------------------------------------------
(* The GS thread: ThreadEntryPoint and MainLoop.                           *)

GGoto(here, there) == gpc = here /\ gpc' = there

(* Outside MainLoop: open, exit, or wait to be asked for either.           *)
ThreadEntryPoint ==
    /\ gpc = "closed"
    /\ gpc' = IF s_open_flag THEN "opening" ELSE IF s_shutdown_flag THEN "exited" ELSE "closed_wait"
    /\ s_sem_event' = IF gpc' = "exited" THEN "dead" ELSE s_sem_event
    /\ UNCHANGED <<ringbuf, signal, frames, s_CopyDataTally, lifecycle, ee, inc, torn>>

(* GSopen, which may fail.                                                 *)
OpenGS ==
    /\ gpc = "opening"
    /\ \E opened \in BOOLEAN :
         /\ s_open_flag' = opened
         /\ gpc' = IF opened THEN "wait" ELSE "closed"
    /\ s_open_or_close_done' = s_open_or_close_done + 1
    /\ UNCHANGED <<ringbuf, signal, frames, event, s_shutdown_flag, ee, inc, torn>>

CheckOpen ==
    /\ gpc = "check"
    /\ gpc' = IF s_open_flag THEN "loop" ELSE "leave"
    /\ UNCHANGED <<ringbuf, signal, frames, event, lifecycle, ee, inc, torn>>

(* The next command is read and carried out, or there is none.             *)
ReadPacket ==
    /\ gpc = "loop"
    /\ IF s_ReadPos = s_WritePos
         THEN gpc' = "valve_ring" /\ UNCHANGED inc
         ELSE LET tag == ring[s_ReadPos] IN
              /\ gpc' = IF tag[1] = "vsync" THEN "vs_sub" ELSE "advance"
              /\ inc' = 1 + tag[2]
    /\ UNCHANGED <<ringbuf, signal, frames, event, lifecycle, ee, torn>>

VsyncDone ==
    /\ \/ /\ GGoto("vs_sub", "vs_signal")
          /\ s_QueuedFrameCount' = s_QueuedFrameCount - 1
          /\ UNCHANGED <<s_VsyncSignalListener, s_sem_Vsync, torn>>
       \/ /\ GGoto("vs_signal", "advance")
          /\ s_VsyncSignalListener' = FALSE
          /\ s_sem_Vsync' = s_sem_Vsync + (IF s_VsyncSignalListener THEN 1 ELSE 0)
          /\ UNCHANGED s_QueuedFrameCount
    /\ UNCHANGED <<ringbuf, signal, event, lifecycle, ee, inc, torn>>

(* Mutant: the position is not masked.                                     *)
AdvanceUnmasked ==
    /\ GGoto("advance", IF torn THEN "lost" ELSE "signal")
    /\ s_ReadPos' = s_ReadPos + inc
    /\ UNCHANGED <<ring, s_WritePos, signal, frames, event, lifecycle, ee, inc, torn>>

AdvanceReadPos ==
    /\ GGoto("advance", IF torn THEN "lost" ELSE "signal")
    /\ s_ReadPos' = (s_ReadPos + inc) % RingBufferSize
    /\ ring' = [p \in Slots |-> IF (p - s_ReadPos) % RingBufferSize < inc THEN data ELSE ring[p]]
    /\ UNCHANGED <<s_WritePos, signal, frames, event, lifecycle, ee, inc, torn>>

(* The signal a stalled EE thread has asked for after so many slots.       *)
SignalRing ==
    /\ GGoto("signal", "loop")
    /\ inc' = 0
    /\ LET post == s_SignalRingEnable /\ s_SignalRingPosition <= 0 IN
         /\ s_SignalRingPosition' = IF s_SignalRingEnable THEN s_SignalRingPosition - inc
                                                          ELSE s_SignalRingPosition
         /\ s_SignalRingEnable' = (s_SignalRingEnable /\ ~post)
         /\ s_sem_OnRingReset' = s_sem_OnRingReset + (IF post THEN 1 ELSE 0)
    /\ UNCHANGED <<ringbuf, frames, event, lifecycle, ee, torn>>

(* Mutant: s_SignalRingPosition is left as it was.                         *)
RingValveKeepsPosition ==
    /\ GGoto("valve_ring", "valve_vsync")
    /\ s_SignalRingEnable' = FALSE
    /\ s_sem_OnRingReset' = s_sem_OnRingReset + (IF s_SignalRingEnable THEN 1 ELSE 0)
    /\ UNCHANGED <<s_SignalRingPosition, ringbuf, frames, event, lifecycle, ee, inc, torn>>

(* The safety valves, once the ring was found empty.                       *)
RingValve ==
    /\ GGoto("valve_ring", "valve_vsync")
    /\ s_SignalRingEnable' = FALSE
    /\ s_SignalRingPosition' = IF s_SignalRingEnable THEN 0 ELSE s_SignalRingPosition
    /\ s_sem_OnRingReset' = s_sem_OnRingReset + (IF s_SignalRingEnable THEN 1 ELSE 0)
    /\ UNCHANGED <<ringbuf, frames, event, lifecycle, ee, inc, torn>>

VsyncValve ==
    /\ GGoto("valve_vsync", "wait")
    /\ s_VsyncSignalListener' = FALSE
    /\ s_sem_Vsync' = s_sem_Vsync + (IF s_VsyncSignalListener THEN 1 ELSE 0)
    /\ UNCHANGED <<ringbuf, signal, s_QueuedFrameCount, event, lifecycle, ee, inc, torn>>

(* The end of MainLoop drops what is still queued and kills the semaphore, *)
(* then GSclose, the answer to WaitForClose, and the semaphore's Reset.    *)
LeaveMainLoop ==
    /\ GGoto("leave", "closing")
    /\ s_ReadPos' = s_WritePos /\ ring' = [p \in Slots |-> data]
    /\ s_sem_event' = "dead"
    /\ UNCHANGED <<s_WritePos, signal, frames, s_CopyDataTally, lifecycle, ee, inc, torn>>

CloseGS ==
    /\ \/ /\ GGoto("closing", "restart")
          /\ s_open_or_close_done' = s_open_or_close_done + 1
          /\ UNCHANGED s_sem_event
       \/ /\ GGoto("restart", "closed")
          /\ s_sem_event' = "idle"
          /\ UNCHANGED s_open_or_close_done
    /\ UNCHANGED <<ringbuf, signal, frames, s_CopyDataTally, s_open_flag, s_shutdown_flag, ee, inc, torn>>

-----------------------------------------------------------------------------
EECall ==
    \/ \E c \in {"gs", "fifo", "vsync"} : BeginPacket(c)
    \/ WaitGS \/ WaitForOpen \/ WaitForClose \/ ShutdownThread

EEStep ==
    \/ GenericStall \/ StallEnable \/ StallKick \/ StallWake \/ StallRecheck
    \/ WritePacket \/ Publish \/ Notify \/ WaitForEmpty \/ Synced \/ ResetGS
    \/ CountVsync \/ ListenVsync \/ WaitVsync
    \/ LifecycleNotify \/ LifecycleDone \/ Joined

GSStep ==
    \/ WaitForWork("closed_wait", "closed") \/ WaitForWork("wait", "check")
    \/ ThreadEntryPoint \/ OpenGS \/ CheckOpen \/ ReadPacket \/ VsyncDone \/ AdvanceReadPos
    \/ SignalRing \/ RingValve \/ VsyncValve \/ LeaveMainLoop \/ CloseGS

Next == EECall \/ EEStep \/ GSStep

Spec == Init /\ [][Next]_vars

(* Both threads are scheduled; the EE thread need not send anything.       *)
FairSpec == Spec /\ WF_vars(EEStep) /\ WF_vars(GSStep)

-----------------------------------------------------------------------------
(* The slots between the two positions, and the vsyncs among their tags.   *)
Pending == {p \in Slots : (p - s_ReadPos) % RingBufferSize < (s_WritePos - s_ReadPos) % RingBufferSize}

VsyncsQueued == Cardinality({p \in Pending : ring[p][1] = "vsync"})

(* The slots MainLoop has before it, by how far ahead they are.            *)
Unread == (s_WritePos - s_ReadPos) % RingBufferSize

Ahead(i) == (s_ReadPos + i) % RingBufferSize

(* Where a packet begins among them; MainLoop takes what is at s_ReadPos   *)
(* for one.                                                                *)
Heads == {i \in 0 .. Unread - 1 : ring[Ahead(i)] # data \/ i = 0}

(* Its command, if it does not reach past s_WritePos.                      *)
Contents ==
    [i \in Slots |-> IF ring[Ahead(i)] # data /\ i + ring[Ahead(i)][2] < Unread THEN ring[Ahead(i)][1]
                                                                                ELSE "garbage"]

(* The commands the GS thread has before it, in the order it meets them.   *)
Queue == InOrder(Heads, Contents)

EEPC == {"idle", "stall", "enable", "kick", "spin_kick", "ring_wait", "recheck", "spin", "write",
         "publish", "notify", "wait_empty", "synced", "reset_gs", "vs_count", "vs_listen",
         "vs_wait", "closed", "open_notify", "open_wait", "close_notify", "close_wait",
         "exit_notify", "join"}

GSPC == {"exited", "closed", "closed_wait", "opening", "wait", "check", "loop", "vs_sub",
         "vs_signal", "advance", "signal", "lost", "valve_ring", "valve_vsync", "leave", "closing",
         "restart"}

(* The types.  Each of the three semaphores is posted for a thread that    *)
(* waits or is about to, once.                                             *)
TypeOK ==
    /\ ring \in [Slots -> {data} \cup ((Commands \cup {"config"}) \X {0, VsyncLen})]
    /\ s_ReadPos \in Slots /\ s_WritePos \in Slots
    /\ {s_SignalRingEnable, s_VsyncSignalListener, s_CopyDataTally, s_open_flag,
        s_shutdown_flag, torn} \subseteq BOOLEAN
    /\ s_SignalRingPosition \in Int /\ s_QueuedFrameCount \in Int
    /\ s_sem_event \in {"idle", "work", "sleep", "dead"}
    /\ s_sem_OnRingReset \in (IF epc \in {"kick", "ring_wait"} THEN {0, 1} ELSE {0})
    /\ s_sem_Vsync \in (IF epc = "vs_wait" THEN {0, 1} ELSE {0})
    /\ s_open_or_close_done \in (IF epc \in {"open_wait", "close_wait", "open_notify", "close_notify"}
                                   THEN {0, 1} ELSE {0})
    /\ epc \in EEPC /\ cmd \in Commands \cup {"sync", "config"}
    /\ gpc \in GSPC /\ inc \in 0 .. VsyncLen + 1

-----------------------------------------------------------------------------
(* The ring is a queue of commands.  Whatever the packets' sizes and       *)
(* wherever they wrap, the GS thread carries out the commands the EE       *)
(* thread sent, each once and in order; only a reset or a close drops any. *)
(* GenericStall never lets a packet overtake s_ReadPos, and s_ReadPos      *)
(* always moves from tag to tag.  A reset that tears the ring ends that.   *)
Channel == INSTANCE GSChannel WITH
             queue <- IF torn THEN <<>> ELSE Queue, Commands <- Commands \cup {"config"},
             dropping <- epc = "reset_gs" \/ gpc = "leave"

ChannelSpec == Channel!Spec

(* The assertions of GenericStall: the ring signal is off when a stall     *)
(* begins, and it was sent for enough slots when the stall ends.           *)
StallAssertions ==
    /\ epc = "stall" => ~s_SignalRingEnable
    /\ epc = "recheck" => (~s_SignalRingEnable /\ (FreeRoom > PacketSize => s_SignalRingPosition <= 0))

(* The vsync at the head of the ring is done but not yet removed.          *)
VsyncExecuted == gpc \in {"vs_signal", "advance"} /\ s_ReadPos # s_WritePos /\ ring[s_ReadPos][1] = "vsync"

Session == epc \notin {"closed", "open_notify", "open_wait", "reset_gs", "close_notify",
                       "close_wait", "exit_notify", "join"}

(* s_QueuedFrameCount, which the EE thread raises after the GS thread may  *)
(* already have lowered it, is always the number of vsyncs in the ring up  *)
(* to the one being counted and the one just done: no reset, close or      *)
(* reopen makes it drift.  And it bounds the vsyncs not yet shown:         *)
(* VsyncQueueSize, the one the EE thread waits with, and one more.  That   *)
(* one is due to VsyncValve, which releases the EE thread when the ring    *)
(* was empty a moment ago, with nothing of what was queued since done.     *)
(* All this while the ring is not torn.                                    *)
FrameCountExact ==
    ~torn =>
      /\ Session =>
           s_QueuedFrameCount = VsyncsQueued
             - (IF epc \in {"notify", "vs_count"} /\ cmd = "vsync" THEN 1 ELSE 0)
             - (IF VsyncExecuted THEN 1 ELSE 0)
      /\ VsyncsQueued - (IF VsyncExecuted THEN 1 ELSE 0) <= VsyncQueueSize + 2

(* WaitGS returns with an empty ring, and never because the GS thread died *)
(* ("MTGS Thread Died").                                                   *)
SyncMeansDone == epc = "synced" => s_ReadPos = s_WritePos /\ s_sem_event = "sleep"

(* A stall of the EE thread on a full ring ends; WaitGS returns; and so do *)
(* WaitForOpen, WaitForClose and ShutdownThread, although the GS thread    *)
(* kills its semaphore, answers, and only then resets it.  They need not   *)
(* when the ring is torn.                                                  *)
CallsReturn ==
    /\ epc \in {"kick", "spin_kick", "ring_wait", "spin"} ~> epc = "write" \/ torn
    /\ epc = "wait_empty" ~> epc = "synced" \/ torn
    /\ epc \in {"open_notify", "close_notify", "exit_notify"} ~> epc \in {"reset_gs", "closed"} \/ torn

(* "this ensures the EEcore won't sleep the eternity": an EE thread that   *)
(* sleeps for a vsync is not left with a GS thread that sleeps too.        *)
VsyncSleeperIsWoken == ~(epc = "vs_wait" /\ s_sem_Vsync = 0 /\ s_sem_event = "sleep")

=============================================================================
