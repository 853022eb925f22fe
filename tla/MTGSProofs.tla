----------------------------- MODULE MTGSProofs -----------------------------
(***************************************************************************)
(* Proofs about module MTGS, for every size of the ring, of a vsync packet *)
(* and of the vsync queue: the assertions of GenericStall, the frame count *)
(* and its bound, what WaitGS promises, and that the ring is a queue.  A   *)
(* reset that finds calls queued since its WaitGS may tear the ring; what  *)
(* is said of its contents is said until then.                             *)
(***************************************************************************)
EXTENDS MTGS, RingOrderProofs, FiniteSetTheorems, TLAPS

-----------------------------------------------------------------------------
(* The types, in groups.                                                   *)

Packets == Commands \cup {"config"}

Tags == Packets \X {0, VsyncLen}

Positions == s_ReadPos \in Slots /\ s_WritePos \in Slots /\ ring \in [Slots -> {data} \cup Tags]

Flags ==
    /\ s_SignalRingEnable \in BOOLEAN /\ s_VsyncSignalListener \in BOOLEAN /\ s_CopyDataTally \in BOOLEAN
    /\ s_open_flag \in BOOLEAN /\ s_shutdown_flag \in BOOLEAN /\ torn \in BOOLEAN

Numbers ==
    /\ s_SignalRingPosition \in Int /\ s_QueuedFrameCount \in Int /\ inc \in 0 .. VsyncLen + 1

Places ==
    /\ epc \in EEPC /\ gpc \in GSPC /\ cmd \in Packets \cup {"sync"}
    /\ s_sem_event \in {"idle", "work", "sleep", "dead"}

-----------------------------------------------------------------------------
(* Where the GS thread can be for each place of the EE thread.             *)

Quiet   == {"wait", "check", "loop", "valve_ring", "valve_vsync"}
Inside  == Quiet \cup {"vs_sub", "vs_signal", "advance", "signal", "lost"}
Outside == {"restart", "closed", "closed_wait"}

Sending == {"stall", "enable", "kick", "spin_kick", "ring_wait", "recheck", "spin", "write", "publish"}

LifeInv ==
    /\ epc = "closed" => /\ s_open_or_close_done = 0 /\ ~s_open_flag
                         /\ gpc \in Outside \cup {"exited"}
                         /\ gpc # "exited" => ~s_shutdown_flag
    /\ epc \in {"open_notify", "open_wait"} =>
          /\ ~s_shutdown_flag
          /\ \/ s_open_or_close_done = 0 /\ s_open_flag /\ gpc \in Outside \cup {"opening"}
             \/ s_open_or_close_done = 1 /\ s_open_flag /\ gpc \in Quiet
             \/ s_open_or_close_done = 1 /\ ~s_open_flag /\ gpc \in {"closed", "closed_wait"}
    /\ epc \in {"close_notify", "close_wait"} =>
          /\ ~s_open_flag
          /\ \/ s_open_or_close_done = 0 /\ gpc \in Inside \cup {"leave", "closing"}
             \/ s_open_or_close_done = 1 /\ gpc \in Outside
             \/ s_open_or_close_done = 1 /\ gpc = "exited" /\ s_shutdown_flag
    /\ epc \in {"exit_notify", "join"} =>
          s_open_or_close_done = 0 /\ ~s_open_flag /\ s_shutdown_flag /\ gpc \in Outside \cup {"exited"}
    /\ epc = "reset_gs" => s_open_or_close_done = 0 /\ s_open_flag /\ ~s_shutdown_flag /\ gpc \in Inside
    /\ Session => s_open_or_close_done = 0 /\ s_open_flag /\ ~s_shutdown_flag /\ gpc \in Inside

(* Outside a session, and behind MainLoop, the ring is empty.              *)
EmptyInv ==
    /\ epc \in {"closed", "open_notify", "open_wait", "exit_notify", "join"}
         => s_ReadPos = s_WritePos
    /\ gpc \notin Inside \cup {"leave"} => s_ReadPos = s_WritePos

(* The semaphore, and what an EE thread that waits for it relies on.       *)
SemaInv ==
    /\ s_sem_event = "sleep" => gpc \in {"wait", "closed_wait"}
    /\ s_sem_event = "dead" => gpc \in {"closing", "restart", "exited"}
    /\ epc \in Sending => cmd \in Packets
    /\ epc \in {"wait_empty", "synced"} /\ gpc \in {"wait", "valve_ring", "valve_vsync"} /\ s_sem_event # "work"
         => s_ReadPos = s_WritePos
    /\ epc = "synced" => s_sem_event = "sleep"

(* The signal of the stall is either still asked for or posted, and the    *)
(* count it waited for is over when it is posted.                          *)
SignalInv ==
    /\ epc \in {"kick", "ring_wait"} => s_sem_OnRingReset = (IF s_SignalRingEnable THEN 0 ELSE 1)
    /\ epc \notin {"kick", "ring_wait"} => s_sem_OnRingReset = 0 /\ ~s_SignalRingEnable
    /\ s_sem_OnRingReset = 1 \/ epc = "recheck" => s_SignalRingPosition <= 0

(* So is the one a vsync waits for.                                        *)
VsyncInv ==
    /\ epc = "vs_wait" => s_sem_Vsync = (IF s_VsyncSignalListener THEN 0 ELSE 1)
    /\ epc # "vs_wait" => s_sem_Vsync = 0 /\ ~s_VsyncSignalListener

-----------------------------------------------------------------------------
(* The ring.  Dist is how far a slot is ahead of s_ReadPos.                *)

Dist(p) == IF p >= s_ReadPos THEN p - s_ReadPos ELSE p - s_ReadPos + RingBufferSize

Used == Dist(s_WritePos)

(* The packet at p ends where the next begins, or at s_WritePos.           *)
PacketAt(p) ==
    /\ Dist(p) + 1 + ring[p][2] <= Used
    /\ \A q \in Slots : Dist(p) < Dist(q) /\ Dist(q) <= Dist(p) + ring[p][2] => ring[q] = data
    /\ \A q \in Slots : Dist(q) = Dist(p) + 1 + ring[p][2] /\ Dist(q) < Used => ring[q] # data

RingInv ==
    /\ \A p \in Slots : Dist(p) < Used /\ ring[p] # data => PacketAt(p)
    /\ s_ReadPos # s_WritePos => ring[s_ReadPos] # data

WriteInv ==
    /\ epc \in {"write", "publish"} => Used + PacketSize < RingBufferSize
    /\ epc = "publish" => /\ ring[s_WritePos] = <<cmd, Len_(cmd)>>
                          /\ \A q \in Slots : Used < Dist(q) /\ Dist(q) <= Used + Len_(cmd) => ring[q] = data

(* The packet that is being carried out.                                   *)
ReadInv ==
    /\ gpc \in {"vs_sub", "vs_signal", "advance"} =>
          s_ReadPos # s_WritePos /\ inc = 1 + ring[s_ReadPos][2]
    /\ gpc \in {"vs_sub", "vs_signal"} => ring[s_ReadPos][1] = "vsync"

-----------------------------------------------------------------------------
(* The vsyncs that were not carried out.  A vsync the EE thread waits with *)
(* is one more than it may leave behind, and a signal or a valve that is   *)
(* still to come and was earned before makes up for one.                   *)
Unshown == VsyncsQueued - (IF VsyncExecuted THEN 1 ELSE 0)
Counting == IF epc \in {"notify", "vs_count"} /\ cmd = "vsync" THEN 1 ELSE 0
Waiting == IF \/ epc \in {"notify", "vs_count"} /\ cmd = "vsync"
              \/ epc = "vs_listen"
              \/ epc = "vs_wait" /\ s_sem_Vsync = 0
           THEN 1 ELSE 0
Early == IF gpc \in {"vs_signal", "valve_ring", "valve_vsync"} THEN 1 ELSE 0

FrameInv ==
    /\ Session => s_QueuedFrameCount = Unshown - Counting
    /\ epc \in {"vs_count", "vs_listen", "vs_wait"} => cmd = "vsync"
    /\ Unshown <= VsyncQueueSize + 1 + Waiting - Early

(* What a reset tears.                                                     *)
Intact == RingInv /\ WriteInv /\ ReadInv /\ FrameInv

IInv ==
    /\ Positions /\ Flags /\ Numbers /\ Places
    /\ LifeInv /\ EmptyInv /\ SemaInv /\ SignalInv /\ VsyncInv
    /\ ~torn => Intact

-----------------------------------------------------------------------------
(* The constants one by one.                                               *)
LEMMA Constants ==
    /\ RingBufferSize \in Nat /\ VsyncLen \in Nat /\ RingBufferSize > VsyncLen + 2
    /\ SleepLimit \in Nat /\ VsyncQueueSize \in Nat
BY RingAssumption, LimitAssumption

(* Remainders, for the arguments the positions give.                       *)
LEMMA Remainder ==
    ASSUME NEW n \in Nat, n > 0, NEW a \in Int
    PROVE  /\ 0 <= a /\ a < n => a % n = a
           /\ n <= a /\ a < 2 * n => a % n = a - n
           /\ -n <= a /\ a < 0 => a % n = a + n
<1>1. 0 <= a /\ a < n => a % n = a
  OBVIOUS
<1>2. n <= a /\ a < 2 * n => a % n = a - n
  OBVIOUS
<1>3. -n <= a /\ a < 0 => a % n = a + n
  OBVIOUS
<1>. QED  BY <1>1, <1>2, <1>3

LEMMA Wrapped ==
    ASSUME NEW n \in Nat, n > 0, NEW a \in Int, 0 <= a, a < 2 * n
    PROVE  a % n = IF a < n THEN a ELSE a - n
<1>1. CASE a < n
  BY <1>1, Remainder
<1>2. CASE ~(a < n)
  BY <1>2, Remainder
<1>. QED  BY <1>1, <1>2

LEMMA Distance ==
    ASSUME Positions
    PROVE  /\ \A p \in Slots : (p - s_ReadPos) % RingBufferSize = Dist(p) /\ Dist(p) \in Slots
           /\ \A p, q \in Slots : Dist(p) = Dist(q) => p = q
           /\ Used \in Slots /\ Dist(s_ReadPos) = 0 /\ (Used = 0 <=> s_ReadPos = s_WritePos)
           /\ Pending = {p \in Slots : Dist(p) < Used}
           /\ FreeRoom = RingBufferSize - Used
<1>0. RingBufferSize \in Nat /\ RingBufferSize > 0
  BY Constants
<1>1. ASSUME NEW p \in Slots
      PROVE  (p - s_ReadPos) % RingBufferSize = Dist(p) /\ Dist(p) \in Slots
  <2>1. /\ p - s_ReadPos \in Int /\ -RingBufferSize <= p - s_ReadPos /\ p - s_ReadPos < RingBufferSize
        /\ p \in Int /\ s_ReadPos \in Int
    BY <1>0 DEF Positions, Slots
  <2>2. CASE p >= s_ReadPos
    <3>1. Dist(p) = p - s_ReadPos /\ 0 <= p - s_ReadPos
      BY <2>1, <2>2 DEF Dist
    <3>. QED  BY <1>0, <2>1, <3>1, Remainder DEF Slots
  <2>3. CASE ~(p >= s_ReadPos)
    <3>1. Dist(p) = p - s_ReadPos + RingBufferSize /\ p - s_ReadPos < 0
      BY <2>1, <2>3 DEF Dist
    <3>2. (p - s_ReadPos) % RingBufferSize = p - s_ReadPos + RingBufferSize
      BY <1>0, <2>1, <3>1, Remainder
    <3>3. p - s_ReadPos + RingBufferSize \in Slots
      BY <1>0, <1>1, <2>1, <3>1 DEF Slots, Positions
    <3>. QED  BY <3>1, <3>2, <3>3
  <2>. QED  BY <2>2, <2>3
<1>2. \A p, q \in Slots : Dist(p) = Dist(q) => p = q
  BY <1>0 DEF Dist, Slots, Positions
<1>3. Used \in Slots /\ Dist(s_ReadPos) = 0 /\ (Used = 0 <=> s_ReadPos = s_WritePos)
  BY <1>0, <1>1 DEF Used, Dist, Slots, Positions
<1>4. Pending = {p \in Slots : Dist(p) < Used}
  BY <1>1 DEF Pending, Used, Positions
<1>5. FreeRoom = RingBufferSize - Used
  BY <1>0 DEF FreeRoom, Used, Dist, Slots, Positions
<1>. QED  BY <1>1, <1>2, <1>3, <1>4, <1>5

(* The places of the threads.                                              *)
LEMMA NextPlaces ==
    ASSUME Places, [Next]_vars
    PROVE  Places'
<1>. USE DEF Places, Packets, Commands, EEPC, GSPC, ringbuf, signal, frames, event, lifecycle, ee, gsthread,
             SetEvent, NotifyOfWork, EGoto, GGoto
<1>1. ASSUME NEW c \in {"gs", "fifo", "vsync"}, BeginPacket(c)
     PROVE  Places'
  BY <1>1 DEF BeginPacket
<1>2. ASSUME WaitForWork("closed_wait", "closed")
     PROVE  Places'
  BY <1>2 DEF WaitForWork
<1>3. ASSUME WaitForWork("wait", "check")
     PROVE  Places'
  BY <1>3 DEF WaitForWork
<1>4. CASE WaitGS \/ WaitForOpen \/ WaitForClose \/ ShutdownThread
  BY <1>4 DEF WaitGS, WaitForOpen, WaitForClose, ShutdownThread
<1>5. CASE GenericStall \/ StallEnable \/ StallKick \/ StallWake
  BY <1>5 DEF GenericStall, StallEnable, StallKick, StallWake
<1>6. CASE StallRecheck \/ WritePacket \/ Publish \/ Notify
  BY <1>6 DEF StallRecheck, WritePacket, Publish, Notify
<1>7. CASE WaitForEmpty \/ Synced \/ ResetGS \/ CountVsync
  BY <1>7 DEF WaitForEmpty, Synced, ResetGS, CountVsync
<1>8. CASE ListenVsync \/ WaitVsync \/ LifecycleNotify \/ LifecycleDone
  BY <1>8 DEF ListenVsync, WaitVsync, LifecycleNotify, LifecycleDone
<1>9. CASE Joined \/ ThreadEntryPoint \/ OpenGS \/ CheckOpen
  BY <1>9 DEF Joined, ThreadEntryPoint, OpenGS, CheckOpen
<1>10. CASE ReadPacket \/ VsyncDone \/ AdvanceReadPos \/ SignalRing
  BY <1>10 DEF ReadPacket, VsyncDone, AdvanceReadPos, SignalRing
<1>11. CASE RingValve \/ VsyncValve \/ LeaveMainLoop \/ CloseGS
  BY <1>11 DEF RingValve, VsyncValve, LeaveMainLoop, CloseGS
<1>12. CASE UNCHANGED vars
  BY <1>12 DEF vars
<1>. QED
  BY <1>1, <1>2, <1>3, <1>4, <1>5, <1>6, <1>7, <1>8, <1>9, <1>10, <1>11, <1>12
     DEF Next, EECall, EEStep, GSStep

LEMMA NextFlags ==
    ASSUME Flags, [Next]_vars
    PROVE  Flags'
<1>. USE DEF Flags, ringbuf, signal, frames, event, lifecycle, ee, gsthread, SetEvent, NotifyOfWork,
             EGoto, GGoto
<1>1. ASSUME NEW c \in {"gs", "fifo", "vsync"}, BeginPacket(c)
     PROVE  Flags'
  BY <1>1 DEF BeginPacket
<1>2. ASSUME WaitForWork("closed_wait", "closed")
     PROVE  Flags'
  BY <1>2 DEF WaitForWork
<1>3. ASSUME WaitForWork("wait", "check")
     PROVE  Flags'
  BY <1>3 DEF WaitForWork
<1>4. CASE SignalRing
  BY <1>4 DEF SignalRing
<1>5. CASE WaitForOpen
  BY <1>5 DEF WaitForOpen
<1>6. CASE OpenGS
  BY <1>6 DEF OpenGS
<1>7. CASE WaitGS \/ WaitForClose \/ ShutdownThread \/ GenericStall
  BY <1>7 DEF WaitGS, WaitForClose, ShutdownThread, GenericStall
<1>8. CASE StallEnable \/ StallKick \/ StallWake \/ StallRecheck
  BY <1>8 DEF StallEnable, StallKick, StallWake, StallRecheck
<1>9. CASE WritePacket \/ Publish \/ Notify \/ WaitForEmpty
  BY <1>9 DEF WritePacket, Publish, Notify, WaitForEmpty
<1>10. CASE Synced \/ ResetGS \/ CountVsync \/ ListenVsync
  BY <1>10 DEF Synced, ResetGS, CountVsync, ListenVsync
<1>11. CASE WaitVsync \/ LifecycleNotify \/ LifecycleDone \/ Joined
  BY <1>11 DEF WaitVsync, LifecycleNotify, LifecycleDone, Joined
<1>12. CASE ThreadEntryPoint \/ CheckOpen \/ ReadPacket \/ VsyncDone
  BY <1>12 DEF ThreadEntryPoint, CheckOpen, ReadPacket, VsyncDone
<1>13. CASE AdvanceReadPos \/ RingValve \/ VsyncValve \/ LeaveMainLoop
  BY <1>13 DEF AdvanceReadPos, RingValve, VsyncValve, LeaveMainLoop
<1>14. CASE CloseGS
  BY <1>14 DEF CloseGS
<1>15. CASE UNCHANGED vars
  BY <1>15 DEF vars
<1>. QED
  BY <1>1, <1>2, <1>3, <1>4, <1>5, <1>6, <1>7, <1>8, <1>9, <1>10, <1>11, <1>12, <1>13, <1>14, <1>15
     DEF Next, EECall, EEStep, GSStep

(* The open, close and shutdown handshakes.                                *)
LEMMA NextLifeInv ==
    ASSUME Places, Flags, SemaInv, EmptyInv, LifeInv, [Next]_vars
    PROVE  LifeInv'
<1>. USE DEF LifeInv, Session, Quiet, Inside, Outside, ringbuf, signal, frames, event, lifecycle,
             ee, gsthread, SetEvent, NotifyOfWork, EGoto, GGoto
<1>1. ASSUME NEW c \in {"gs", "fifo", "vsync"}, BeginPacket(c)
     PROVE  LifeInv'
  BY <1>1 DEF BeginPacket
<1>2. ASSUME WaitForWork("closed_wait", "closed")
     PROVE  LifeInv'
  BY <1>2 DEF WaitForWork
<1>3. ASSUME WaitForWork("wait", "check")
     PROVE  LifeInv'
  BY <1>3 DEF WaitForWork
<1>4. CASE ReadPacket
  BY <1>4 DEF ReadPacket, EmptyInv
<1>5. CASE LifecycleDone
  BY <1>5 DEF LifecycleDone
<1>6. CASE OpenGS
  BY <1>6 DEF OpenGS
<1>7. CASE CloseGS
  BY <1>7 DEF CloseGS
<1>8. CASE LeaveMainLoop
  BY <1>8 DEF LeaveMainLoop
<1>9. CASE ThreadEntryPoint
  BY <1>9 DEF ThreadEntryPoint
<1>10. CASE WaitForOpen
  BY <1>10 DEF WaitForOpen
<1>11. CASE WaitForClose
  BY <1>11 DEF WaitForClose
<1>12. CASE Notify
  BY <1>12 DEF Notify, Places, Packets, Commands
<1>13. CASE Synced
  BY <1>13 DEF Synced, SemaInv
<1>14. CASE WaitGS \/ ShutdownThread \/ GenericStall
  BY <1>14 DEF WaitGS, ShutdownThread, GenericStall
<1>15. CASE StallEnable \/ StallKick \/ StallWake
  BY <1>15 DEF StallEnable, StallKick, StallWake
<1>16. CASE StallRecheck \/ WritePacket \/ Publish
  BY <1>16 DEF StallRecheck, WritePacket, Publish
<1>17. CASE WaitForEmpty \/ ResetGS \/ CountVsync
  BY <1>17 DEF WaitForEmpty, ResetGS, CountVsync
<1>18. CASE ListenVsync \/ WaitVsync \/ LifecycleNotify
  BY <1>18 DEF ListenVsync, WaitVsync, LifecycleNotify
<1>19. CASE Joined \/ CheckOpen \/ VsyncDone
  BY <1>19 DEF Joined, CheckOpen, VsyncDone
<1>20. CASE AdvanceReadPos \/ SignalRing \/ RingValve
  BY <1>20 DEF AdvanceReadPos, SignalRing, RingValve
<1>21. CASE VsyncValve
  BY <1>21 DEF VsyncValve
<1>22. CASE UNCHANGED vars
  BY <1>22 DEF vars
<1>. QED
  BY <1>1, <1>2, <1>3, <1>4, <1>5, <1>6, <1>7, <1>8, <1>9, <1>10, <1>11, <1>12, <1>13, <1>14, <1>15,
     <1>16, <1>17, <1>18, <1>19, <1>20, <1>21, <1>22
     DEF Next, EECall, EEStep, GSStep

(* The semaphore.                                                          *)
LEMMA NextSemaInv ==
    ASSUME Places, LifeInv, EmptyInv, SemaInv, [Next]_vars
    PROVE  SemaInv'
<1>. USE DEF SemaInv, Sending, Session, Quiet, Inside, Outside, ringbuf, signal, frames, event,
             lifecycle, ee, gsthread, SetEvent, NotifyOfWork, EGoto, GGoto
<1>1. ASSUME NEW c \in {"gs", "fifo", "vsync"}, BeginPacket(c)
     PROVE  SemaInv'
  BY <1>1 DEF BeginPacket, Packets, Commands
<1>2. ASSUME WaitForWork("closed_wait", "closed")
     PROVE  SemaInv'
  BY <1>2 DEF WaitForWork
<1>3. ASSUME WaitForWork("wait", "check")
     PROVE  SemaInv'
  BY <1>3 DEF WaitForWork
<1>4. CASE WritePacket
  BY <1>4 DEF WritePacket
<1>5. CASE Publish
  BY <1>5 DEF Publish
<1>6. CASE Notify
  BY <1>6 DEF Notify, Packets
<1>7. CASE WaitForEmpty
  BY <1>7 DEF WaitForEmpty, LifeInv
<1>8. CASE Synced
  BY <1>8 DEF Synced, Packets
<1>9. CASE ReadPacket
  BY <1>9 DEF ReadPacket
<1>10. CASE AdvanceReadPos
  BY <1>10 DEF AdvanceReadPos
<1>11. CASE ResetGS
  BY <1>11 DEF ResetGS, Packets, Commands
<1>12. CASE LeaveMainLoop
  BY <1>12 DEF LeaveMainLoop, LifeInv
<1>13. CASE LifecycleDone
  BY <1>13 DEF LifecycleDone, LifeInv
<1>14. CASE ThreadEntryPoint
  BY <1>14 DEF ThreadEntryPoint
<1>15. CASE OpenGS
  BY <1>15 DEF OpenGS, LifeInv
<1>16. CASE WaitGS \/ WaitForOpen \/ WaitForClose
  BY <1>16 DEF WaitGS, WaitForOpen, WaitForClose
<1>17. CASE ShutdownThread \/ GenericStall \/ StallEnable
  BY <1>17 DEF ShutdownThread, GenericStall, StallEnable
<1>18. CASE StallKick \/ StallWake \/ StallRecheck
  BY <1>18 DEF StallKick, StallWake, StallRecheck
<1>19. CASE CountVsync \/ ListenVsync \/ WaitVsync
  BY <1>19 DEF CountVsync, ListenVsync, WaitVsync
<1>20. CASE LifecycleNotify \/ Joined \/ CheckOpen
  BY <1>20 DEF LifecycleNotify, Joined, CheckOpen
<1>21. CASE VsyncDone \/ SignalRing \/ RingValve
  BY <1>21 DEF VsyncDone, SignalRing, RingValve
<1>22. CASE VsyncValve \/ CloseGS
  BY <1>22 DEF VsyncValve, CloseGS
<1>23. CASE UNCHANGED vars
  BY <1>23 DEF vars
<1>. QED
  BY <1>1, <1>2, <1>3, <1>4, <1>5, <1>6, <1>7, <1>8, <1>9, <1>10, <1>11, <1>12, <1>13, <1>14, <1>15,
     <1>16, <1>17, <1>18, <1>19, <1>20, <1>21, <1>22, <1>23
     DEF Next, EECall, EEStep, GSStep

(* The signal of the stall.                                                *)
LEMMA NextSignalInv ==
    ASSUME Places, Numbers, Flags, SignalInv, [Next]_vars
    PROVE  SignalInv'
<1>. USE DEF SignalInv, ringbuf, signal, frames, event, lifecycle, ee, gsthread, SetEvent,
             NotifyOfWork, EGoto, GGoto
<1>1. ASSUME NEW c \in {"gs", "fifo", "vsync"}, BeginPacket(c)
     PROVE  SignalInv'
  BY <1>1 DEF BeginPacket
<1>2. ASSUME WaitForWork("closed_wait", "closed")
     PROVE  SignalInv'
  BY <1>2 DEF WaitForWork
<1>3. ASSUME WaitForWork("wait", "check")
     PROVE  SignalInv'
  BY <1>3 DEF WaitForWork
<1>4. CASE SignalRing
  <2>. DEFINE post == s_SignalRingEnable /\ s_SignalRingPosition <= 0
  <2>1. /\ UNCHANGED epc /\ inc \in Nat /\ s_SignalRingPosition \in Int
        /\ s_SignalRingPosition' = IF s_SignalRingEnable THEN s_SignalRingPosition - inc ELSE s_SignalRingPosition
        /\ s_sem_OnRingReset' = s_sem_OnRingReset + (IF post THEN 1 ELSE 0)
    BY <1>4, Constants DEF SignalRing, Numbers
  <2>0. s_SignalRingEnable' <=> (s_SignalRingEnable /\ ~post)
    BY <1>4 DEF SignalRing
  <2>2. CASE post
    <3>1. epc \in {"kick", "ring_wait"} /\ s_sem_OnRingReset = 0
      BY <2>2
    <3>2. UNCHANGED epc /\ ~s_SignalRingEnable' /\ s_sem_OnRingReset' = 1
      BY <2>0, <2>1, <2>2, <3>1
    <3>3. s_SignalRingPosition' <= 0
      BY <2>1, <2>2
    <3>. QED  BY <3>1, <3>2, <3>3
  <2>3. CASE ~post /\ s_SignalRingEnable
    <3>1. s_SignalRingEnable' /\ s_sem_OnRingReset' = 0 /\ epc' = epc /\ epc \in {"kick", "ring_wait"}
      <4>1. epc \in {"kick", "ring_wait"} /\ s_sem_OnRingReset = 0
        BY <2>3
      <4>. QED  BY <2>0, <2>1, <2>3, <4>1
    <3>. QED  BY <3>1
  <2>4. CASE ~s_SignalRingEnable
    <3>1. /\ ~s_SignalRingEnable' /\ UNCHANGED <<epc, s_SignalRingPosition>>
          /\ s_sem_OnRingReset' = s_sem_OnRingReset + 0
      BY <2>0, <2>1, <2>4
    <3>2. s_sem_OnRingReset \in {0, 1}
      OBVIOUS
    <3>. QED  BY <2>4, <3>1, <3>2
  <2>. QED  BY <2>2, <2>3, <2>4
<1>5. CASE GenericStall
  BY <1>5 DEF GenericStall
<1>6. CASE StallWake
  BY <1>6 DEF StallWake
<1>7. CASE RingValve
  BY <1>7 DEF RingValve, Numbers, Flags
<1>8. CASE StallRecheck
  BY <1>8 DEF StallRecheck
<1>9. CASE WaitGS \/ WaitForOpen \/ WaitForClose \/ ShutdownThread
  BY <1>9 DEF WaitGS, WaitForOpen, WaitForClose, ShutdownThread
<1>10. CASE StallEnable \/ StallKick \/ WritePacket \/ Publish
  BY <1>10 DEF StallEnable, StallKick, WritePacket, Publish
<1>11. CASE Notify \/ WaitForEmpty \/ Synced \/ ResetGS
  BY <1>11 DEF Notify, WaitForEmpty, Synced, ResetGS
<1>12. CASE CountVsync \/ ListenVsync \/ WaitVsync \/ LifecycleNotify
  BY <1>12 DEF CountVsync, ListenVsync, WaitVsync, LifecycleNotify
<1>13. CASE LifecycleDone \/ Joined \/ ThreadEntryPoint \/ OpenGS
  BY <1>13 DEF LifecycleDone, Joined, ThreadEntryPoint, OpenGS
<1>14. CASE CheckOpen \/ ReadPacket \/ VsyncDone \/ AdvanceReadPos
  BY <1>14 DEF CheckOpen, ReadPacket, VsyncDone, AdvanceReadPos
<1>15. CASE VsyncValve \/ LeaveMainLoop \/ CloseGS
  BY <1>15 DEF VsyncValve, LeaveMainLoop, CloseGS
<1>16. CASE UNCHANGED vars
  BY <1>16 DEF vars
<1>. QED
  BY <1>1, <1>2, <1>3, <1>4, <1>5, <1>6, <1>7, <1>8, <1>9, <1>10, <1>11, <1>12, <1>13, <1>14, <1>15,
     <1>16
     DEF Next, EECall, EEStep, GSStep

(* The signal of a vsync.                                                  *)
LEMMA NextVsyncInv ==
    ASSUME Places, Flags, VsyncInv, [Next]_vars
    PROVE  VsyncInv'
<1>. USE DEF VsyncInv, ringbuf, signal, frames, event, lifecycle, ee, gsthread, SetEvent,
             NotifyOfWork, EGoto, GGoto
<1>1. ASSUME NEW c \in {"gs", "fifo", "vsync"}, BeginPacket(c)
     PROVE  VsyncInv'
  BY <1>1 DEF BeginPacket
<1>2. ASSUME WaitForWork("closed_wait", "closed")
     PROVE  VsyncInv'
  BY <1>2 DEF WaitForWork
<1>3. ASSUME WaitForWork("wait", "check")
     PROVE  VsyncInv'
  BY <1>3 DEF WaitForWork
<1>4. CASE VsyncDone
  BY <1>4 DEF VsyncDone
<1>5. CASE VsyncValve
  BY <1>5 DEF VsyncValve
<1>6. CASE ResetGS
  BY <1>6 DEF ResetGS
<1>7. CASE WaitGS \/ WaitForOpen \/ WaitForClose \/ ShutdownThread
  BY <1>7 DEF WaitGS, WaitForOpen, WaitForClose, ShutdownThread
<1>8. CASE GenericStall \/ StallEnable \/ StallKick \/ StallWake
  BY <1>8 DEF GenericStall, StallEnable, StallKick, StallWake
<1>9. CASE StallRecheck \/ WritePacket \/ Publish \/ Notify
  BY <1>9 DEF StallRecheck, WritePacket, Publish, Notify
<1>10. CASE WaitForEmpty \/ Synced \/ CountVsync \/ ListenVsync
  BY <1>10 DEF WaitForEmpty, Synced, CountVsync, ListenVsync
<1>11. CASE WaitVsync \/ LifecycleNotify \/ LifecycleDone \/ Joined
  BY <1>11 DEF WaitVsync, LifecycleNotify, LifecycleDone, Joined
<1>12. CASE ThreadEntryPoint \/ OpenGS \/ CheckOpen \/ ReadPacket
  BY <1>12 DEF ThreadEntryPoint, OpenGS, CheckOpen, ReadPacket
<1>13. CASE AdvanceReadPos \/ SignalRing \/ RingValve \/ LeaveMainLoop
  BY <1>13 DEF AdvanceReadPos, SignalRing, RingValve, LeaveMainLoop
<1>14. CASE CloseGS
  BY <1>14 DEF CloseGS
<1>15. CASE UNCHANGED vars
  BY <1>15 DEF vars
<1>. QED
  BY <1>1, <1>2, <1>3, <1>4, <1>5, <1>6, <1>7, <1>8, <1>9, <1>10, <1>11, <1>12, <1>13, <1>14, <1>15
     DEF Next, EECall, EEStep, GSStep

(* The tag at the head of the ring.                                        *)
LEMMA HeadTag ==
    ASSUME Positions, RingInv, s_ReadPos # s_WritePos
    PROVE  /\ ring[s_ReadPos] \in Tags /\ ring[s_ReadPos] # data
           /\ ring[s_ReadPos][1] \in Packets /\ ring[s_ReadPos][2] \in 0 .. VsyncLen
           /\ 1 + ring[s_ReadPos][2] <= Used
           /\ \A q \in Slots : 0 < Dist(q) /\ Dist(q) <= ring[s_ReadPos][2] => ring[q] = data
           /\ \A q \in Slots : Dist(q) = 1 + ring[s_ReadPos][2] /\ Dist(q) < Used => ring[q] # data
<1>1. ring[s_ReadPos] \in Tags /\ ring[s_ReadPos] # data
  BY DEF Positions, RingInv
<1>2. ring[s_ReadPos][1] \in Packets /\ ring[s_ReadPos][2] \in {0, VsyncLen}
  BY <1>1 DEF Tags
<1>3. ring[s_ReadPos][2] \in 0 .. VsyncLen
  BY <1>2, Constants
<1>4. s_ReadPos \in Slots /\ Dist(s_ReadPos) = 0 /\ Used \in Slots /\ Used # 0
  BY Distance DEF Positions
<1>5. Used > 0
  BY <1>4, Constants DEF Slots
<1>6. PacketAt(s_ReadPos)
  BY <1>1, <1>4, <1>5 DEF RingInv
<1>. DEFINE n == ring[s_ReadPos][2]
<1>7. n \in Int /\ 0 + 1 + n = 1 + n /\ 0 + n = n
  BY <1>3, Constants
<1>8. /\ 0 + 1 + n <= Used
      /\ \A q \in Slots : 0 < Dist(q) /\ Dist(q) <= 0 + n => ring[q] = data
      /\ \A q \in Slots : Dist(q) = 0 + 1 + n /\ Dist(q) < Used => ring[q] # data
  BY <1>4, <1>6 DEF PacketAt
<1>. HIDE DEF n
<1>9. /\ 1 + n <= Used
      /\ \A q \in Slots : 0 < Dist(q) /\ Dist(q) <= n => ring[q] = data
      /\ \A q \in Slots : Dist(q) = 1 + n /\ Dist(q) < Used => ring[q] # data
  BY <1>7, <1>8
<1>. QED  BY <1>1, <1>2, <1>3, <1>9 DEF n

LEMMA PacketSizes ==
    Len_(cmd) \in Nat /\ Len_(cmd) <= VsyncLen /\ Len_(cmd) \in {0, VsyncLen} /\ PacketSize = 1 + Len_(cmd)
BY Constants DEF Len_, PacketSize

(* WritePacket writes behind what is in use.                               *)
LEMMA WriteEffect ==
    ASSUME Positions, WriteInv, cmd \in Packets, WritePacket
    PROVE  /\ ring' \in [Slots -> {data} \cup Tags] /\ ring'[s_WritePos] = <<cmd, Len_(cmd)>>
           /\ \A p \in Slots : Dist(p) < Used => ring'[p] = ring[p]
           /\ \A p \in Slots : Used < Dist(p) /\ Dist(p) <= Used + Len_(cmd) => ring'[p] = data
<1>. DEFINE D(p) == (p - s_WritePos) % RingBufferSize
            n == Len_(cmd)
<1>1. /\ RingBufferSize \in Nat /\ RingBufferSize > 0 /\ n \in Nat
      /\ s_ReadPos \in Slots /\ s_WritePos \in Slots
  BY Constants, PacketSizes DEF Positions
<1>2. ring' = [p \in Slots |-> IF D(p) = 0 THEN <<cmd, n>> ELSE IF D(p) <= n THEN data ELSE ring[p]]
  BY DEF WritePacket
<1>3. Used + (1 + n) < RingBufferSize
  BY PacketSizes DEF WriteInv, WritePacket, EGoto
<1>4. ASSUME NEW p \in Slots
      PROVE  D(p) = (IF p >= s_WritePos THEN p - s_WritePos ELSE p - s_WritePos + RingBufferSize)
  <2>1. p - s_WritePos \in Int /\ -RingBufferSize <= p - s_WritePos /\ p - s_WritePos < RingBufferSize
    BY <1>1, <1>4 DEF Slots
  <2>2. CASE p >= s_WritePos
    <3>1. 0 <= p - s_WritePos
      BY <1>1, <1>4, <2>2 DEF Slots
    <3>. QED  BY <1>1, <2>1, <2>2, <3>1, Remainder
  <2>3. CASE ~(p >= s_WritePos)
    <3>1. p - s_WritePos < 0
      BY <1>1, <1>4, <2>3 DEF Slots
    <3>. QED  BY <1>1, <2>1, <2>3, <3>1, Remainder
  <2>. QED  BY <2>2, <2>3
<1>. HIDE DEF D, n
<1>5. ASSUME NEW p \in Slots, Dist(p) < Used
      PROVE  D(p) # 0 /\ ~(D(p) <= n)
  BY <1>1, <1>3, <1>4, <1>5 DEF Used, Dist, Slots
<1>6. ASSUME NEW p \in Slots, Used < Dist(p), Dist(p) <= Used + n
      PROVE  D(p) # 0 /\ D(p) <= n
  BY <1>1, <1>3, <1>4, <1>6 DEF Used, Dist, Slots
<1>7. D(s_WritePos) = 0
  BY <1>1, <1>4 DEF Slots
<1>8. <<cmd, n>> \in Tags
  BY PacketSizes DEF Tags, n
<1>9. ring' \in [Slots -> {data} \cup Tags]
  BY <1>2, <1>8 DEF Positions
<1>10. ring'[s_WritePos] = <<cmd, n>>
  BY <1>1, <1>2, <1>7
<1>11. \A p \in Slots : Dist(p) < Used => ring'[p] = ring[p]
  BY <1>2, <1>5
<1>12. \A p \in Slots : Used < Dist(p) /\ Dist(p) <= Used + n => ring'[p] = data
  BY <1>2, <1>6
<1>. QED  BY <1>9, <1>10, <1>11, <1>12 DEF n

(* Publish gives the packet to the GS thread.                              *)
LEMMA PublishEffect ==
    ASSUME Positions, WriteInv, Publish
    PROVE  /\ s_WritePos' \in Slots /\ UNCHANGED <<ring, s_ReadPos>>
           /\ Used' = Used + PacketSize /\ Used' < RingBufferSize
           /\ \A p : Dist(p)' = Dist(p)
<1>1. /\ RingBufferSize \in Nat /\ RingBufferSize > 0 /\ PacketSize \in Nat
      /\ s_ReadPos \in Slots /\ s_WritePos \in Slots
  BY Constants, PacketSizes DEF Positions
<1>2. Used + PacketSize < RingBufferSize
  BY DEF WriteInv, Publish
<1>3. s_WritePos' = (s_WritePos + PacketSize) % RingBufferSize /\ UNCHANGED <<ring, s_ReadPos>>
  BY DEF Publish
<1>4. /\ s_WritePos + PacketSize \in Int /\ 0 <= s_WritePos + PacketSize
      /\ s_WritePos + PacketSize < 2 * RingBufferSize
  BY <1>1, <1>2 DEF Used, Dist, Slots
<1>5. s_WritePos' = IF s_WritePos + PacketSize < RingBufferSize THEN s_WritePos + PacketSize
                    ELSE (s_WritePos + PacketSize) - RingBufferSize
  <2>1. PICK a \in Int : a = s_WritePos + PacketSize
    BY <1>4
  <2>2. a % RingBufferSize = IF a < RingBufferSize THEN a ELSE a - RingBufferSize
    BY <1>1, <1>4, <2>1, Wrapped
  <2>3. s_WritePos' = a % RingBufferSize
    BY <1>3, <2>1, Zenon
  <2>4. s_WritePos' = IF a < RingBufferSize THEN a ELSE a - RingBufferSize
    BY <2>2, <2>3, Zenon
  <2>. QED  BY <1>1, <2>1, <2>4
<1>6. s_WritePos' \in Slots
  BY <1>1, <1>4, <1>5 DEF Slots
<1>7. Used' = Used + PacketSize
  BY <1>1, <1>2, <1>3, <1>5 DEF Used, Dist, Slots
<1>. QED  BY <1>2, <1>3, <1>6, <1>7 DEF Dist

(* AdvanceReadPos moves to the next tag.                                   *)
LEMMA AdvanceEffect ==
    ASSUME Positions, AdvanceReadPos, inc \in Nat, inc > 0, inc <= Used
    PROVE  /\ s_ReadPos' \in Slots /\ UNCHANGED s_WritePos
           /\ ring' \in [Slots -> {data} \cup Tags]
           /\ \A p \in Slots : /\ ring'[p] = IF Dist(p) < inc THEN data ELSE ring[p]
                               /\ Dist(p)' = IF Dist(p) < inc THEN Dist(p) - inc + RingBufferSize ELSE Dist(p) - inc
           /\ Used' = Used - inc
<1>1. /\ RingBufferSize \in Nat /\ RingBufferSize > 0
      /\ s_ReadPos \in Slots /\ s_WritePos \in Slots /\ Used \in Slots
  BY Constants, Distance DEF Positions
<1>2. /\ s_ReadPos' = (s_ReadPos + inc) % RingBufferSize /\ UNCHANGED s_WritePos
      /\ ring' = [p \in Slots |-> IF (p - s_ReadPos) % RingBufferSize < inc THEN data ELSE ring[p]]
  BY DEF AdvanceReadPos
<1>3. s_ReadPos + inc \in Int /\ 0 <= s_ReadPos + inc /\ s_ReadPos + inc < 2 * RingBufferSize
  BY <1>1 DEF Slots
<1>4. s_ReadPos' = IF s_ReadPos + inc < RingBufferSize THEN s_ReadPos + inc
                   ELSE (s_ReadPos + inc) - RingBufferSize
  <2>1. PICK a \in Int : a = s_ReadPos + inc
    BY <1>3
  <2>2. a % RingBufferSize = IF a < RingBufferSize THEN a ELSE a - RingBufferSize
    BY <1>1, <1>3, <2>1, Wrapped
  <2>3. s_ReadPos' = a % RingBufferSize
    BY <1>2, <2>1, Zenon
  <2>4. s_ReadPos' = IF a < RingBufferSize THEN a ELSE a - RingBufferSize
    BY <2>2, <2>3, Zenon
  <2>. QED  BY <1>1, <2>1, <2>4
<1>5. s_ReadPos' \in Slots
  BY <1>1, <1>3, <1>4 DEF Slots
<1>6. \A p \in Slots : ring'[p] = IF Dist(p) < inc THEN data ELSE ring[p]
  BY <1>2, Distance
<1>7. ring' \in [Slots -> {data} \cup Tags]
  BY <1>2 DEF Positions
<1>8. ASSUME NEW p \in Slots
      PROVE  Dist(p)' = IF Dist(p) < inc THEN Dist(p) - inc + RingBufferSize ELSE Dist(p) - inc
  BY <1>1, <1>4, <1>8 DEF Dist, Slots
<1>9. Used' = Used - inc
  BY <1>1, <1>2, <1>4 DEF Used, Dist, Slots
<1>. QED  BY <1>2, <1>5, <1>6, <1>7, <1>8, <1>9

LEMMA EmptyEffect ==
    ASSUME Positions, s_ReadPos' = s_WritePos, UNCHANGED s_WritePos, ring' = [p \in Slots |-> data]
    PROVE  Positions' /\ RingInv' /\ Used' = 0
<1>1. Positions'
  BY DEF Positions
<1>2. Used' = 0
  BY Constants DEF Used, Dist, Positions, Slots
<1>. QED  BY <1>1, <1>2 DEF RingInv

(* The packet that is carried out is the one at the head.                  *)
LEMMA Current ==
    ASSUME Positions, RingInv, ReadInv, gpc \in {"vs_sub", "vs_signal", "advance"}
    PROVE  /\ inc = 1 + ring[s_ReadPos][2] /\ inc \in Nat /\ inc > 0 /\ inc <= Used
           /\ s_ReadPos # s_WritePos /\ ring[s_ReadPos] # data
           /\ \A q \in Slots : 0 < Dist(q) /\ Dist(q) < inc => ring[q] = data
           /\ \A q \in Slots : Dist(q) = inc /\ inc < Used => ring[q] # data
<1>1. s_ReadPos # s_WritePos /\ inc = 1 + ring[s_ReadPos][2]
  BY DEF ReadInv
<1>. DEFINE n == ring[s_ReadPos][2]
<1>2. /\ n \in 0 .. VsyncLen /\ 1 + n <= Used /\ ring[s_ReadPos] # data
      /\ \A q \in Slots : 0 < Dist(q) /\ Dist(q) <= n => ring[q] = data
      /\ \A q \in Slots : Dist(q) = 1 + n /\ Dist(q) < Used => ring[q] # data
  BY <1>1, HeadTag
<1>3. n \in Nat /\ inc = 1 + n
  BY <1>1, <1>2, Constants
<1>. HIDE DEF n
<1>4. inc \in Nat /\ inc > 0 /\ inc <= Used
  BY <1>2, <1>3
<1>5. \A q \in Slots : Dist(q) \in Int
  BY Distance DEF Slots
<1>6. \A q \in Slots : 0 < Dist(q) /\ Dist(q) < inc => ring[q] = data
  BY <1>2, <1>3, <1>5
<1>7. \A q \in Slots : Dist(q) = inc /\ inc < Used => ring[q] # data
  BY <1>2, <1>3
<1>. QED  BY <1>1, <1>2, <1>4, <1>6, <1>7

(* The positions and the ring.                                             *)
LEMMA NextPositions ==
    ASSUME Positions, Numbers, SemaInv, [Next]_vars
    PROVE  Positions'
<1>. USE DEF Positions, ringbuf, signal, frames, event, lifecycle, ee, gsthread, SetEvent,
             NotifyOfWork, EGoto, GGoto
<1>1. ASSUME NEW c \in {"gs", "fifo", "vsync"}, BeginPacket(c)
     PROVE  Positions'
  BY <1>1 DEF BeginPacket
<1>2. ASSUME WaitForWork("closed_wait", "closed")
     PROVE  Positions'
  BY <1>2 DEF WaitForWork
<1>3. ASSUME WaitForWork("wait", "check")
     PROVE  Positions'
  BY <1>3 DEF WaitForWork
<1>0. RingBufferSize \in Nat /\ RingBufferSize > 0 /\ \A a \in Int : a % RingBufferSize \in Slots
  BY Constants DEF Slots
<1>4. CASE WritePacket
  <2>1. cmd \in Packets
    BY <1>4 DEF WritePacket, SemaInv, Sending
  <2>2. <<cmd, Len_(cmd)>> \in Tags
    BY <2>1, PacketSizes DEF Tags
  <2>3. ring' \in [Slots -> {data} \cup Tags]
    BY <1>4, <2>2 DEF WritePacket
  <2>. QED  BY <1>4, <2>3 DEF WritePacket
<1>5. CASE Publish
  <2>1. s_WritePos + PacketSize \in Int
    BY PacketSizes DEF Slots
  <2>. QED  BY <1>0, <1>5, <2>1 DEF Publish
<1>6. CASE AdvanceReadPos
  <2>1. s_ReadPos + inc \in Int
    BY DEF Slots, Numbers
  <2>2. ring' \in [Slots -> {data} \cup Tags]
    BY <1>6 DEF AdvanceReadPos
  <2>. QED  BY <1>0, <1>6, <2>1, <2>2 DEF AdvanceReadPos
<1>7. CASE ResetGS
  BY <1>7, EmptyEffect DEF ResetGS
<1>8. CASE LeaveMainLoop
  BY <1>8, EmptyEffect DEF LeaveMainLoop
<1>9. CASE WaitGS \/ WaitForOpen \/ WaitForClose \/ ShutdownThread \/ GenericStall \/ StallEnable
  BY <1>9 DEF WaitGS, WaitForOpen, WaitForClose, ShutdownThread, GenericStall, StallEnable
<1>10. CASE StallKick \/ StallWake \/ StallRecheck \/ Notify \/ WaitForEmpty \/ Synced
  BY <1>10 DEF StallKick, StallWake, StallRecheck, Notify, WaitForEmpty, Synced
<1>11. CASE CountVsync \/ ListenVsync \/ WaitVsync \/ LifecycleNotify \/ LifecycleDone \/ Joined
  BY <1>11 DEF CountVsync, ListenVsync, WaitVsync, LifecycleNotify, LifecycleDone, Joined
<1>12. CASE ThreadEntryPoint \/ OpenGS \/ CheckOpen \/ ReadPacket \/ VsyncDone \/ SignalRing
  BY <1>12 DEF ThreadEntryPoint, OpenGS, CheckOpen, ReadPacket, VsyncDone, SignalRing
<1>13. CASE RingValve \/ VsyncValve \/ CloseGS
  BY <1>13 DEF RingValve, VsyncValve, CloseGS
<1>14. CASE UNCHANGED vars
  BY <1>14 DEF vars
<1>. QED
  BY <1>1, <1>2, <1>3, <1>4, <1>5, <1>6, <1>7, <1>8, <1>9, <1>10, <1>11, <1>12, <1>13, <1>14
     DEF Next, EECall, EEStep, GSStep

LEMMA NextNumbers ==
    ASSUME Positions, Numbers, [Next]_vars
    PROVE  Numbers'
<1>. USE DEF Numbers, ringbuf, signal, frames, event, lifecycle, ee, gsthread, SetEvent,
             NotifyOfWork, EGoto, GGoto
<1>1. ASSUME NEW c \in {"gs", "fifo", "vsync"}, BeginPacket(c)
     PROVE  Numbers'
  BY <1>1, Constants DEF BeginPacket
<1>2. ASSUME WaitForWork("closed_wait", "closed")
     PROVE  Numbers'
  BY <1>2, Constants DEF WaitForWork
<1>3. ASSUME WaitForWork("wait", "check")
     PROVE  Numbers'
  BY <1>3, Constants DEF WaitForWork
<1>4. CASE ReadPacket
  <2>1. CASE s_ReadPos = s_WritePos
    BY <1>4, <2>1 DEF ReadPacket
  <2>2. CASE s_ReadPos # s_WritePos
    <3>1. ring[s_ReadPos][2] \in 0 .. VsyncLen
      <4>1. ring[s_ReadPos] \in {data} \cup Tags
        BY DEF Positions
      <4>. QED  BY <4>1, Constants DEF Tags, data
    <3>2. 1 + ring[s_ReadPos][2] \in 0 .. VsyncLen + 1
      BY <3>1, Constants
    <3>. QED  BY <1>4, <2>2, <3>2 DEF ReadPacket
  <2>. QED  BY <2>1, <2>2
<1>5. CASE GenericStall
  <2>1. FreeRoom \in Int /\ PacketSize \in Int
    BY Distance, PacketSizes, Constants DEF Slots
  <2>2. (RingBufferSize - FreeRoom) \div 4 \in Int
    BY <2>1, Constants
  <2>3. SomeDone \in Int
    BY <2>1, <2>2 DEF SomeDone
  <2>. QED  BY <1>5, <2>3 DEF GenericStall
<1>6. CASE SignalRing
  <2>1. inc \in Int /\ s_SignalRingPosition - inc \in Int
    BY Constants
  <2>. QED  BY <1>6, <2>1, Constants DEF SignalRing
<1>7. CASE RingValve
  BY <1>7, Constants DEF RingValve
<1>8. CASE WaitGS \/ WaitForOpen \/ WaitForClose \/ ShutdownThread \/ StallEnable \/ StallKick
  BY <1>8, Constants DEF WaitGS, WaitForOpen, WaitForClose, ShutdownThread, StallEnable, StallKick
<1>9. CASE StallWake \/ StallRecheck \/ WritePacket \/ Publish \/ Notify \/ WaitForEmpty
  BY <1>9, Constants DEF StallWake, StallRecheck, WritePacket, Publish, Notify, WaitForEmpty
<1>10. CASE Synced \/ ResetGS \/ CountVsync \/ ListenVsync \/ WaitVsync \/ LifecycleNotify
  BY <1>10, Constants DEF Synced, ResetGS, CountVsync, ListenVsync, WaitVsync, LifecycleNotify
<1>11. CASE LifecycleDone \/ Joined \/ ThreadEntryPoint \/ OpenGS \/ CheckOpen \/ VsyncDone
  BY <1>11, Constants DEF LifecycleDone, Joined, ThreadEntryPoint, OpenGS, CheckOpen, VsyncDone
<1>12. CASE AdvanceReadPos \/ VsyncValve \/ LeaveMainLoop \/ CloseGS
  BY <1>12, Constants DEF AdvanceReadPos, VsyncValve, LeaveMainLoop, CloseGS
<1>13. CASE UNCHANGED vars
  BY <1>13, Constants DEF vars
<1>. QED
  BY <1>1, <1>2, <1>3, <1>4, <1>5, <1>6, <1>7, <1>8, <1>9, <1>10, <1>11, <1>12, <1>13
     DEF Next, EECall, EEStep, GSStep

(* The ring is empty outside a session.                                    *)
LEMMA NextEmptyInv ==
    ASSUME Places, Positions, LifeInv, SemaInv, EmptyInv, [Next]_vars
    PROVE  EmptyInv'
<1>. USE DEF EmptyInv, ringbuf, signal, frames, event, lifecycle, ee, gsthread, SetEvent,
             NotifyOfWork, EGoto, GGoto
<1>1. ASSUME NEW c \in {"gs", "fifo", "vsync"}, BeginPacket(c)
     PROVE  EmptyInv'
  BY <1>1 DEF BeginPacket
<1>2. ASSUME WaitForWork("closed_wait", "closed")
     PROVE  EmptyInv'
  BY <1>2 DEF WaitForWork, Inside, Quiet
<1>3. ASSUME WaitForWork("wait", "check")
     PROVE  EmptyInv'
  BY <1>3 DEF WaitForWork, Inside, Quiet
<1>4. CASE Publish
  <2>1. epc = "publish" /\ epc' \in {"idle", "notify"} /\ gpc' = gpc /\ gpc \in Inside
    BY <1>4 DEF Publish, LifeInv, Session
  <2>. QED  BY <2>1
<1>5. CASE ReadPacket
  BY <1>5 DEF ReadPacket, Inside, Quiet
<1>6. CASE AdvanceReadPos
  <2>1. epc' = epc /\ gpc = "advance" /\ gpc' \in {"signal", "lost"}
    BY <1>6 DEF AdvanceReadPos
  <2>2. epc \notin {"closed", "open_notify", "open_wait", "exit_notify", "join"}
    BY <2>1 DEF LifeInv, Outside, Quiet
  <2>. QED  BY <2>1, <2>2 DEF Inside
<1>7. CASE ResetGS
  BY <1>7 DEF ResetGS
<1>8. CASE LeaveMainLoop
  BY <1>8 DEF LeaveMainLoop
<1>9. CASE Notify
  BY <1>9 DEF Notify, Places, Packets, Commands
<1>10. CASE Synced
  BY <1>10 DEF Synced, SemaInv, LifeInv, Session, Inside, Quiet
<1>11. CASE LifecycleDone
  BY <1>11 DEF LifecycleDone, LifeInv, Outside, Inside, Quiet
<1>12. CASE CheckOpen
  BY <1>12 DEF CheckOpen, Inside, Quiet
<1>13. CASE CloseGS \/ ThreadEntryPoint
  BY <1>13 DEF CloseGS, ThreadEntryPoint, Inside, Quiet
<1>14. CASE OpenGS
  BY <1>14 DEF OpenGS, Inside, Quiet
<1>15. CASE WaitGS \/ WaitForOpen \/ WaitForClose \/ ShutdownThread
  BY <1>15 DEF WaitGS, WaitForOpen, WaitForClose, ShutdownThread, Inside, Quiet
<1>16. CASE GenericStall \/ StallEnable \/ StallKick \/ StallWake
  BY <1>16 DEF GenericStall, StallEnable, StallKick, StallWake
<1>17. CASE StallRecheck \/ WritePacket \/ WaitForEmpty \/ CountVsync
  BY <1>17 DEF StallRecheck, WritePacket, WaitForEmpty, CountVsync
<1>18. CASE ListenVsync \/ WaitVsync \/ LifecycleNotify \/ Joined
  BY <1>18 DEF ListenVsync, WaitVsync, LifecycleNotify, Joined
<1>19. CASE VsyncDone \/ SignalRing \/ RingValve \/ VsyncValve
  BY <1>19 DEF VsyncDone, SignalRing, RingValve, VsyncValve, Inside, Quiet
<1>20. CASE UNCHANGED vars
  BY <1>20 DEF vars
<1>. QED
  BY <1>1, <1>2, <1>3, <1>4, <1>5, <1>6, <1>7, <1>8, <1>9, <1>10, <1>11, <1>12, <1>13, <1>14, <1>15,
     <1>16, <1>17, <1>18, <1>19, <1>20
     DEF Next, EECall, EEStep, GSStep

(* A packet is added behind the others; the first is taken away.           *)
LEMMA PublishRing ==
    ASSUME Positions, WriteInv, RingInv, cmd \in Packets, Publish
    PROVE  RingInv'
<1>. DEFINE n == Len_(cmd)
<1>1. /\ UNCHANGED <<ring, s_ReadPos>> /\ Used' = Used + (1 + n) /\ \A p : Dist(p)' = Dist(p)
      /\ s_WritePos' \in Slots
  BY PublishEffect, PacketSizes
<1>2. /\ ring[s_WritePos] = <<cmd, n>>
      /\ \A q \in Slots : Used < Dist(q) /\ Dist(q) <= Used + n => ring[q] = data
  BY DEF WriteInv, Publish
<1>3. n \in Nat /\ Used \in Nat /\ \A p \in Slots : Dist(p) \in Nat
  BY PacketSizes, Distance, Constants DEF Slots
<1>4. s_WritePos \in Slots /\ Dist(s_WritePos) = Used /\ s_ReadPos \in Slots /\ Dist(s_ReadPos) = 0
  BY Distance DEF Used, Positions
<1>5. ring[s_WritePos] # data /\ ring[s_WritePos][2] = n
  BY <1>2 DEF data, Packets, Commands
<1>. HIDE DEF n
<1>6. ASSUME NEW p \in Slots, Dist(p) < Used', ring[p] # data PROVE PacketAt(p)'
  <2>1. CASE Dist(p) < Used
    <3>. DEFINE m == ring[p][2]
    <3>1. /\ Dist(p) + 1 + m <= Used
          /\ \A q \in Slots : Dist(p) < Dist(q) /\ Dist(q) <= Dist(p) + m => ring[q] = data
          /\ \A q \in Slots : Dist(q) = Dist(p) + 1 + m /\ Dist(q) < Used => ring[q] # data
      BY <1>6, <2>1 DEF RingInv, PacketAt
    <3>2. m \in Nat
      <4>1. ring[p] \in Tags
        BY <1>6 DEF Positions
      <4>. QED  BY <4>1, Constants DEF Tags
    <3>. HIDE DEF m
    <3>3. Dist(p) + 1 + m <= Used'
      BY <1>1, <1>3, <3>1, <3>2
    <3>4. ASSUME NEW q \in Slots, Dist(q) = Dist(p) + 1 + m, Dist(q) < Used' PROVE ring[q] # data
      <4>1. CASE Dist(q) < Used
        BY <3>1, <3>4, <4>1
      <4>2. CASE ~(Dist(q) < Used)
        <5>1. Dist(q) = Used
          BY <1>3, <3>1, <3>4, <4>2
        <5>2. q = s_WritePos
          BY <1>4, <5>1, Distance
        <5>. QED  BY <1>5, <5>2
      <4>. QED  BY <4>1, <4>2
    <3>. QED  BY <1>1, <3>1, <3>3, <3>4 DEF PacketAt, m
  <2>2. CASE ~(Dist(p) < Used)
    <3>1. p = s_WritePos
      <4>1. ~(Used < Dist(p) /\ Dist(p) <= Used + n)
        BY <1>2, <1>6
      <4>2. Dist(p) = Used
        BY <1>1, <1>3, <1>6, <2>2, <4>1
      <4>. QED  BY <1>4, <4>2, Distance
    <3>2. Dist(p) + 1 + n <= Used' /\ ~(\E q \in Slots : Dist(q) = Dist(p) + 1 + n /\ Dist(q) < Used')
      BY <1>1, <1>3, <1>4, <3>1
    <3>. QED  BY <1>1, <1>2, <1>4, <1>5, <3>1, <3>2 DEF PacketAt
  <2>. QED  BY <2>1, <2>2
<1>7. ring[s_ReadPos] # data
  <2>1. CASE s_ReadPos = s_WritePos
    BY <1>5, <2>1
  <2>2. CASE s_ReadPos # s_WritePos
    BY <2>2 DEF RingInv
  <2>. QED  BY <2>1, <2>2
<1>. QED  BY <1>1, <1>6, <1>7 DEF RingInv

LEMMA AdvanceRing ==
    ASSUME Positions, RingInv, ReadInv, AdvanceReadPos
    PROVE  RingInv'
<1>1. /\ inc \in Nat /\ inc > 0 /\ inc <= Used
      /\ \A q \in Slots : Dist(q) = inc /\ inc < Used => ring[q] # data
  BY Current DEF AdvanceReadPos, GGoto
<1>2. /\ s_ReadPos' \in Slots /\ UNCHANGED s_WritePos /\ Used' = Used - inc
      /\ \A p \in Slots : /\ ring'[p] = IF Dist(p) < inc THEN data ELSE ring[p]
                          /\ Dist(p)' = IF Dist(p) < inc THEN Dist(p) - inc + RingBufferSize ELSE Dist(p) - inc
  BY <1>1, AdvanceEffect
<1>3. /\ Used \in Nat /\ Used < RingBufferSize /\ RingBufferSize \in Nat
      /\ \A p \in Slots : Dist(p) \in Nat /\ Dist(p) < RingBufferSize
  BY Distance, Constants DEF Slots
<1>4. ASSUME NEW p \in Slots, Dist(p)' < Used', ring'[p] # data PROVE PacketAt(p)'
  <2>. DEFINE m == ring[p][2]
  <2>1. ~(Dist(p) < inc) /\ ring'[p] = ring[p] /\ Dist(p)' = Dist(p) - inc /\ ring[p] # data
    BY <1>2, <1>4
  <2>2. Dist(p) < Used
    BY <1>1, <1>2, <1>3, <1>4, <2>1
  <2>3. /\ Dist(p) + 1 + m <= Used
        /\ \A q \in Slots : Dist(p) < Dist(q) /\ Dist(q) <= Dist(p) + m => ring[q] = data
        /\ \A q \in Slots : Dist(q) = Dist(p) + 1 + m /\ Dist(q) < Used => ring[q] # data
    BY <1>4, <2>1, <2>2 DEF RingInv, PacketAt
  <2>4. m \in Nat
    <3>1. ring[p] \in Tags
      BY <1>4, <2>1 DEF Positions
    <3>. QED  BY <3>1, Constants DEF Tags
  <2>. HIDE DEF m
  <2>5. Dist(p)' + 1 + m <= Used'
    BY <1>1, <1>2, <1>3, <2>1, <2>3, <2>4
  <2>6. ASSUME NEW q \in Slots, Dist(p)' < Dist(q)', Dist(q)' <= Dist(p)' + m PROVE ring'[q] = data
    <3>1. CASE Dist(q) < inc
      BY <1>2, <3>1
    <3>2. CASE ~(Dist(q) < inc)
      <4>1. Dist(q)' = Dist(q) - inc /\ ring'[q] = ring[q]
        BY <1>2, <3>2
      <4>2. Dist(p) < Dist(q) /\ Dist(q) <= Dist(p) + m
        BY <1>1, <1>3, <2>1, <2>4, <2>6, <4>1
      <4>. QED  BY <2>3, <4>1, <4>2
    <3>. QED  BY <3>1, <3>2
  <2>7. ASSUME NEW q \in Slots, Dist(q)' = Dist(p)' + 1 + m, Dist(q)' < Used' PROVE ring'[q] # data
    <3>1. ~(Dist(q) < inc)
      BY <1>1, <1>2, <1>3, <2>7
    <3>2. Dist(q)' = Dist(q) - inc /\ ring'[q] = ring[q]
      BY <1>2, <3>1
    <3>3. Dist(q) = Dist(p) + 1 + m /\ Dist(q) < Used
      BY <1>1, <1>2, <1>3, <2>1, <2>4, <2>7, <3>2
    <3>. QED  BY <2>3, <3>2, <3>3
  <2>. QED  BY <2>1, <2>5, <2>6, <2>7 DEF PacketAt, m
<1>5. ASSUME s_ReadPos' # s_WritePos' PROVE ring'[s_ReadPos'] # data
  <2>. DEFINE r == s_ReadPos'
  <2>1. Dist(r) = inc
    <3>1. PICK q \in Slots : q = s_ReadPos'
      BY <1>2
    <3>2. Dist(q)' = 0
      <4>1. q \in Int /\ q >= q /\ q - q = 0
        BY Constants DEF Slots
      <4>2. Dist(q)' = IF q >= q THEN q - q ELSE q - q + RingBufferSize
        BY <3>1 DEF Dist
      <4>. QED  BY <4>1, <4>2
    <3>3. ~(Dist(q) < inc) /\ Dist(q) - inc = 0
      BY <1>1, <1>2, <1>3, <3>2
    <3>4. Dist(q) = inc
      BY <1>1, <1>3, <3>3
    <3>. QED  BY <3>1, <3>4
  <2>2. inc < Used
    <3>1. Positions'
      BY <1>2, AdvanceEffect, <1>1 DEF Positions
    <3>2. Used' # 0
      <4>1. Used' = (IF s_WritePos' >= s_ReadPos' THEN s_WritePos' - s_ReadPos'
                     ELSE s_WritePos' - s_ReadPos' + RingBufferSize)
        BY DEF Used, Dist
      <4>2. PICK w \in Slots, r0 \in Slots : w = s_WritePos' /\ r0 = s_ReadPos'
        BY <3>1 DEF Positions
      <4>3. w \in Nat /\ r0 \in Nat /\ w < RingBufferSize /\ r0 < RingBufferSize /\ w # r0 /\ RingBufferSize \in Nat
        BY <1>5, <4>2, Constants DEF Slots
      <4>4. Used' = IF w >= r0 THEN w - r0 ELSE w - r0 + RingBufferSize
        BY <4>1, <4>2
      <4>. QED  BY <4>3, <4>4
    <3>. QED  BY <1>1, <1>2, <1>3, <3>2
  <2>3. ring[r] # data /\ ~(Dist(r) < inc)
    BY <1>1, <1>2, <2>1, <2>2
  <2>. QED  BY <1>2, <2>3
<1>. QED  BY <1>4, <1>5 DEF RingInv

LEMMA WriteRing ==
    ASSUME Positions, WriteInv, RingInv, cmd \in Packets, WritePacket
    PROVE  RingInv'
<1>1. /\ UNCHANGED <<s_ReadPos, s_WritePos>>
      /\ \A p \in Slots : Dist(p) < Used => ring'[p] = ring[p]
  BY WriteEffect DEF WritePacket
<1>2. Used' = Used /\ \A p : Dist(p)' = Dist(p)
  BY <1>1 DEF Used, Dist
<1>3. Used \in Nat /\ \A p \in Slots : Dist(p) \in Nat
  BY Distance, Constants DEF Slots
<1>4. ASSUME NEW p \in Slots, Dist(p) < Used, ring'[p] # data PROVE PacketAt(p)'
  <2>. DEFINE m == ring[p][2]
  <2>1. ring'[p] = ring[p]
    BY <1>1, <1>4
  <2>2. /\ Dist(p) + 1 + m <= Used
        /\ \A q \in Slots : Dist(p) < Dist(q) /\ Dist(q) <= Dist(p) + m => ring[q] = data
        /\ \A q \in Slots : Dist(q) = Dist(p) + 1 + m /\ Dist(q) < Used => ring[q] # data
    BY <1>4, <2>1 DEF RingInv, PacketAt
  <2>3. m \in Nat
    <3>1. ring[p] \in Tags
      BY <1>4, <2>1 DEF Positions
    <3>. QED  BY <3>1, Constants DEF Tags
  <2>. HIDE DEF m
  <2>4. ASSUME NEW q \in Slots, Dist(p) < Dist(q), Dist(q) <= Dist(p) + m PROVE ring'[q] = data
    <3>1. Dist(q) < Used
      BY <1>3, <2>2, <2>3, <2>4
    <3>. QED  BY <1>1, <2>2, <2>4, <3>1
  <2>5. ASSUME NEW q \in Slots, Dist(q) = Dist(p) + 1 + m, Dist(q) < Used PROVE ring'[q] # data
    BY <1>1, <2>2, <2>5
  <2>. QED  BY <1>2, <2>1, <2>2, <2>4, <2>5 DEF PacketAt, m
<1>5. ASSUME s_ReadPos # s_WritePos PROVE ring'[s_ReadPos] # data
  <2>1. s_ReadPos \in Slots /\ Dist(s_ReadPos) = 0 /\ Used # 0
    BY <1>5, Distance DEF Positions
  <2>2. Dist(s_ReadPos) < Used
    BY <1>3, <2>1
  <2>. QED  BY <1>1, <1>5, <2>1, <2>2 DEF RingInv
<1>. QED  BY <1>1, <1>2, <1>4, <1>5 DEF RingInv

LEMMA SameRing ==
    ASSUME UNCHANGED <<ring, s_ReadPos, s_WritePos>>
    PROVE  /\ Used' = Used /\ (\A p : Dist(p)' = Dist(p)) /\ Pending' = Pending
           /\ RingInv => RingInv'
<1>1. Used' = Used /\ (\A p : Dist(p)' = Dist(p)) /\ Pending' = Pending
  BY DEF Used, Dist, Pending
<1>2. \A p : PacketAt(p)' <=> PacketAt(p)
  BY <1>1 DEF PacketAt
<1>. QED  BY <1>1, <1>2 DEF RingInv

LEMMA SameWrite ==
    ASSUME UNCHANGED <<ring, s_ReadPos, s_WritePos, epc, cmd>>, WriteInv
    PROVE  WriteInv'
<1>1. Used' = Used /\ (\A p : Dist(p)' = Dist(p)) /\ PacketSize' = PacketSize /\ Len_(cmd)' = Len_(cmd)
  BY SameRing DEF PacketSize, Len_
<1>. QED  BY <1>1 DEF WriteInv

(* The ring stays a sequence of packets.                                   *)
LEMMA NextRingInv ==
    ASSUME Positions, SemaInv, ReadInv, WriteInv, RingInv, [Next]_vars
    PROVE  RingInv'
<1>. USE DEF ringbuf, signal, frames, event, lifecycle, ee, gsthread, SetEvent, NotifyOfWork, EGoto,
             GGoto
<1>1. ASSUME NEW c \in {"gs", "fifo", "vsync"}, BeginPacket(c)
     PROVE  RingInv'
  BY <1>1, SameRing DEF BeginPacket
<1>2. ASSUME WaitForWork("closed_wait", "closed")
     PROVE  RingInv'
  BY <1>2, SameRing DEF WaitForWork
<1>3. ASSUME WaitForWork("wait", "check")
     PROVE  RingInv'
  BY <1>3, SameRing DEF WaitForWork
<1>4. CASE WritePacket
  <2>1. cmd \in Packets
    BY <1>4 DEF WritePacket, SemaInv, Sending
  <2>. QED  BY <1>4, <2>1, WriteRing
<1>5. CASE Publish
  <2>1. cmd \in Packets
    BY <1>5 DEF Publish, SemaInv, Sending
  <2>. QED  BY <1>5, <2>1, PublishRing
<1>6. CASE AdvanceReadPos
  BY <1>6, AdvanceRing
<1>7. CASE ResetGS
  BY <1>7, EmptyEffect DEF ResetGS
<1>8. CASE LeaveMainLoop
  BY <1>8, EmptyEffect DEF LeaveMainLoop
<1>9. CASE WaitGS \/ WaitForOpen \/ WaitForClose \/ ShutdownThread \/ GenericStall \/ StallEnable
  BY <1>9, SameRing DEF WaitGS, WaitForOpen, WaitForClose, ShutdownThread, GenericStall, StallEnable
<1>10. CASE StallKick \/ StallWake \/ StallRecheck \/ Notify \/ WaitForEmpty \/ Synced
  BY <1>10, SameRing DEF StallKick, StallWake, StallRecheck, Notify, WaitForEmpty, Synced
<1>11. CASE CountVsync \/ ListenVsync \/ WaitVsync \/ LifecycleNotify \/ LifecycleDone \/ Joined
  BY <1>11, SameRing DEF CountVsync, ListenVsync, WaitVsync, LifecycleNotify, LifecycleDone, Joined
<1>12. CASE ThreadEntryPoint \/ OpenGS \/ CheckOpen \/ ReadPacket \/ VsyncDone \/ SignalRing
  BY <1>12, SameRing DEF ThreadEntryPoint, OpenGS, CheckOpen, ReadPacket, VsyncDone, SignalRing
<1>13. CASE RingValve \/ VsyncValve \/ CloseGS
  BY <1>13, SameRing DEF RingValve, VsyncValve, CloseGS
<1>14. CASE UNCHANGED vars
  BY <1>14, SameRing DEF vars
<1>. QED
  BY <1>1, <1>2, <1>3, <1>4, <1>5, <1>6, <1>7, <1>8, <1>9, <1>10, <1>11, <1>12, <1>13, <1>14
     DEF Next, EECall, EEStep, GSStep

(* The packet that is written, and the one that is carried out.            *)
LEMMA NextWriteInv ==
    ASSUME Positions, Places, LifeInv, SemaInv, RingInv, ReadInv, WriteInv, [Next]_vars
    PROVE  WriteInv'
<1>. USE DEF ringbuf, signal, frames, event, lifecycle, ee, gsthread, SetEvent, NotifyOfWork, EGoto,
             GGoto
<1>1. ASSUME NEW c \in {"gs", "fifo", "vsync"}, BeginPacket(c)
     PROVE  WriteInv'
  BY <1>1 DEF BeginPacket, WriteInv
<1>2. ASSUME WaitForWork("closed_wait", "closed")
     PROVE  WriteInv'
  BY <1>2, SameWrite DEF WaitForWork
<1>3. ASSUME WaitForWork("wait", "check")
     PROVE  WriteInv'
  BY <1>3, SameWrite DEF WaitForWork
<1>4. CASE WritePacket
  <2>1. cmd \in Packets
    BY <1>4 DEF WritePacket, SemaInv, Sending
  <2>2. Used' = Used /\ (\A p : Dist(p)' = Dist(p)) /\ UNCHANGED <<s_WritePos, cmd>> /\ epc = "write"
    BY <1>4 DEF WritePacket, Used, Dist
  <2>3. PacketSize' = PacketSize /\ Len_(cmd)' = Len_(cmd)
    BY <2>2 DEF PacketSize, Len_
  <2>4. Used + PacketSize < RingBufferSize
    BY <2>2 DEF WriteInv
  <2>5. /\ ring'[s_WritePos] = <<cmd, Len_(cmd)>>
        /\ \A q \in Slots : Used < Dist(q) /\ Dist(q) <= Used + Len_(cmd) => ring'[q] = data
    BY <1>4, <2>1, WriteEffect
  <2>. QED  BY <2>2, <2>3, <2>4, <2>5 DEF WriteInv
<1>5. CASE Publish
  BY <1>5 DEF Publish, WriteInv
<1>6. CASE AdvanceReadPos
  <2>1. inc \in Nat /\ inc > 0 /\ inc <= Used
    BY <1>6, Current DEF AdvanceReadPos
  <2>2. /\ s_ReadPos' \in Slots /\ UNCHANGED <<s_WritePos, cmd, epc>> /\ Used' = Used - inc
        /\ \A p \in Slots : /\ ring'[p] = IF Dist(p) < inc THEN data ELSE ring[p]
                            /\ Dist(p)' = IF Dist(p) < inc THEN Dist(p) - inc + RingBufferSize ELSE Dist(p) - inc
    BY <1>6, <2>1, AdvanceEffect DEF AdvanceReadPos
  <2>3. PacketSize' = PacketSize /\ Len_(cmd)' = Len_(cmd) /\ PacketSize \in Nat /\ Len_(cmd) \in Nat
        /\ PacketSize = 1 + Len_(cmd)
    BY <2>2, PacketSizes DEF PacketSize, Len_
  <2>4. /\ Used \in Nat /\ RingBufferSize \in Nat
        /\ \A p \in Slots : Dist(p) \in Nat
    BY Distance, Constants DEF Slots
  <2>5. ASSUME epc \in {"write", "publish"} PROVE Used' + PacketSize < RingBufferSize
    BY <2>1, <2>2, <2>3, <2>4, <2>5 DEF WriteInv
  <2>6. ASSUME epc = "publish" PROVE ring'[s_WritePos] = ring[s_WritePos]
    <3>1. s_WritePos \in Slots /\ Dist(s_WritePos) = Used
      BY DEF Positions, Used
    <3>. QED  BY <2>1, <2>2, <2>4, <3>1
  <2>7. ASSUME epc = "publish", NEW q \in Slots, Used' < Dist(q)', Dist(q)' <= Used' + Len_(cmd)
        PROVE  ring'[q] = data
    <3>1. CASE Dist(q) < inc
      BY <2>2, <3>1
    <3>2. CASE ~(Dist(q) < inc)
      <4>1. Used < Dist(q) /\ Dist(q) <= Used + Len_(cmd)
        BY <2>1, <2>2, <2>3, <2>4, <2>7, <3>2
      <4>. QED  BY <2>2, <2>7, <3>2, <4>1 DEF WriteInv
    <3>. QED  BY <3>1, <3>2
  <2>. QED  BY <2>2, <2>3, <2>5, <2>6, <2>7 DEF WriteInv
<1>7. CASE ResetGS
  BY <1>7 DEF ResetGS, WriteInv
<1>8. CASE LeaveMainLoop
  BY <1>8 DEF LeaveMainLoop, WriteInv, LifeInv, Session, Inside, Quiet
<1>9. CASE GenericStall
  <2>1. FreeRoom = RingBufferSize - Used /\ Used \in Int /\ PacketSize \in Int /\ RingBufferSize \in Int
    BY Distance, PacketSizes, Constants DEF Slots
  <2>2. Used' = Used /\ PacketSize' = PacketSize
    BY <1>9, SameRing DEF GenericStall, PacketSize, Len_
  <2>3. epc' = "write" => FreeRoom > PacketSize
    BY <1>9 DEF GenericStall
  <2>4. epc' = "write" => Used + PacketSize < RingBufferSize
    BY <2>1, <2>3
  <2>. QED  BY <1>9, <2>2, <2>4 DEF GenericStall, WriteInv
<1>10. CASE StallRecheck
  <2>1. FreeRoom = RingBufferSize - Used /\ Used \in Int /\ PacketSize \in Int /\ RingBufferSize \in Int
    BY Distance, PacketSizes, Constants DEF Slots
  <2>2. Used' = Used /\ PacketSize' = PacketSize
    BY <1>10, SameRing DEF StallRecheck, PacketSize, Len_
  <2>3. epc' = "write" => FreeRoom > PacketSize
    BY <1>10 DEF StallRecheck
  <2>4. epc' = "write" => Used + PacketSize < RingBufferSize
    BY <2>1, <2>3
  <2>. QED  BY <1>10, <2>2, <2>4 DEF StallRecheck, WriteInv
<1>11. CASE WaitGS \/ WaitForOpen \/ WaitForClose \/ ShutdownThread
  BY <1>11 DEF WriteInv, WaitGS, WaitForOpen, WaitForClose, ShutdownThread
<1>12. CASE StallEnable \/ StallKick \/ StallWake \/ Notify
  BY <1>12 DEF WriteInv, StallEnable, StallKick, StallWake, Notify
<1>13. CASE WaitForEmpty \/ Synced \/ CountVsync \/ ListenVsync \/ WaitVsync
  BY <1>13 DEF WriteInv, WaitForEmpty, Synced, CountVsync, ListenVsync, WaitVsync
<1>14. CASE LifecycleNotify \/ LifecycleDone \/ Joined
  BY <1>14 DEF WriteInv, LifecycleNotify, LifecycleDone, Joined
<1>15. CASE ThreadEntryPoint \/ OpenGS \/ CheckOpen \/ ReadPacket \/ VsyncDone \/ SignalRing
  BY <1>15, SameWrite DEF ThreadEntryPoint, OpenGS, CheckOpen, ReadPacket, VsyncDone, SignalRing
<1>16. CASE RingValve \/ VsyncValve \/ CloseGS
  BY <1>16, SameWrite DEF RingValve, VsyncValve, CloseGS
<1>17. CASE UNCHANGED vars
  BY <1>17, SameWrite DEF vars
<1>. QED
  BY <1>1, <1>2, <1>3, <1>4, <1>5, <1>6, <1>7, <1>8, <1>9, <1>10, <1>11, <1>12, <1>13, <1>14, <1>15,
     <1>16, <1>17
     DEF Next, EECall, EEStep, GSStep

(* The packet that is carried out stays at the head.                       *)
LEMMA NextReadInv ==
    ASSUME Positions, Places, LifeInv, SemaInv, RingInv, WriteInv, ReadInv, ~torn', [Next]_vars
    PROVE  ReadInv'
<1>. USE DEF ringbuf, signal, frames, event, lifecycle, ee, gsthread, SetEvent, NotifyOfWork, EGoto,
             GGoto
<1>1. ASSUME NEW c \in {"gs", "fifo", "vsync"}, BeginPacket(c)
     PROVE  ReadInv'
  BY <1>1 DEF ReadInv, BeginPacket
<1>2. ASSUME WaitForWork("closed_wait", "closed")
     PROVE  ReadInv'
  BY <1>2 DEF ReadInv, WaitForWork
<1>3. ASSUME WaitForWork("wait", "check")
     PROVE  ReadInv'
  BY <1>3 DEF ReadInv, WaitForWork
<1>4. CASE WritePacket
  <2>1. cmd \in Packets
    BY <1>4 DEF WritePacket, SemaInv, Sending
  <2>2. UNCHANGED <<s_ReadPos, s_WritePos, gpc, inc>>
    BY <1>4 DEF WritePacket
  <2>3. s_ReadPos # s_WritePos => ring'[s_ReadPos] = ring[s_ReadPos]
    <3>1. SUFFICES ASSUME s_ReadPos # s_WritePos PROVE ring'[s_ReadPos] = ring[s_ReadPos]
      OBVIOUS
    <3>2. s_ReadPos \in Slots /\ Dist(s_ReadPos) = 0 /\ Used \in Slots /\ Used # 0
      BY <3>1, Distance DEF Positions
    <3>3. Dist(s_ReadPos) < Used
      BY <3>2, Constants DEF Slots
    <3>. QED  BY <1>4, <2>1, <3>2, <3>3, WriteEffect
  <2>. QED  BY <2>2, <2>3 DEF ReadInv
<1>5. CASE Publish
  <2>1. UNCHANGED <<ring, s_ReadPos, gpc, inc>> /\ Used' = Used + PacketSize /\ s_WritePos' \in Slots
    BY <1>5, PublishEffect DEF Publish
  <2>2. Used \in Nat /\ PacketSize \in Nat /\ PacketSize > 0 /\ s_ReadPos \in Int
    <3>1. Used \in Slots /\ s_ReadPos \in Slots
      BY Distance DEF Positions
    <3>2. PacketSize \in Nat /\ PacketSize > 0
      BY PacketSizes
    <3>. QED  BY <3>1, <3>2, Constants DEF Slots
  <2>3. s_ReadPos' # s_WritePos'
    <3>1. SUFFICES ASSUME s_ReadPos' = s_WritePos' PROVE FALSE
      OBVIOUS
    <3>2. Used' = IF s_WritePos' >= s_ReadPos' THEN s_WritePos' - s_ReadPos'
                  ELSE s_WritePos' - s_ReadPos' + RingBufferSize
      BY DEF Used, Dist
    <3>3. Used' = IF s_ReadPos >= s_ReadPos THEN s_ReadPos - s_ReadPos
                  ELSE s_ReadPos - s_ReadPos + RingBufferSize
      BY <2>1, <3>1, <3>2
    <3>4. Used' = 0
      BY <2>2, <3>3
    <3>. QED  BY <2>1, <2>2, <3>4
  <2>. QED  BY <2>1, <2>3 DEF ReadInv
<1>6. CASE AdvanceReadPos
  BY <1>6 DEF AdvanceReadPos, ReadInv
<1>7. CASE ResetGS
  BY <1>7 DEF ResetGS, Reading, ReadInv
<1>8. CASE LeaveMainLoop
  BY <1>8 DEF LeaveMainLoop, ReadInv
<1>9. CASE ReadPacket
  BY <1>9 DEF ReadPacket, ReadInv
<1>10. CASE WaitGS \/ WaitForOpen \/ WaitForClose \/ ShutdownThread \/ GenericStall \/ StallEnable
  BY <1>10 DEF ReadInv, WaitGS, WaitForOpen, WaitForClose, ShutdownThread, GenericStall, StallEnable
<1>11. CASE StallKick \/ StallWake \/ StallRecheck \/ Notify \/ WaitForEmpty \/ Synced
  BY <1>11 DEF ReadInv, StallKick, StallWake, StallRecheck, Notify, WaitForEmpty, Synced
<1>12. CASE CountVsync \/ ListenVsync \/ WaitVsync \/ LifecycleNotify \/ LifecycleDone \/ Joined
  BY <1>12 DEF ReadInv, CountVsync, ListenVsync, WaitVsync, LifecycleNotify, LifecycleDone, Joined
<1>13. CASE ThreadEntryPoint \/ OpenGS \/ CheckOpen \/ VsyncDone \/ SignalRing \/ RingValve
  BY <1>13 DEF ReadInv, ThreadEntryPoint, OpenGS, CheckOpen, VsyncDone, SignalRing, RingValve
<1>14. CASE VsyncValve \/ CloseGS
  BY <1>14 DEF ReadInv, VsyncValve, CloseGS
<1>15. CASE UNCHANGED vars
  BY <1>15 DEF ReadInv, vars
<1>. QED
  BY <1>1, <1>2, <1>3, <1>4, <1>5, <1>6, <1>7, <1>8, <1>9, <1>10, <1>11, <1>12, <1>13, <1>14, <1>15
     DEF Next, EECall, EEStep, GSStep

-----------------------------------------------------------------------------
(* The vsyncs between the two positions are finitely many.                 *)
VsyncSlots == {p \in Pending : ring[p][1] = "vsync"}

LEMMA VsyncsFinite ==
    ASSUME Positions
    PROVE  /\ VsyncSlots = {p \in Slots : Dist(p) < Used /\ ring[p][1] = "vsync"}
           /\ IsFiniteSet(VsyncSlots) /\ VsyncsQueued = Cardinality(VsyncSlots)
           /\ VsyncsQueued \in Nat /\ Unshown \in Int
<1>1. VsyncSlots = {p \in Slots : Dist(p) < Used /\ ring[p][1] = "vsync"}
  BY Distance DEF VsyncSlots
<1>2. IsFiniteSet(Slots)
  <2>1. 0 \in Int /\ RingBufferSize - 1 \in Int
    BY Constants
  <2>. QED  BY <2>1, FS_Interval DEF Slots
<1>3. IsFiniteSet(VsyncSlots)
  <2>1. VsyncSlots \subseteq Slots
    BY <1>1
  <2>. QED  BY <1>2, <2>1, FS_Subset
<1>4. VsyncsQueued = Cardinality(VsyncSlots)
  BY DEF VsyncsQueued, VsyncSlots
<1>5. VsyncsQueued \in Nat
  BY <1>3, <1>4, FS_CardinalityType
<1>6. Unshown \in Int
  BY <1>5 DEF Unshown
<1>. QED  BY <1>1, <1>3, <1>4, <1>5, <1>6

(* A step that leaves the ring leaves the vsyncs.                          *)
LEMMA SameFrames ==
    ASSUME UNCHANGED <<ring, s_ReadPos, s_WritePos>>
    PROVE  /\ VsyncsQueued' = VsyncsQueued
           /\ (gpc' = gpc \/ {gpc, gpc'} \cap {"vs_signal", "advance"} = {}) => Unshown' = Unshown
<1>1. VsyncsQueued' = VsyncsQueued
  BY SameRing DEF VsyncsQueued
<1>2. (gpc' = gpc \/ {gpc, gpc'} \cap {"vs_signal", "advance"} = {}) => (VsyncExecuted' <=> VsyncExecuted)
  BY DEF VsyncExecuted
<1>. QED  BY <1>1, <1>2 DEF Unshown

(* Publish adds the vsync it sends, and nothing else.                      *)
LEMMA PublishFrames ==
    ASSUME Positions, WriteInv, ReadInv, RingInv, cmd \in Packets, Publish
    PROVE  Unshown' = Unshown + (IF cmd = "vsync" THEN 1 ELSE 0)
<1>. DEFINE n == Len_(cmd)
<1>1. /\ UNCHANGED <<ring, s_ReadPos, gpc>> /\ Used' = Used + (1 + n) /\ \A p : Dist(p)' = Dist(p)
      /\ s_WritePos' \in Slots
  BY PublishEffect, PacketSizes DEF Publish, gsthread
<1>2. /\ ring[s_WritePos] = <<cmd, n>>
      /\ \A q \in Slots : Used < Dist(q) /\ Dist(q) <= Used + n => ring[q] = data
  BY DEF WriteInv, Publish
<1>3. n \in Nat /\ Used \in Nat /\ \A p \in Slots : Dist(p) \in Nat
  BY PacketSizes, Distance, Constants DEF Slots
<1>4. s_WritePos \in Slots /\ Dist(s_WritePos) = Used /\ \A p \in Slots : Dist(p) = Used => p = s_WritePos
  BY Distance DEF Used, Positions
<1>. HIDE DEF n
<1>5. VsyncSlots' = {p \in Slots : Dist(p) < Used' /\ ring[p][1] = "vsync"}
  <2>1. Pending' = {p \in Slots : Dist(p) < Used'}
    <3>1. \A p \in Slots : (p - s_ReadPos) % RingBufferSize = Dist(p)
      BY Distance
    <3>2. (s_WritePos' - s_ReadPos) % RingBufferSize = Used'
      <4>1. PICK w \in Slots : w = s_WritePos'
        BY <1>1
      <4>2. Used' = IF w >= s_ReadPos THEN w - s_ReadPos ELSE w - s_ReadPos + RingBufferSize
        BY <1>1, <4>1 DEF Used, Dist
      <4>3. Used' = Dist(w)
        BY <4>2 DEF Dist
      <4>. QED  BY <3>1, <4>1, <4>3
    <3>3. Pending' = {p \in Slots : (p - s_ReadPos) % RingBufferSize < (s_WritePos' - s_ReadPos) % RingBufferSize}
      BY <1>1 DEF Pending
    <3>. QED  BY <3>1, <3>2, <3>3
  <2>2. VsyncSlots' = {p \in Pending' : ring[p][1] = "vsync"}
    BY <1>1 DEF VsyncSlots
  <2>. QED  BY <2>1, <2>2
<1>6. /\ VsyncSlots = {p \in Slots : Dist(p) < Used /\ ring[p][1] = "vsync"}
      /\ IsFiniteSet(VsyncSlots) /\ VsyncsQueued = Cardinality(VsyncSlots) /\ VsyncsQueued \in Nat
  BY VsyncsFinite
<1>7. VsyncSlots' = IF cmd = "vsync" THEN VsyncSlots \cup {s_WritePos} ELSE VsyncSlots
  <2>1. ASSUME NEW p \in Slots
        PROVE  Dist(p) < Used' /\ ring[p][1] = "vsync" <=>
               (Dist(p) < Used /\ ring[p][1] = "vsync") \/ (cmd = "vsync" /\ p = s_WritePos)
    <3>1. CASE Dist(p) < Used
      <4>1. Dist(p) < Used' /\ p # s_WritePos
        BY <1>1, <1>3, <1>4, <3>1
      <4>. QED  BY <3>1, <4>1
    <3>2. CASE Dist(p) = Used
      <4>1. p = s_WritePos /\ Dist(p) < Used' /\ ~(Dist(p) < Used) /\ ring[p][1] = cmd
        BY <1>1, <1>2, <1>3, <1>4, <3>2
      <4>. QED  BY <4>1
    <3>3. CASE Dist(p) > Used
      <4>1. ~(Dist(p) < Used) /\ p # s_WritePos
        BY <1>3, <1>4, <3>3
      <4>2. Dist(p) < Used' => ring[p] = data
        BY <1>1, <1>2, <1>3, <3>3
      <4>. QED  BY <4>1, <4>2 DEF data
    <3>. QED  BY <1>3, <3>1, <3>2, <3>3
  <2>. QED  BY <1>4, <1>5, <1>6, <2>1
<1>8. VsyncsQueued' = VsyncsQueued + (IF cmd = "vsync" THEN 1 ELSE 0)
  <2>1. VsyncsQueued' = Cardinality(VsyncSlots')
    BY DEF VsyncsQueued, VsyncSlots
  <2>2. s_WritePos \notin VsyncSlots
    BY <1>3, <1>4, <1>6
  <2>3. Cardinality(VsyncSlots \cup {s_WritePos}) = Cardinality(VsyncSlots) + 1
    BY <1>6, <2>2, FS_AddElement
  <2>. QED  BY <1>6, <1>7, <2>1, <2>3
<1>9. VsyncExecuted' <=> VsyncExecuted
  <2>1. CASE gpc \in {"vs_signal", "advance"}
    <3>1. s_ReadPos # s_WritePos
      BY <2>1 DEF ReadInv
    <3>2. s_ReadPos' # s_WritePos'
      <4>1. SUFFICES ASSUME s_ReadPos' = s_WritePos' PROVE FALSE
        OBVIOUS
      <4>2. Used' = IF s_ReadPos >= s_ReadPos THEN s_ReadPos - s_ReadPos
                    ELSE s_ReadPos - s_ReadPos + RingBufferSize
        BY <1>1, <4>1 DEF Used, Dist
      <4>3. Used' = 0
        BY <4>2 DEF Positions, Slots
      <4>. QED  BY <1>1, <1>3, <4>3
    <3>. QED  BY <1>1, <3>1, <3>2 DEF VsyncExecuted
  <2>2. CASE gpc \notin {"vs_signal", "advance"}
    BY <1>1, <2>2 DEF VsyncExecuted
  <2>. QED  BY <2>1, <2>2
<1>. QED  BY <1>6, <1>8, <1>9 DEF Unshown

(* AdvanceReadPos takes away the packet that was carried out, a vsync or   *)
(* not.                                                                    *)
LEMMA AdvanceFrames ==
    ASSUME Positions, RingInv, ReadInv, AdvanceReadPos
    PROVE  Unshown' = Unshown
<1>1. /\ inc \in Nat /\ inc > 0 /\ inc <= Used /\ s_ReadPos # s_WritePos
      /\ \A q \in Slots : 0 < Dist(q) /\ Dist(q) < inc => ring[q] = data
  BY Current DEF AdvanceReadPos, GGoto
<1>2. /\ s_ReadPos' \in Slots /\ UNCHANGED s_WritePos /\ Used' = Used - inc
      /\ \A p \in Slots : /\ ring'[p] = IF Dist(p) < inc THEN data ELSE ring[p]
                          /\ Dist(p)' = IF Dist(p) < inc THEN Dist(p) - inc + RingBufferSize ELSE Dist(p) - inc
  BY <1>1, AdvanceEffect
<1>3. /\ Used \in Nat /\ Used < RingBufferSize /\ RingBufferSize \in Nat
      /\ \A p \in Slots : Dist(p) \in Nat /\ Dist(p) < RingBufferSize
      /\ s_ReadPos \in Slots /\ Dist(s_ReadPos) = 0 /\ \A p \in Slots : Dist(p) = 0 => p = s_ReadPos
  <2>1. s_ReadPos \in Slots /\ Dist(s_ReadPos) = 0
    BY Distance DEF Positions
  <2>2. \A p \in Slots : Dist(p) = 0 => p = s_ReadPos
    BY <2>1, Distance
  <2>3. Used \in Slots /\ \A p \in Slots : Dist(p) \in Slots
    BY Distance
  <2>. QED  BY <2>1, <2>2, <2>3, Constants DEF Slots
<1>4. /\ VsyncSlots = {p \in Slots : Dist(p) < Used /\ ring[p][1] = "vsync"}
      /\ IsFiniteSet(VsyncSlots) /\ VsyncsQueued = Cardinality(VsyncSlots) /\ VsyncsQueued \in Nat
  BY VsyncsFinite
<1>5. VsyncSlots' = {p \in Slots : Dist(p)' < Used' /\ ring'[p][1] = "vsync"}
  <2>1. ASSUME NEW p \in Slots PROVE (p - s_ReadPos') % RingBufferSize = Dist(p)'
    <3>1. PICK r \in Slots : r = s_ReadPos'
      BY <1>2
    <3>2. Dist(p)' = IF p >= r THEN p - r ELSE p - r + RingBufferSize
      BY <3>1 DEF Dist
    <3>3. /\ RingBufferSize > 0 /\ p \in Int /\ r \in Int /\ p - r \in Int
          /\ -RingBufferSize <= p - r /\ p - r < RingBufferSize
      BY Constants DEF Slots
    <3>4. CASE p >= r
      <4>1. 0 <= p - r
        BY <3>3, <3>4
      <4>2. (p - r) % RingBufferSize = p - r
        BY <1>3, <3>3, <4>1, Remainder
      <4>. QED  BY <3>1, <3>2, <3>4, <4>2
    <3>5. CASE ~(p >= r)
      <4>1. p - r < 0
        BY <3>3, <3>5
      <4>2. (p - r) % RingBufferSize = p - r + RingBufferSize
        BY <1>3, <3>3, <4>1, Remainder
      <4>. QED  BY <3>1, <3>2, <3>5, <4>2
    <3>. QED  BY <3>4, <3>5
  <2>2. Used' = (s_WritePos' - s_ReadPos') % RingBufferSize
    <3>1. s_WritePos \in Slots /\ Used' = Dist(s_WritePos)'
      BY <1>2 DEF Positions, Used
    <3>. QED  BY <1>2, <2>1, <3>1
  <2>3. Pending' = {p \in Slots : (p - s_ReadPos') % RingBufferSize < (s_WritePos' - s_ReadPos') % RingBufferSize}
    BY DEF Pending
  <2>4. Pending' = {p \in Slots : Dist(p)' < Used'}
    BY <2>1, <2>2, <2>3
  <2>5. VsyncSlots' = {p \in Pending' : ring'[p][1] = "vsync"}
    BY DEF VsyncSlots
  <2>. QED  BY <2>4, <2>5
<1>6. VsyncSlots' = VsyncSlots \ {s_ReadPos}
  <2>1. ASSUME NEW p \in Slots
        PROVE  Dist(p)' < Used' /\ ring'[p][1] = "vsync" <=>
               (Dist(p) < Used /\ ring[p][1] = "vsync" /\ p # s_ReadPos)
    <3>1. CASE Dist(p) < inc
      <4>1. ring'[p] = data
        BY <1>2, <3>1
      <4>2. p # s_ReadPos => ring[p] = data
        BY <1>1, <1>3, <3>1
      <4>. QED  BY <4>1, <4>2 DEF data
    <3>2. CASE ~(Dist(p) < inc)
      <4>1. ring'[p] = ring[p] /\ Dist(p)' = Dist(p) - inc
        BY <1>2, <3>2
      <4>2. p # s_ReadPos
        BY <1>1, <1>3, <3>2
      <4>3. Dist(p)' < Used' <=> Dist(p) < Used
        BY <1>1, <1>2, <1>3, <4>1
      <4>. QED  BY <4>1, <4>2, <4>3
    <3>. QED  BY <3>1, <3>2
  <2>. QED  BY <1>4, <1>5, <2>1
<1>7. VsyncsQueued' = Cardinality(VsyncSlots')
  BY DEF VsyncsQueued, VsyncSlots
<1>8. gpc = "advance" /\ gpc' \in {"signal", "lost"}
  BY DEF AdvanceReadPos, GGoto
<1>9. ~VsyncExecuted'
  BY <1>8 DEF VsyncExecuted
<1>10. CASE ring[s_ReadPos][1] = "vsync"
  <2>1. s_ReadPos \in VsyncSlots
    BY <1>1, <1>3, <1>4, <1>10
  <2>2. VsyncsQueued' = VsyncsQueued - 1
    BY <1>4, <1>6, <1>7, <2>1, FS_RemoveElement
  <2>3. VsyncExecuted
    BY <1>1, <1>8, <1>10 DEF VsyncExecuted
  <2>. QED  BY <1>4, <1>9, <2>2, <2>3 DEF Unshown
<1>11. CASE ring[s_ReadPos][1] # "vsync"
  <2>1. VsyncSlots' = VsyncSlots
    BY <1>4, <1>6, <1>11
  <2>2. VsyncsQueued' = VsyncsQueued
    BY <1>4, <1>7, <2>1
  <2>3. ~VsyncExecuted
    BY <1>11 DEF VsyncExecuted
  <2>. QED  BY <1>9, <2>2, <2>3 DEF Unshown
<1>. QED  BY <1>10, <1>11

(* WritePacket writes outside the slots that count.                        *)
LEMMA WriteFrames ==
    ASSUME Positions, WriteInv, ReadInv, cmd \in Packets, WritePacket
    PROVE  Unshown' = Unshown
<1>1. UNCHANGED <<s_ReadPos, s_WritePos, gpc>> /\ \A p \in Slots : Dist(p) < Used => ring'[p] = ring[p]
  BY WriteEffect DEF WritePacket, gsthread
<1>2. Pending' = Pending /\ \A p \in Pending : ring'[p] = ring[p]
  BY <1>1, Distance DEF Pending
<1>3. VsyncsQueued' = VsyncsQueued
  <2>1. {p \in Pending : ring'[p][1] = "vsync"} = {p \in Pending : ring[p][1] = "vsync"}
    BY <1>2
  <2>. QED  BY <1>2, <2>1 DEF VsyncsQueued
<1>4. VsyncExecuted' <=> VsyncExecuted
  <2>1. s_ReadPos # s_WritePos => ring'[s_ReadPos] = ring[s_ReadPos]
    <3>1. SUFFICES ASSUME s_ReadPos # s_WritePos PROVE ring'[s_ReadPos] = ring[s_ReadPos]
      OBVIOUS
    <3>2. s_ReadPos \in Slots /\ Dist(s_ReadPos) = 0 /\ Used \in Slots /\ Used # 0
      BY <3>1, Distance DEF Positions
    <3>3. Dist(s_ReadPos) < Used
      BY <3>2, Constants DEF Slots
    <3>. QED  BY <1>1, <3>2, <3>3
  <2>. QED  BY <1>1, <2>1 DEF VsyncExecuted
<1>. QED  BY <1>3, <1>4 DEF Unshown

(* An empty ring holds none.                                               *)
LEMMA EmptyFrames ==
    ASSUME Positions, s_ReadPos = s_WritePos
    PROVE  Unshown = 0
<1>1. Used = 0 /\ \A p \in Slots : Dist(p) \in Nat
  BY Distance, Constants DEF Slots
<1>2. VsyncSlots = {}
  BY <1>1, VsyncsFinite
<1>3. VsyncsQueued = 0
  BY <1>2, FS_EmptySet, VsyncsFinite
<1>. QED  BY <1>3 DEF Unshown, VsyncExecuted

LEMMA EmptiedFrames ==
    ASSUME Positions', s_ReadPos' = s_WritePos'
    PROVE  Unshown' = 0
<1>1. PICK r \in Slots : r = s_ReadPos' /\ r = s_WritePos'
  BY DEF Positions
<1>2. (s_WritePos' - s_ReadPos') % RingBufferSize = 0
  <2>1. r \in Int /\ r - r = 0 /\ RingBufferSize \in Nat /\ RingBufferSize > 0
    BY Constants DEF Slots
  <2>2. 0 % RingBufferSize = 0
    BY <2>1
  <2>. QED  BY <1>1, <2>1, <2>2
<1>3. VsyncSlots' = {}
  <2>1. ASSUME NEW p \in Slots PROVE ~((p - s_ReadPos') % RingBufferSize < 0)
    <3>1. p - r \in Int /\ RingBufferSize \in Nat /\ RingBufferSize > 0
      BY Constants DEF Slots
    <3>2. (p - r) % RingBufferSize \in 0 .. RingBufferSize - 1
      BY <3>1
    <3>3. ~((p - r) % RingBufferSize < 0)
      BY <3>1, <3>2
    <3>. QED  BY <1>1, <3>3
  <2>. QED  BY <1>2, <2>1 DEF VsyncSlots, Pending
<1>4. VsyncsQueued' = Cardinality(VsyncSlots')
  BY DEF VsyncsQueued, VsyncSlots
<1>5. VsyncsQueued' = 0
  BY <1>3, <1>4, FS_EmptySet
<1>. QED  BY <1>5 DEF Unshown, VsyncExecuted

(* The frame count, and the bound on the vsyncs that wait.                 *)
LEMMA NextFrameInv ==
    ASSUME Positions, Positions', Places, Flags, Numbers, LifeInv, SemaInv, VsyncInv, RingInv,
           WriteInv, ReadInv, FrameInv, [Next]_vars
    PROVE  FrameInv'
<1>0. Unshown \in Int /\ VsyncQueueSize \in Nat /\ s_QueuedFrameCount \in Int
  BY VsyncsFinite, Constants DEF Numbers
<1>. USE DEF ringbuf, signal, frames, event, lifecycle, ee, gsthread, SetEvent, NotifyOfWork, EGoto,
             GGoto
<1>1. ASSUME NEW c \in {"gs", "fifo", "vsync"}, BeginPacket(c)
     PROVE  FrameInv'
  <2>1. Unshown' = Unshown
    BY <1>1, SameFrames DEF BeginPacket
  <2>. QED  BY <1>1, <1>0, <2>1 DEF BeginPacket, FrameInv, Session, Counting, Waiting, Early
<1>2. ASSUME WaitForWork("closed_wait", "closed")
     PROVE  FrameInv'
  <2>1. Unshown' = Unshown
    BY <1>2, SameFrames DEF WaitForWork
  <2>. QED  BY <1>2, <1>0, <2>1 DEF WaitForWork, FrameInv, Session, Counting, Waiting, Early
<1>3. ASSUME WaitForWork("wait", "check")
     PROVE  FrameInv'
  <2>1. Unshown' = Unshown
    BY <1>3, SameFrames DEF WaitForWork
  <2>. QED  BY <1>3, <1>0, <2>1 DEF WaitForWork, FrameInv, Session, Counting, Waiting, Early
<1>4. CASE WritePacket
  <2>1. cmd \in Packets
    BY <1>4 DEF WritePacket, SemaInv, Sending
  <2>2. Unshown' = Unshown
    BY <1>4, <2>1, WriteFrames
  <2>. QED  BY <1>4, <1>0, <2>2 DEF WritePacket, FrameInv, Session, Counting, Waiting, Early
<1>5. CASE Publish
  <2>1. cmd \in Packets
    BY <1>5 DEF Publish, SemaInv, Sending
  <2>2. Unshown' = Unshown + (IF cmd = "vsync" THEN 1 ELSE 0)
    BY <1>5, <2>1, PublishFrames
  <2>. QED  BY <1>5, <1>0, <2>2 DEF Publish, FrameInv, Session, Counting, Waiting, Early
<1>6. CASE AdvanceReadPos
  <2>1. Unshown' = Unshown
    BY <1>6, AdvanceFrames
  <2>. QED  BY <1>6, <1>0, <2>1 DEF AdvanceReadPos, FrameInv, Session, Counting, Waiting, Early
<1>7. CASE ResetGS
  <2>1. Unshown' = 0
    BY <1>7, EmptiedFrames DEF ResetGS
  <2>. QED  BY <1>7, <1>0, <2>1 DEF ResetGS, FrameInv, Session, Counting, Waiting, Early
<1>8. CASE LeaveMainLoop
  <2>1. Unshown' = 0
    BY <1>8, EmptiedFrames DEF LeaveMainLoop
  <2>2. ~Session'
    BY <1>8 DEF LeaveMainLoop, LifeInv, Session, Inside, Quiet
  <2>. QED  BY <1>8, <1>0, <2>1, <2>2 DEF LeaveMainLoop, FrameInv, Waiting, Early
<1>9. CASE WaitGS \/ WaitForOpen
  <2>1. Unshown' = Unshown
    BY <1>9, SameFrames DEF WaitGS, WaitForOpen
  <2>. QED  BY <1>9, <1>0, <2>1 DEF WaitGS, WaitForOpen, FrameInv, Session, Counting, Waiting, Early
<1>10. CASE WaitForClose \/ ShutdownThread
  <2>1. Unshown' = Unshown
    BY <1>10, SameFrames DEF WaitForClose, ShutdownThread
  <2>. QED  BY <1>10, <1>0, <2>1 DEF WaitForClose, ShutdownThread, FrameInv, Session, Counting,
               Waiting, Early
<1>11. CASE GenericStall \/ StallEnable \/ StallKick
  <2>1. Unshown' = Unshown
    BY <1>11, SameFrames DEF GenericStall, StallEnable, StallKick
  <2>. QED  BY <1>11, <1>0, <2>1 DEF GenericStall, StallEnable, StallKick, FrameInv, Session,
               Counting, Waiting, Early
<1>12. CASE StallWake \/ StallRecheck
  <2>1. Unshown' = Unshown
    BY <1>12, SameFrames DEF StallWake, StallRecheck
  <2>. QED  BY <1>12, <1>0, <2>1 DEF StallWake, StallRecheck, FrameInv, Session, Counting, Waiting,
               Early
<1>13. CASE WaitForEmpty \/ Synced
  <2>1. Unshown' = Unshown
    BY <1>13, SameFrames DEF WaitForEmpty, Synced
  <2>. QED  BY <1>13, <1>0, <2>1 DEF WaitForEmpty, Synced, FrameInv, Session, Counting, Waiting,
               Early
<1>14. CASE LifecycleNotify \/ LifecycleDone \/ Joined
  <2>1. Unshown' = Unshown
    BY <1>14, SameFrames DEF LifecycleNotify, LifecycleDone, Joined
  <2>. QED  BY <1>14, <1>0, <2>1 DEF LifecycleNotify, LifecycleDone, Joined, FrameInv, Session,
               Counting, Waiting, Early
<1>15. CASE Notify
  <2>1. Unshown' = Unshown
    BY <1>15, SameFrames DEF Notify
  <2>. QED  BY <1>15, <1>0, <2>1 DEF Notify, FrameInv, Session, Counting, Waiting, Early, Places,
               Packets, Commands
<1>16. CASE CountVsync
  <2>1. Unshown' = Unshown
    BY <1>16, SameFrames DEF CountVsync
  <2>. QED  BY <1>16, <1>0, <2>1 DEF CountVsync, FrameInv, Session, Counting, Waiting, Early
<1>17. CASE ListenVsync
  <2>1. Unshown' = Unshown
    BY <1>17, SameFrames DEF ListenVsync
  <2>. QED  BY <1>17, <1>0, <2>1 DEF ListenVsync, FrameInv, Session, Counting, Waiting, Early,
               VsyncInv
<1>18. CASE WaitVsync
  <2>1. Unshown' = Unshown
    BY <1>18, SameFrames DEF WaitVsync
  <2>. QED  BY <1>18, <1>0, <2>1 DEF WaitVsync, FrameInv, Session, Counting, Waiting, Early,
               VsyncInv
<1>19. CASE ThreadEntryPoint \/ OpenGS
  <2>1. Unshown' = Unshown
    BY <1>19, SameFrames DEF ThreadEntryPoint, OpenGS
  <2>. QED  BY <1>19, <1>0, <2>1 DEF ThreadEntryPoint, OpenGS, FrameInv, Session, Counting, Waiting,
               Early
<1>20. CASE CheckOpen
  <2>1. Unshown' = Unshown
    BY <1>20, SameFrames DEF CheckOpen
  <2>. QED  BY <1>20, <1>0, <2>1 DEF CheckOpen, FrameInv, Session, Counting, Waiting, Early
<1>21. CASE SignalRing \/ RingValve
  <2>1. Unshown' = Unshown
    BY <1>21, SameFrames DEF SignalRing, RingValve
  <2>. QED  BY <1>21, <1>0, <2>1 DEF SignalRing, RingValve, FrameInv, Session, Counting, Waiting,
               Early
<1>22. CASE CloseGS
  <2>1. Unshown' = Unshown
    BY <1>22, SameFrames DEF CloseGS
  <2>. QED  BY <1>22, <1>0, <2>1 DEF CloseGS, FrameInv, Session, Counting, Waiting, Early
<1>23. CASE VsyncValve
  <2>1. Unshown' = Unshown
    BY <1>23, SameFrames DEF VsyncValve
  <2>. QED  BY <1>23, <1>0, <2>1 DEF VsyncValve, FrameInv, Session, Counting, Waiting, Early,
               VsyncInv, Flags
<1>24. CASE VsyncDone
  <2>1. VsyncsQueued' = VsyncsQueued /\ VsyncsQueued \in Nat
    BY <1>24, SameFrames, VsyncsFinite DEF VsyncDone
  <2>2. CASE gpc = "vs_sub"
    <3>1. /\ gpc' = "vs_signal" /\ s_QueuedFrameCount' = s_QueuedFrameCount - 1
          /\ UNCHANGED <<epc, cmd, s_sem_Vsync, ring, s_ReadPos, s_WritePos>>
      BY <1>24, <2>2 DEF VsyncDone
    <3>2. ~VsyncExecuted /\ VsyncExecuted'
      BY <2>2, <3>1 DEF ReadInv, VsyncExecuted
    <3>3. Unshown' = Unshown - 1
      BY <2>1, <3>2 DEF Unshown
    <3>. QED  BY <1>0, <2>2, <3>1, <3>3 DEF FrameInv, Session, Counting, Waiting, Early
  <2>3. CASE gpc = "vs_signal"
    <3>1. /\ gpc' = "advance" /\ s_sem_Vsync' = s_sem_Vsync + (IF s_VsyncSignalListener THEN 1 ELSE 0)
          /\ UNCHANGED <<epc, cmd, s_QueuedFrameCount, ring, s_ReadPos, s_WritePos>>
      BY <1>24, <2>3 DEF VsyncDone
    <3>2. VsyncExecuted' <=> VsyncExecuted
      BY <2>3, <3>1 DEF VsyncExecuted
    <3>3. Unshown' = Unshown
      BY <2>1, <3>2 DEF Unshown
    <3>. QED  BY <1>0, <2>3, <3>1, <3>3 DEF FrameInv, VsyncInv, Flags, Session, Counting, Waiting,
                 Early
  <2>. QED  BY <1>24, <2>2, <2>3 DEF VsyncDone
<1>25. CASE ReadPacket
  <2>1. /\ gpc = "loop" /\ UNCHANGED <<epc, cmd, s_sem_Vsync, s_QueuedFrameCount, ring, s_ReadPos, s_WritePos>>
    BY <1>25 DEF ReadPacket
  <2>2. Unshown' = Unshown
    <3>1. ~VsyncExecuted
      BY <2>1 DEF VsyncExecuted
    <3>2. ~VsyncExecuted'
      BY <1>25, <2>1 DEF ReadPacket, VsyncExecuted
    <3>. QED  BY <2>1, <3>1, <3>2, SameFrames DEF Unshown
  <2>3. gpc' = "valve_ring" => Unshown = 0
    BY <1>25, EmptyFrames DEF ReadPacket
  <2>4. gpc' \in {"valve_ring", "vs_sub", "advance"}
    BY <1>25 DEF ReadPacket
  <2>. QED  BY <1>0, <2>1, <2>2, <2>3, <2>4 DEF FrameInv, Session, Counting, Waiting, Early
<1>26. CASE UNCHANGED vars
  <2>1. Unshown' = Unshown
    BY <1>26, SameFrames DEF vars
  <2>. QED  BY <1>26, <1>0, <2>1 DEF vars, FrameInv, Session, Counting, Waiting, Early
<1>. QED
  BY <1>1, <1>2, <1>3, <1>4, <1>5, <1>6, <1>7, <1>8, <1>9, <1>10, <1>11, <1>12, <1>13, <1>14, <1>15,
     <1>16, <1>17, <1>18, <1>19, <1>20, <1>21, <1>22, <1>23, <1>24, <1>25, <1>26
     DEF Next, EECall, EEStep, GSStep

-----------------------------------------------------------------------------
LEMMA InitIInv == Init => IInv
<1>. SUFFICES ASSUME Init PROVE IInv
  OBVIOUS
<1>. USE DEF Init
<1>1. Positions /\ Flags /\ Numbers
  <2>1. 0 \in Slots /\ 0 \in 0 .. VsyncLen + 1
    BY Constants DEF Slots
  <2>2. Positions
    BY <2>1 DEF Positions
  <2>3. Flags
    BY DEF Flags
  <2>4. Numbers
    BY <2>1 DEF Numbers
  <2>. QED  BY <2>2, <2>3, <2>4
<1>2. Places
  <2>1. epc \in EEPC /\ gpc \in GSPC
    BY DEF EEPC, GSPC
  <2>2. cmd \in Commands
    BY DEF Commands
  <2>. QED  BY <2>1, <2>2 DEF Places, Packets
<1>3. LifeInv /\ EmptyInv /\ SemaInv
  BY DEF LifeInv, EmptyInv, SemaInv, Session, Outside, Sending
<1>4. SignalInv /\ VsyncInv
  BY DEF SignalInv, VsyncInv
<1>5. Used = 0 /\ \A p \in Slots : Dist(p) \in Nat
  <2>1. Used = 0 /\ \A p \in Slots : Dist(p) \in Slots
    BY <1>1, Distance
  <2>. QED  BY <2>1, Constants DEF Slots
<1>6. RingInv /\ WriteInv /\ ReadInv
  BY <1>5 DEF RingInv, WriteInv, ReadInv
<1>7. FrameInv
  <2>1. Unshown = 0
    BY <1>1, EmptyFrames
  <2>. QED  BY <2>1, Constants DEF FrameInv, Session, Counting, Waiting, Early
<1>. QED  BY <1>1, <1>2, <1>3, <1>4, <1>6, <1>7 DEF IInv, Intact

LEMMA TornForever ==
    ASSUME [Next]_vars, torn
    PROVE  torn'
<1>1. ASSUME NEW c \in {"gs", "fifo", "vsync"}, BeginPacket(c) PROVE torn'
  BY <1>1 DEF BeginPacket
<1>2. CASE WaitForWork("closed_wait", "closed") \/ WaitForWork("wait", "check")
  BY <1>2 DEF WaitForWork
<1>3. CASE WaitGS \/ WaitForOpen \/ WaitForClose \/ ShutdownThread
  BY <1>3 DEF WaitGS, WaitForOpen, WaitForClose, ShutdownThread
<1>4. CASE GenericStall \/ StallEnable \/ StallKick \/ StallWake \/ StallRecheck \/ WritePacket \/ Publish
  BY <1>4 DEF GenericStall, StallEnable, StallKick, StallWake, StallRecheck, WritePacket, Publish
<1>5. CASE Notify \/ WaitForEmpty \/ Synced \/ ResetGS \/ CountVsync \/ ListenVsync \/ WaitVsync
  BY <1>5 DEF Notify, WaitForEmpty, Synced, ResetGS, CountVsync, ListenVsync, WaitVsync
<1>6. CASE LifecycleNotify \/ LifecycleDone \/ Joined \/ ThreadEntryPoint \/ OpenGS \/ CheckOpen
  BY <1>6 DEF LifecycleNotify, LifecycleDone, Joined, ThreadEntryPoint, OpenGS, CheckOpen
<1>7. CASE ReadPacket \/ VsyncDone \/ AdvanceReadPos \/ SignalRing \/ RingValve \/ VsyncValve
  BY <1>7 DEF ReadPacket, VsyncDone, AdvanceReadPos, SignalRing, RingValve, VsyncValve
<1>8. CASE LeaveMainLoop \/ CloseGS
  BY <1>8 DEF LeaveMainLoop, CloseGS
<1>9. CASE UNCHANGED vars
  BY <1>9 DEF vars
<1>. QED
  BY <1>1, <1>2, <1>3, <1>4, <1>5, <1>6, <1>7, <1>8, <1>9 DEF Next, EECall, EEStep, GSStep

LEMMA NextIInv ==
    ASSUME IInv, [Next]_vars
    PROVE  IInv'
<1>. USE DEF IInv
<1>1. Positions' /\ Flags' /\ Numbers' /\ Places'
  BY NextPositions, NextFlags, NextNumbers, NextPlaces
<1>2. LifeInv' /\ EmptyInv' /\ SemaInv'
  BY NextLifeInv, NextEmptyInv, NextSemaInv
<1>3. SignalInv' /\ VsyncInv'
  BY NextSignalInv, NextVsyncInv
<1>4. ASSUME ~torn' PROVE Intact'
  <2>1. RingInv /\ WriteInv /\ ReadInv /\ FrameInv
    BY <1>4, TornForever DEF Intact
  <2>2. RingInv' /\ WriteInv' /\ ReadInv'
    BY <1>4, <2>1, NextRingInv, NextWriteInv, NextReadInv
  <2>3. FrameInv'
    BY <1>1, <2>1, NextFrameInv
  <2>. QED  BY <2>2, <2>3 DEF Intact
<1>. QED  BY <1>1, <1>2, <1>3, <1>4

LEMMA AlwaysIInv == Spec => []IInv
BY InitIInv, NextIInv, PTL DEF Spec

LEMMA Types ==
    ASSUME IInv
    PROVE  TypeOK
<1>. USE DEF IInv
<1>1. ring \in [Slots -> {data} \cup ((Commands \cup {"config"}) \X {0, VsyncLen})]
  BY DEF Positions, Tags, Packets
<1>2. {s_SignalRingEnable, s_VsyncSignalListener, s_CopyDataTally, s_open_flag,
       s_shutdown_flag, torn} \subseteq BOOLEAN
  BY DEF Flags
<1>3. s_sem_OnRingReset \in (IF epc \in {"kick", "ring_wait"} THEN {0, 1} ELSE {0})
  BY DEF SignalInv
<1>4. s_sem_Vsync \in (IF epc = "vs_wait" THEN {0, 1} ELSE {0})
  BY DEF VsyncInv
<1>5. s_open_or_close_done \in (IF epc \in {"open_wait", "close_wait", "open_notify", "close_notify"}
                                  THEN {0, 1} ELSE {0})
  BY DEF LifeInv, Session
<1>. QED  BY <1>1, <1>2, <1>3, <1>4, <1>5 DEF TypeOK, Positions, Numbers, Places, Packets

(* The types; each semaphore of MTGS.cpp is posted for a thread that waits *)
(* for it or is about to, and once: no post is left over for a later       *)
(* stall, vsync or handshake.                                              *)
THEOREM TypeCorrect == Spec => []TypeOK
BY AlwaysIInv, Types, PTL

(* The assertions of GenericStall hold: the ring signal is off when a      *)
(* stall begins, and a stall ends with the signal off and the count it     *)
(* asked for over.                                                         *)
THEOREM StallsAsAsserted == Spec => []StallAssertions
<1>1. IInv => StallAssertions
  BY DEF IInv, SignalInv, StallAssertions
<1>. QED  BY <1>1, AlwaysIInv, PTL

(* s_QueuedFrameCount never drifts from the vsyncs in the ring, over       *)
(* wraps, resets, closes and reopens, and no more than VsyncQueueSize + 2  *)
(* of them wait, until a reset tears the ring.                             *)
THEOREM FrameCountKept == Spec => []FrameCountExact
<1>1. ASSUME IInv, ~torn PROVE FrameCountExact
  <2>. USE DEF IInv, Intact
  <2>1. Unshown \in Int /\ VsyncsQueued \in Nat /\ VsyncQueueSize \in Nat
    BY <1>1, VsyncsFinite, Constants
  <2>2. Session => s_QueuedFrameCount = Unshown - Counting
    BY <1>1 DEF FrameInv
  <2>3. Unshown <= VsyncQueueSize + 2
    BY <1>1, <2>1 DEF FrameInv, Waiting, Early
  <2>4. Unshown - Counting = VsyncsQueued - Counting - (IF VsyncExecuted THEN 1 ELSE 0)
    BY <2>1 DEF Unshown, Counting
  <2>. QED  BY <2>2, <2>3, <2>4 DEF FrameCountExact, Unshown, Counting
<1>2. torn => FrameCountExact
  BY DEF FrameCountExact
<1>. QED  BY <1>1, <1>2, AlwaysIInv, PTL

(* WaitGS returns with an empty ring and a GS thread that sleeps, never    *)
(* because that thread died.                                               *)
THEOREM SyncIsDone == Spec => []SyncMeansDone
<1>1. ASSUME IInv PROVE SyncMeansDone
  <2>1. SUFFICES ASSUME epc = "synced" PROVE s_ReadPos = s_WritePos /\ s_sem_event = "sleep"
    BY DEF SyncMeansDone
  <2>2. s_sem_event = "sleep" /\ gpc \in {"wait", "closed_wait"} /\ gpc \in Inside
    BY <1>1, <2>1 DEF IInv, SemaInv, LifeInv, Session
  <2>. QED  BY <1>1, <2>1, <2>2 DEF IInv, SemaInv, Inside, Quiet
<1>. QED  BY <1>1, AlwaysIInv, PTL

-----------------------------------------------------------------------------
(* The ring as a queue.  A packet is known by how far it is ahead.         *)

QueueShape ==
    /\ IsFiniteSet(Heads) /\ Heads \subseteq Int
    /\ \A i \in Heads : \E p \in Slots : i = Dist(p)
    /\ \A p \in Slots : Dist(p) \in Heads <=> Dist(p) < Used /\ ring[p] # data
    /\ \A p \in Slots : Dist(p) \in Heads => Contents[Dist(p)] = ring[p][1]

(* Ahead finds the slot at a distance.                                     *)
LEMMA AheadOf ==
    ASSUME Positions
    PROVE  /\ Unread = Used
           /\ \A i \in Slots : Ahead(i) \in Slots /\ Dist(Ahead(i)) = i
           /\ \A p \in Slots : Ahead(Dist(p)) = p
<1>1. RingBufferSize \in Nat /\ RingBufferSize > 0 /\ s_ReadPos \in Slots /\ s_WritePos \in Slots
  BY Constants DEF Positions
<1>2. Unread = Used
  BY <1>1, Distance DEF Unread, Used
<1>3. ASSUME NEW i \in Slots PROVE Ahead(i) \in Slots /\ Dist(Ahead(i)) = i
  <2>1. PICK a \in Int : a = s_ReadPos + i /\ 0 <= a /\ a < 2 * RingBufferSize
    BY <1>1, <1>3 DEF Slots
  <2>2. a % RingBufferSize = IF a < RingBufferSize THEN a ELSE a - RingBufferSize
    BY <1>1, <2>1, Wrapped
  <2>3. Ahead(i) = a % RingBufferSize
    BY <2>1, Zenon DEF Ahead
  <2>4. PICK b \in Int : b = Ahead(i) /\ b = IF a < RingBufferSize THEN a ELSE a - RingBufferSize
    BY <1>1, <2>1, <2>2, <2>3
  <2>5. b \in Slots /\ (IF b >= s_ReadPos THEN b - s_ReadPos ELSE b - s_ReadPos + RingBufferSize) = i
    BY <1>1, <1>3, <2>1, <2>4 DEF Slots
  <2>. QED  BY <2>4, <2>5 DEF Dist
<1>4. ASSUME NEW p \in Slots PROVE Ahead(Dist(p)) = p
  <2>1. Dist(p) \in Slots
    BY <1>4, Distance
  <2>2. Ahead(Dist(p)) \in Slots /\ Dist(Ahead(Dist(p))) = Dist(p)
    BY <1>3, <2>1
  <2>. QED  BY <1>4, <2>2, Distance
<1>. QED  BY <1>2, <1>3, <1>4

(* Every packet in the ring is whole, so its contents are its command.     *)
LEMMA Shape ==
    ASSUME Positions, RingInv
    PROVE  QueueShape
<1>1. RingBufferSize \in Nat /\ RingBufferSize > 0 /\ Used \in Slots /\ s_ReadPos \in Slots /\ Used \in Int
  BY Constants, Distance DEF Positions, Slots
<1>2. 0 .. Unread - 1 \subseteq Slots
  BY <1>1, AheadOf DEF Slots
<1>3. Heads \subseteq Slots
  BY <1>2 DEF Heads
<1>4. IsFiniteSet(Slots) /\ Slots \subseteq Int
  BY <1>1, FS_Interval DEF Slots
<1>5. IsFiniteSet(Heads)
  BY <1>3, <1>4, FS_Subset
<1>6. \A i \in Heads : \E p \in Slots : i = Dist(p)
  BY <1>3, AheadOf
<1>7. ASSUME NEW p \in Slots PROVE Dist(p) \in Heads <=> Dist(p) < Used /\ ring[p] # data
  <2>1. Dist(p) \in Slots /\ Dist(p) \in Int /\ 0 <= Dist(p) /\ Ahead(Dist(p)) = p /\ Unread = Used
    BY <1>7, Distance, AheadOf, <1>1 DEF Slots
  <2>2. Dist(p) \in 0 .. Unread - 1 <=> Dist(p) < Used
    BY <1>1, <2>1
  <2>3. Dist(p) = 0 => p = s_ReadPos
    BY <1>1, <1>7, Distance
  <2>4. Dist(p) = 0 /\ Dist(p) < Used => ring[p] # data
    <3>1. SUFFICES ASSUME Dist(p) = 0, 0 < Used PROVE ring[p] # data
      BY Zenon
    <3>2. s_ReadPos # s_WritePos
      BY <1>1, <3>1, Distance
    <3>. QED  BY <2>3, <3>1, <3>2 DEF RingInv
  <2>. QED  BY <2>1, <2>2, <2>4 DEF Heads
<1>8. ASSUME NEW p \in Slots, Dist(p) \in Heads PROVE Contents[Dist(p)] = ring[p][1]
  <2>1. Dist(p) \in Slots /\ Ahead(Dist(p)) = p /\ Unread = Used
    BY <1>8, Distance, AheadOf
  <2>2. Dist(p) < Used /\ ring[p] # data
    BY <1>7, <1>8
  <2>3. Dist(p) + 1 + ring[p][2] <= Used
    BY <2>2 DEF RingInv, PacketAt
  <2>4. ring[p][2] \in Int
    <3>1. ring[p] \in Tags
      BY <2>2 DEF Positions
    <3>. QED  BY <3>1, Constants DEF Tags
  <2>5. Dist(p) + ring[p][2] < Unread
    BY <1>1, <2>1, <2>3, <2>4 DEF Slots
  <2>. QED  BY <2>1, <2>2, <2>5 DEF Contents
<1>. QED  BY <1>3, <1>4, <1>5, <1>6, <1>7, <1>8 DEF QueueShape

(* A ring without packets is the empty queue.                              *)
LEMMA EmptyQueue ==
    ASSUME Positions, s_ReadPos = s_WritePos
    PROVE  Queue = <<>>
<1>1. Unread = 0
  BY Distance, AheadOf
<1>2. Heads = {}
  BY <1>1 DEF Heads
<1>3. Cardinality(Heads) = 0
  BY <1>2, FS_EmptySet
<1>. QED  BY <1>3 DEF Queue, InOrder

LEMMA UnchangedQueue ==
    ASSUME UNCHANGED <<ring, s_ReadPos, s_WritePos>>
    PROVE  Queue' = Queue
<1>1. Heads' = Heads
  BY DEF Heads, Unread, Ahead
<1>2. Contents' = Contents
  BY DEF Contents, Unread, Ahead
<1>. QED  BY <1>1, <1>2 DEF Queue

(* A packet that is written but not published is not in it.                *)
LEMMA WriteQueue ==
    ASSUME Positions, RingInv, WriteInv, cmd \in Packets, WritePacket, QueueShape, QueueShape'
    PROVE  Queue' = Queue
<1>1. \A p \in Slots : Dist(p)' = Dist(p) /\ Used' = Used /\ (Dist(p) < Used => ring'[p] = ring[p])
  BY WriteEffect DEF WritePacket, Dist, Used
<1>2. Heads' = Heads
  <2>1. \A i \in Heads : \E p \in Slots : i = Dist(p)
    BY DEF QueueShape
  <2>2. \A i \in Heads' : \E p \in Slots : i = Dist(p)
    BY <1>1 DEF QueueShape
  <2>3. ASSUME NEW p \in Slots PROVE Dist(p) \in Heads' <=> Dist(p) \in Heads
    <3>1. Dist(p)' = Dist(p) /\ Used' = Used /\ (Dist(p) < Used => ring'[p] = ring[p])
      BY <1>1, <2>3
    <3>2. Dist(p) \in Heads <=> Dist(p) < Used /\ ring[p] # data
      BY <2>3 DEF QueueShape
    <3>3. Dist(p)' \in Heads' <=> Dist(p)' < Used' /\ ring'[p] # data
      BY <2>3 DEF QueueShape
    <3>. QED  BY <3>1, <3>2, <3>3
  <2>. QED  BY <2>1, <2>2, <2>3
<1>3. ASSUME NEW i \in Heads PROVE Contents'[i] = Contents[i]
  <2>1. PICK p \in Slots : i = Dist(p)
    BY <1>3 DEF QueueShape
  <2>2. Dist(p)' = i /\ Dist(p)' \in Heads' /\ Dist(p) \in Heads
    BY <1>1, <1>2, <1>3, <2>1
  <2>3. Dist(p) < Used
    BY <2>2 DEF QueueShape
  <2>4. ring'[p] = ring[p]
    BY <1>1, <2>3
  <2>5. Contents'[Dist(p)'] = ring'[p][1] /\ Contents[Dist(p)] = ring[p][1]
    BY <2>2 DEF QueueShape
  <2>. QED  BY <2>1, <2>2, <2>4, <2>5
<1>4. IsFiniteSet(Heads) /\ Heads \subseteq Int
  BY DEF QueueShape
<1>5. InOrder(Heads, Contents') = InOrder(Heads, Contents)
  BY <1>3, <1>4, SameContents
<1>. QED  BY <1>2, <1>5 DEF Queue

(* Publish adds it at the end ...                                          *)
LEMMA PublishQueue ==
    ASSUME Positions, RingInv, WriteInv, cmd \in Packets, Publish, QueueShape, QueueShape'
    PROVE  Queue' = Append(Queue, cmd)
<1>. DEFINE n == Len_(cmd)
<1>1. /\ UNCHANGED ring /\ Used' = Used + (1 + n) /\ \A p : Dist(p)' = Dist(p)
      /\ n \in Nat /\ Used \in Int /\ s_WritePos \in Slots /\ Dist(s_WritePos) = Used
  <2>1. UNCHANGED ring /\ Used' = Used + (1 + n) /\ \A p : Dist(p)' = Dist(p)
    BY PublishEffect DEF PacketSize
  <2>2. n \in Nat
    BY PacketSizes
  <2>3. s_WritePos \in Slots /\ Used \in Slots /\ Dist(s_WritePos) = Used
    BY Distance DEF Positions, Used
  <2>4. Used \in Int
    BY <2>3 DEF Slots
  <2>. QED  BY <2>1, <2>2, <2>3, <2>4
<1>2. /\ ring[s_WritePos] = <<cmd, n>>
      /\ \A q \in Slots : Used < Dist(q) /\ Dist(q) <= Used + n => ring[q] = data
  BY DEF WriteInv, Publish
<1>3. ring[s_WritePos] # data /\ ring[s_WritePos][1] = cmd
  BY <1>2 DEF data, Packets, Commands
<1>. HIDE DEF n
<1>4. \A p \in Slots : Dist(p) \in Int
  BY Distance DEF Slots
<1>5. ASSUME NEW p \in Slots
      PROVE  Dist(p) < Used' /\ ring[p] # data <=> Dist(p) = Used \/ (Dist(p) < Used /\ ring[p] # data)
  <2>1. Dist(p) = Used => p = s_WritePos
    BY <1>1, <1>5, Distance
  <2>2. Dist(p) < Used' <=> Dist(p) < Used \/ Dist(p) = Used \/ (Used < Dist(p) /\ Dist(p) <= Used + n)
    BY <1>1, <1>4, <1>5
  <2>. QED  BY <1>1, <1>2, <1>3, <1>4, <1>5, <2>1, <2>2
<1>6. ASSUME NEW p \in Slots PROVE Dist(p) \in Heads' <=> Dist(p) = Used \/ Dist(p) \in Heads
  BY <1>1, <1>5, <1>6 DEF QueueShape
<1>7. \A i \in Heads : i \in Int /\ \E p \in Slots : i = Dist(p)
  BY DEF QueueShape
<1>8. \A i \in Heads' : \E p \in Slots : i = Dist(p)
  BY <1>1 DEF QueueShape
<1>9. Heads' = Heads \cup {Used}
  BY <1>1, <1>6, <1>7, <1>8
<1>10. ASSUME NEW i \in Heads PROVE i < Used /\ Contents'[i] = Contents[i]
  <2>1. PICK p \in Slots : i = Dist(p)
    BY <1>7
  <2>2. i \in Heads'
    BY <1>9
  <2>. QED  BY <1>1, <1>10, <2>1, <2>2 DEF QueueShape
<1>11. Contents'[Used] = cmd
  BY <1>1, <1>3, <1>9 DEF QueueShape
<1>12. IsFiniteSet(Heads) /\ Heads \subseteq Int
  BY DEF QueueShape
<1>13. InOrder(Heads \cup {Used}, Contents') = Append(InOrder(Heads, Contents'), Contents'[Used])
  BY <1>1, <1>10, <1>12, OrderAppend
<1>14. InOrder(Heads, Contents') = InOrder(Heads, Contents)
  BY <1>10, <1>12, SameContents
<1>. QED  BY <1>9, <1>11, <1>13, <1>14 DEF Queue

(* ... and AdvanceReadPos takes the first away.                            *)
LEMMA AdvanceQueue ==
    ASSUME Positions, RingInv, ReadInv, AdvanceReadPos, QueueShape, QueueShape'
    PROVE  Queue # <<>> /\ Queue' = Tail(Queue)
<1>. DEFINE R == Heads \ {0}
<1>1. /\ inc \in Nat /\ inc > 0 /\ inc <= Used /\ s_ReadPos # s_WritePos /\ ring[s_ReadPos] # data
      /\ \A q \in Slots : 0 < Dist(q) /\ Dist(q) < inc => ring[q] = data
  BY Current DEF AdvanceReadPos, GGoto
<1>2. /\ \A p \in Slots : ring'[p] = IF Dist(p) < inc THEN data ELSE ring[p]
      /\ \A p \in Slots : Dist(p)' = IF Dist(p) < inc THEN Dist(p) - inc + RingBufferSize ELSE Dist(p) - inc
      /\ Used' = Used - inc
  BY <1>1, AdvanceEffect
<1>3. /\ \A p \in Slots : Dist(p) \in Int /\ 0 <= Dist(p)
      /\ Used \in Int /\ Used < RingBufferSize /\ RingBufferSize \in Int
      /\ Dist(s_ReadPos) = 0 /\ s_ReadPos \in Slots
  <2>1. RingBufferSize \in Int /\ s_ReadPos \in Slots
    BY Constants DEF Positions
  <2>2. (\A p \in Slots : Dist(p) \in Slots) /\ Used \in Slots /\ Dist(s_ReadPos) = 0
    BY Distance, <2>1
  <2>. QED  BY <2>1, <2>2 DEF Slots
<1>4. 0 \in Heads
  BY <1>1, <1>3 DEF QueueShape
<1>5. \A i \in Heads : i \in Int /\ \E p \in Slots : i = Dist(p)
  BY DEF QueueShape
<1>6. ASSUME NEW p \in Slots PROVE Dist(p)' \in Heads' <=> Dist(p) \in R
  <2>1. Dist(p)' \in Heads' <=> Dist(p)' < Used' /\ ring'[p] # data
    BY <1>6 DEF QueueShape
  <2>2. Dist(p) \in Heads <=> Dist(p) < Used /\ ring[p] # data
    BY <1>6 DEF QueueShape
  <2>3. CASE Dist(p) < inc
    <3>1. ring'[p] = data /\ ~(Dist(p) \in R)
      BY <1>1, <1>2, <1>3, <1>6, <2>2, <2>3
    <3>. QED  BY <2>1, <3>1
  <2>4. CASE ~(Dist(p) < inc)
    <3>1. ring'[p] = ring[p] /\ Dist(p)' = Dist(p) - inc /\ Dist(p) # 0
      BY <1>1, <1>2, <1>3, <1>6, <2>4
    <3>2. Dist(p) - inc < Used - inc <=> Dist(p) < Used
      BY <1>1, <1>3, <1>6
    <3>. QED  BY <1>2, <2>1, <2>2, <3>1, <3>2
  <2>. QED  BY <2>3, <2>4
<1>7. ASSUME NEW p \in Slots, Dist(p) \in R
      PROVE  Dist(p)' = Dist(p) - inc /\ ring'[p] = ring[p] /\ 0 < Dist(p)
  <2>1. ring[p] # data /\ Dist(p) # 0
    BY <1>7 DEF QueueShape
  <2>. QED  BY <1>1, <1>2, <1>3, <1>7, <2>1
<1>8. \A i \in R : i \in Int /\ \E p \in Slots : i = Dist(p)
  BY <1>5
<1>9. \A i \in Heads' : \E p \in Slots : i = Dist(p)'
  BY DEF QueueShape
<1>. HIDE DEF R
<1>10. Heads' = {i - inc : i \in R}
  <2>1. ASSUME NEW i \in Heads' PROVE i \in {j - inc : j \in R}
    <3>1. PICK p \in Slots : i = Dist(p)'
      BY <1>9, <2>1
    <3>. QED  BY <1>6, <1>7, <2>1, <3>1
  <2>2. ASSUME NEW i \in R PROVE i - inc \in Heads'
    <3>1. PICK p \in Slots : i = Dist(p)
      BY <1>8, <2>2
    <3>. QED  BY <1>6, <1>7, <2>2, <3>1
  <2>. QED  BY <2>1, <2>2
<1>11. ASSUME NEW i \in R PROVE Contents[i] = Contents'[i - inc] /\ 0 < i
  <2>1. PICK p \in Slots : i = Dist(p)
    BY <1>8, <1>11
  <2>2. Dist(p)' = i - inc /\ ring'[p] = ring[p] /\ 0 < i /\ Dist(p)' \in Heads' /\ Dist(p) \in Heads
    BY <1>6, <1>7, <1>11, <2>1 DEF R
  <2>. QED  BY <2>1, <2>2 DEF QueueShape
<1>12. IsFiniteSet(R) /\ R \subseteq Int /\ Heads = R \cup {0}
  BY <1>4, FS_RemoveElement DEF QueueShape, R
<1>13. InOrder(Heads', Contents') = InOrder(R, Contents)
  <2>1. inc \in Int /\ \A x \in R : Contents[x] = Contents'[x - inc]
    BY <1>1, <1>11
  <2>2. Shifted(R, Contents, Heads', Contents', inc)
    BY <1>10, <1>12, <2>1 DEF Shifted
  <2>. QED  BY <2>2, OrderShift
<1>14. InOrder(Heads, Contents) # <<>> /\ InOrder(R, Contents) = Tail(InOrder(Heads, Contents))
  <2>1. 0 \in Int /\ \A x \in R : 0 < x
    BY <1>11
  <2>2. Preceded(R, 0, Heads)
    BY <1>12, <2>1 DEF Preceded
  <2>. QED  BY <2>2, OrderTail
<1>. QED  BY <1>13, <1>14 DEF Queue

(* The ring between the EE thread and the GS thread is the queue of        *)
(* commands it stands for, whatever the sizes of the ring and its packets: *)
(* GenericStall, the order of WritePacket and Publish, and the step of     *)
(* MainLoop from tag to tag implement it, and only a hardware reset or the *)
(* end of MainLoop drops anything.  That lasts until a reset finds the GS  *)
(* thread inside a packet that was queued since the reset's WaitGS.        *)
THEOREM RingIsQueue == Spec => ChannelSpec
<1>. DEFINE queue == IF torn THEN <<>> ELSE Queue
<1>. DEFINE Dropping == epc = "reset_gs" \/ gpc = "leave"
            Step(q, r) == \/ r = q
                          \/ Dropping /\ r = <<>>
                          \/ q # <<>> /\ r = Tail(q)
                          \/ \E c \in Packets : r = Append(q, c)
<1>1. Init => queue = <<>>
  <2>1. Init => IInv /\ s_ReadPos = s_WritePos /\ ~torn
    BY InitIInv DEF Init
  <2>. QED  BY <2>1, EmptyQueue DEF IInv
<1>2. ASSUME IInv, IInv', [Next]_vars, ~torn, ~torn'
      PROVE  Step(Queue, Queue')
  <2>. USE DEF Intact, ringbuf, signal, frames, event, lifecycle, ee, gsthread
  <2>1. QueueShape /\ QueueShape'
    <3>1. (Positions /\ RingInv => QueueShape)'
      BY Shape, PTL
    <3>. QED  BY <1>2, <3>1, Shape DEF IInv
  <2>2. Positions /\ RingInv /\ WriteInv /\ ReadInv /\ (epc \in {"write", "publish"} => cmd \in Packets)
    BY <1>2 DEF IInv, SemaInv, Sending
  <2>3. CASE WritePacket
    BY <2>1, <2>2, <2>3, WriteQueue DEF WritePacket, EGoto
  <2>4. CASE Publish
    <3>1. cmd \in Packets
      BY <2>2, <2>4 DEF Publish
    <3>2. Queue' = Append(Queue, cmd)
      BY <2>1, <2>2, <2>4, <3>1, PublishQueue
    <3>. QED  BY <3>1, <3>2
  <2>5. CASE AdvanceReadPos
    BY <2>1, <2>2, <2>5, AdvanceQueue
  <2>6. CASE ResetGS \/ LeaveMainLoop
    <3>1. epc = "reset_gs" \/ gpc = "leave"
      BY <2>6 DEF ResetGS, LeaveMainLoop, EGoto, GGoto
    <3>2. (Positions /\ s_ReadPos = s_WritePos => Queue = <<>>)'
      BY EmptyQueue, PTL
    <3>3. Positions' /\ s_ReadPos' = s_WritePos'
      BY <1>2, <2>6 DEF IInv, ResetGS, LeaveMainLoop
    <3>4. Queue' = <<>>
      BY <3>2, <3>3
    <3>. QED  BY <3>1, <3>4
  <2>7. CASE UNCHANGED ringbuf
    BY <2>7, UnchangedQueue
  <2>8. Next /\ ~(WritePacket \/ Publish \/ AdvanceReadPos \/ ResetGS \/ LeaveMainLoop) => UNCHANGED ringbuf
    <3>1. (\E c \in {"gs", "fifo", "vsync"} : BeginPacket(c)) \/ WaitGS \/ WaitForOpen \/ WaitForClose
            => UNCHANGED ringbuf
      BY DEF BeginPacket, WaitGS, WaitForOpen, WaitForClose
    <3>2. WaitForWork("closed_wait", "closed") \/ WaitForWork("wait", "check") \/ ShutdownThread
            => UNCHANGED ringbuf
      BY DEF WaitForWork, ShutdownThread
    <3>3. GenericStall \/ StallEnable \/ StallKick \/ StallWake \/ StallRecheck \/ Notify => UNCHANGED ringbuf
      BY DEF GenericStall, StallEnable, StallKick, StallWake, StallRecheck, Notify
    <3>4. WaitForEmpty \/ Synced \/ CountVsync \/ ListenVsync \/ WaitVsync => UNCHANGED ringbuf
      BY DEF WaitForEmpty, Synced, CountVsync, ListenVsync, WaitVsync
    <3>5. LifecycleNotify \/ LifecycleDone \/ Joined \/ ThreadEntryPoint \/ OpenGS => UNCHANGED ringbuf
      BY DEF LifecycleNotify, LifecycleDone, Joined, ThreadEntryPoint, OpenGS
    <3>6. CheckOpen \/ ReadPacket \/ VsyncDone \/ SignalRing => UNCHANGED ringbuf
      BY DEF CheckOpen, ReadPacket, VsyncDone, SignalRing
    <3>7. RingValve \/ VsyncValve \/ CloseGS => UNCHANGED ringbuf
      BY DEF RingValve, VsyncValve, CloseGS
    <3>. QED
      BY <3>1, <3>2, <3>3, <3>4, <3>5, <3>6, <3>7, Zenon DEF Next, EECall, EEStep, GSStep
  <2>. QED
    BY <1>2, <2>3, <2>4, <2>5, <2>6, <2>7, <2>8, Zenon DEF vars
<1>3. ASSUME [Next]_vars, ~torn, torn' PROVE Dropping
  <2>. USE DEF ringbuf, signal, frames, event, lifecycle, ee, gsthread
  <2>1. ASSUME ResetGS PROVE Dropping
    BY <2>1 DEF ResetGS, EGoto
  <2>2. Next => ResetGS \/ torn' = torn
    <3>1. (\E c \in {"gs", "fifo", "vsync"} : BeginPacket(c)) \/ WaitGS \/ WaitForOpen \/ WaitForClose
            => torn' = torn
      BY DEF BeginPacket, WaitGS, WaitForOpen, WaitForClose
    <3>2. WaitForWork("closed_wait", "closed") \/ WaitForWork("wait", "check") \/ ShutdownThread
            => torn' = torn
      BY DEF WaitForWork, ShutdownThread
    <3>3. GenericStall \/ StallEnable \/ StallKick \/ StallWake \/ StallRecheck \/ Notify => torn' = torn
      BY DEF GenericStall, StallEnable, StallKick, StallWake, StallRecheck, Notify
    <3>4. WritePacket \/ Publish \/ WaitForEmpty \/ Synced \/ CountVsync \/ ListenVsync \/ WaitVsync
            => torn' = torn
      BY DEF WritePacket, Publish, WaitForEmpty, Synced, CountVsync, ListenVsync, WaitVsync
    <3>5. LifecycleNotify \/ LifecycleDone \/ Joined \/ ThreadEntryPoint \/ OpenGS => torn' = torn
      BY DEF LifecycleNotify, LifecycleDone, Joined, ThreadEntryPoint, OpenGS
    <3>6. CheckOpen \/ ReadPacket \/ VsyncDone \/ AdvanceReadPos \/ SignalRing => torn' = torn
      BY DEF CheckOpen, ReadPacket, VsyncDone, AdvanceReadPos, SignalRing
    <3>7. RingValve \/ VsyncValve \/ LeaveMainLoop \/ CloseGS => torn' = torn
      BY DEF RingValve, VsyncValve, LeaveMainLoop, CloseGS
    <3>. QED
      BY <3>1, <3>2, <3>3, <3>4, <3>5, <3>6, <3>7, Zenon DEF Next, EECall, EEStep, GSStep
  <2>. QED  BY <1>3, <2>1, <2>2 DEF vars
<1>4. ASSUME IInv, IInv', [Next]_vars PROVE Step(queue, queue')
  <2>1. CASE ~torn'
    <3>1. ~torn
      BY <1>4, <2>1, TornForever
    <3>. QED  BY <1>2, <1>4, <2>1, <3>1
  <2>2. CASE torn'
    <3>1. queue' = <<>>
      BY <2>2
    <3>2. queue = <<>> \/ Dropping
      BY <1>3, <1>4, <2>2
    <3>. QED  BY <3>1, <3>2
  <2>. QED  BY <2>1, <2>2
<1>5. ASSUME IInv, IInv', [Next]_vars PROVE [Channel!Next]_queue
  <2>1. Step(queue, queue')
    BY <1>4, <1>5
  <2>. QED  BY <2>1 DEF Channel!Next, Channel!Clear, Channel!Take, Channel!Send, Packets
<1>. QED
  BY <1>1, <1>5, AlwaysIInv, PTL DEF Spec, ChannelSpec, Channel!Spec, Channel!Init

=============================================================================
