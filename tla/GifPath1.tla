------------------------------ MODULE GifPath1 ------------------------------
(***************************************************************************)
(* GIF path 1 with the VU on its own thread (pcsx2/Gif_Unit.h, MTGS.cpp).  *)
(* Three threads share it.  The VU thread copies what a program kicks into *)
(* the path's buffer and, at the end of the program, queues one GS packet  *)
(* for all of it and posts semaXGkick.  The EE thread, for each program it *)
(* starts, sends the GS thread a packet that only says "the next path 1    *)
(* packet belongs here".  The GS thread waits on semaXGkick for it, draws  *)
(* the packet out of the buffer, and gives the space back.                 *)
(*                                                                         *)
(* Sizes are in quadwords; what the quadwords are is left out, where they  *)
(* are is not.  A kick is a complete GIF packet.  The VU ring is module    *)
(* MTVU, here the number of programs in it; the GS ring is module MTGS,    *)
(* here the number of path 1 packets in it and what its semaphore says.    *)
(* SIGNALs in the packets are module MTVUInterrupts.                       *)
(***************************************************************************)
EXTENDS Integers, Sequences

CONSTANTS
    buffSize, buffLimit,   \* quadwords of the buffer, and where a new packet goes back to its start
    KickSizes,             \* quadwords of a kick
    ProgramLimit,          \* bound: quadwords one program kicks
    MaxPrograms,           \* bound: programs whose packet the GS thread has not drawn
    MaxPosts               \* bound: posts of semaXGkick left over when the VM is reset

ASSUME BufferAssumption == {buffSize, buffLimit, ProgramLimit, MaxPrograms, MaxPosts} \subseteq Nat /\ buffLimit < buffSize
ASSUME KickAssumption == KickSizes \subseteq 1 .. ProgramLimit /\ 2 * ProgramLimit <= buffLimit

VARIABLES
    readAmount, gsPackQueue, semaXGkick,   \* what the VU and the GS thread share
    curSize, curOffset, gsPack,            \* the VU thread's end of the buffer and its open packet
    fakePackets, stalled,                  \* packets the EE has still to send, and whether the GIF may send
    ring, s_sem_event, busy2,              \* the GS ring, its semaphore, s_mtx_RingBufferBusy2
    programs,                              \* programs in the VU ring, the running one included
    epc, vpc, gpc,
    kick, back, startP1Packs,              \* the VU thread: its kick, where its wait returns to, and since when
    excess                                 \* ghost: posts of semaXGkick whose packets a reset dropped

shared == <<readAmount, gsPackQueue, semaXGkick>>
path   == <<curSize, curOffset, gsPack>>
gif    == <<fakePackets, stalled>>
mtgs   == <<ring, s_sem_event, busy2>>
locals == <<kick, back, startP1Packs, excess>>

vars == <<shared, path, gif, mtgs, programs, epc, vpc, gpc, locals>>

(* The buffer is used from offset on.  A GS packet also remembers the      *)
(* quadwords it left unused at the end of the buffer.                      *)
GSPacket(offset) == [offset |-> offset, size |-> 0, readAmount |-> 0]

Init ==
    /\ readAmount = 0 /\ gsPackQueue = <<>> /\ semaXGkick = 0
    /\ curSize = 0 /\ curOffset = 0 /\ gsPack = GSPacket(0)
    /\ fakePackets = 0 /\ stalled = FALSE
    /\ ring = 0 /\ s_sem_event = "idle" /\ busy2 = "gs"
    /\ programs = 0
    /\ epc = "idle" /\ vpc = "idle" /\ gpc = "loop"
    /\ kick = 0 /\ back = "idle" /\ startP1Packs = 0 /\ excess = 0

SetEvent == s_sem_event' = "work"

-----------------------------------------------------------------------------
(* The VU thread.                                                          *)

VGoto(here, there) == vpc = here /\ vpc' = there

StartProgram ==
    /\ VGoto("idle", "run") /\ programs > 0
    /\ UNCHANGED <<shared, path, gif, mtgs, programs, epc, gpc, locals>>

getReadAmount == readAmount + gsPack.readAmount

(* An XGKICK: CopyGSPacketData, which begins with a realignment when the   *)
(* kick does not fit behind curSize.                                       *)
XGkick(k) ==
    /\ vpc = "run" /\ gsPack.size + k <= ProgramLimit
    /\ vpc' = IF curSize + k > buffSize THEN "realign" ELSE "room"
    /\ back' = IF curSize + k > buffSize THEN "room" ELSE "run"
    /\ kick' = k
    /\ UNCHANGED <<shared, path, gif, mtgs, programs, epc, gpc, startP1Packs, excess>>

(* Mutant: the open packet is moved without a look at the GS thread.       *)
RealignAtOnce ==
    /\ vpc = "realign"
    /\ LET offset == curOffset - gsPack.size
       IN  /\ gsPack' = [gsPack EXCEPT
                           !.offset = 0,
                           !.readAmount = @ + (IF offset < buffLimit THEN buffLimit - offset ELSE 0)]
           /\ curSize' = curSize - offset
           /\ curOffset' = gsPack.size
           /\ vpc' = back
    /\ UNCHANGED <<shared, gif, mtgs, programs, epc, gpc, locals>>

(* RealignPacket moves the open packet to the start of the buffer once     *)
(* there is room; the part of it that its own move frees does not count.   *)
RealignPacket ==
    /\ vpc = "realign"
    /\ LET offset    == curOffset - gsPack.size
           sizeToAdd == curSize - offset
           intersect == IF sizeToAdd > offset THEN sizeToAdd - offset ELSE 0
       IN  IF offset - getReadAmount >= sizeToAdd - intersect
             THEN /\ gsPack' = [gsPack EXCEPT
                                  !.offset = 0,
                                  !.readAmount = @ + (IF offset < buffLimit THEN buffLimit - offset ELSE 0)]
                  /\ curSize' = curSize - offset
                  /\ curOffset' = gsPack.size
                  /\ vpc' = back
             ELSE vpc' = "realign_wait" /\ UNCHANGED path
    /\ UNCHANGED <<shared, gif, mtgs, programs, epc, gpc, locals>>

HasRoom ==
    LET readPos == (curOffset - gsPack.size) - getReadAmount
    IN  readPos >= 0 \/ buffLimit + readPos > curSize + kick

(* The copy, once the GS thread is not in its way, and the first step of   *)
(* ExecuteGSPacketMTVU: a packet that begins behind buffLimit is moved.    *)
CopyGSPacketData ==
    /\ vpc = "room"
    /\ IF HasRoom THEN /\ curSize' = curSize + kick
                       /\ vpc' = IF curOffset > buffLimit THEN "realign" ELSE "execute"
                       /\ back' = "execute"
                  ELSE /\ vpc' = "room_wait"
                       /\ UNCHANGED <<curSize, back>>
    /\ UNCHANGED <<shared, curOffset, gsPack, gif, mtgs, programs, epc, gpc, kick, startP1Packs, excess>>

ExecuteGSPacketMTVU ==
    /\ VGoto("execute", "run")
    /\ curOffset' = curOffset + kick
    /\ gsPack' = [gsPack EXCEPT !.size = @ + kick]
    /\ kick' = 0 /\ back' = "idle"
    /\ UNCHANGED <<shared, curSize, gif, mtgs, programs, epc, gpc, startP1Packs, excess>>

(* mtgsReadWait: WaitGS with weakWait and isMTVU.                          *)
WeakWait ==
    /\ vpc \in {"realign_wait", "room_wait"}
    /\ SetEvent
    /\ startP1Packs' = Len(gsPackQueue)
    /\ vpc' = IF gsPackQueue = <<>> THEN (IF vpc = "room_wait" THEN "room" ELSE "realign")
                                    ELSE (IF vpc = "room_wait" THEN "room_lock" ELSE "realign_lock")
    /\ UNCHANGED <<shared, path, gif, ring, busy2, programs, epc, gpc, kick, back, excess>>

(* The mutex is locked and unlocked until a path 1 packet was done.        *)
WeakWaitLoop ==
    /\ vpc \in {"realign_lock", "room_lock"} /\ busy2 = "none"
    /\ Len(gsPackQueue) # startP1Packs
    /\ vpc' = IF vpc = "room_lock" THEN "room" ELSE "realign"
    /\ startP1Packs' = 0
    /\ UNCHANGED <<shared, path, gif, mtgs, programs, epc, gpc, kick, back, excess>>

(* The end of the program: FinishGSPacketMTVU and semaXGkick.Post.         *)
FinishAdd ==
    /\ VGoto("run", "push")
    /\ readAmount' = readAmount + gsPack.size + gsPack.readAmount
    /\ UNCHANGED <<gsPackQueue, semaXGkick, path, gif, mtgs, programs, epc, gpc, locals>>

FinishPush ==
    /\ VGoto("push", "post")
    /\ gsPackQueue' = Append(gsPackQueue, gsPack)
    /\ gsPack' = GSPacket(curOffset)
    /\ UNCHANGED <<readAmount, semaXGkick, curSize, curOffset, gif, mtgs, programs, epc, gpc, locals>>

FinishPost ==
    /\ VGoto("post", "idle")
    /\ semaXGkick' = semaXGkick + 1
    /\ programs' = programs - 1
    /\ UNCHANGED <<readAmount, gsPackQueue, path, gif, mtgs, epc, gpc, locals>>

-----------------------------------------------------------------------------
(* The EE thread.                                                          *)

EGoto(here, there) == epc = here /\ epc' = there

(* ExecuteVU: the program is in the VU ring, then it is counted ...        *)
ExecuteVU ==
    /\ EGoto("idle", "transfer") /\ fakePackets + ring < MaxPrograms
    /\ programs' = programs + 1
    /\ UNCHANGED <<shared, path, gif, mtgs, vpc, gpc, locals>>

(* Mutant: a stalled GIF does not count the program.                       *)
TransferUnlessStalled ==
    /\ EGoto("transfer", "gif")
    /\ fakePackets' = fakePackets + (IF stalled THEN 0 ELSE 1)
    /\ UNCHANGED <<shared, path, stalled, mtgs, programs, vpc, gpc, locals>>

TransferGSPacketData ==
    /\ EGoto("transfer", "gif")
    /\ fakePackets' = fakePackets + 1
    /\ UNCHANGED <<shared, path, stalled, mtgs, programs, vpc, gpc, locals>>

(* ... and Gif_Unit::Execute sends a packet for it, unless the GIF is      *)
(* stalled: a SIGNAL is queued, the GIF is paused, another path is active. *)
GifExecute ==
    /\ epc = "gif"
    /\ IF stalled \/ fakePackets = 0
         THEN epc' = "idle" /\ UNCHANGED <<fakePackets, ring>>
         ELSE fakePackets' = fakePackets - 1 /\ ring' = ring + 1 /\ UNCHANGED epc
    /\ UNCHANGED <<shared, path, stalled, s_sem_event, busy2, programs, vpc, gpc, locals>>

(* The GIF stalls, or goes on with what was held back.                     *)
GifStall ==
    /\ epc = "idle"
    /\ stalled' = ~stalled
    /\ epc' = IF stalled THEN "gif" ELSE "idle"
    /\ UNCHANGED <<shared, path, fakePackets, mtgs, programs, vpc, gpc, locals>>

(* A vsync announces what is in the GS ring.                               *)
Vsync ==
    /\ epc = "idle"
    /\ SetEvent
    /\ UNCHANGED <<shared, path, gif, ring, busy2, programs, epc, vpc, gpc, locals>>

(* A state is saved or loaded, or the VM reset: WaitVU, then WaitGS.       *)
WaitVU ==
    /\ EGoto("idle", "wait_vu")
    /\ UNCHANGED <<shared, path, gif, mtgs, programs, vpc, gpc, locals>>

WaitGS ==
    /\ EGoto("wait_vu", "wait_gs") /\ programs = 0
    /\ SetEvent
    /\ UNCHANGED <<shared, path, gif, ring, busy2, programs, vpc, gpc, locals>>

WaitForEmpty ==
    /\ EGoto("wait_gs", "synced") /\ s_sem_event = "sleep"
    /\ UNCHANGED <<shared, path, gif, mtgs, programs, vpc, gpc, locals>>

Synced ==
    /\ EGoto("synced", "idle")
    /\ UNCHANGED <<shared, path, gif, mtgs, programs, vpc, gpc, locals>>

(* hwReset: Gif_Unit::Reset.  semaXGkick is not reset, also not when the   *)
(* GIF has held packets back that are dropped here.                        *)
Reset ==
    /\ EGoto("synced", "idle") /\ semaXGkick <= MaxPosts
    /\ excess' = semaXGkick
    /\ gsPackQueue' = <<>> /\ readAmount' = 0
    /\ curSize' = 0 /\ curOffset' = 0 /\ gsPack' = GSPacket(0)
    /\ fakePackets' = 0 /\ stalled' = FALSE
    /\ UNCHANGED <<semaXGkick, mtgs, programs, vpc, gpc, kick, back, startP1Packs>>

-----------------------------------------------------------------------------
(* The GS thread, which holds s_mtx_RingBufferBusy2 unless it sleeps.      *)

GGoto(here, there) == gpc = here /\ gpc' = there

GSSleep ==
    /\ GGoto("loop", "sleep") /\ ring = 0
    /\ busy2' = "none"
    /\ UNCHANGED <<shared, path, gif, ring, s_sem_event, programs, epc, vpc, locals>>

WaitForWork ==
    /\ gpc = "sleep"
    /\ \/ s_sem_event = "idle" /\ s_sem_event' = "sleep" /\ UNCHANGED gpc
       \/ s_sem_event = "work" /\ s_sem_event' = "idle" /\ gpc' = "relock"
    /\ UNCHANGED <<shared, path, gif, ring, busy2, programs, epc, vpc, locals>>

Relock ==
    /\ GGoto("relock", "loop") \/ GGoto("relock_get", "get")
    /\ busy2' = "gs"
    /\ UNCHANGED <<shared, path, gif, ring, s_sem_event, programs, epc, vpc, locals>>

(* Mutant: the mutex is kept while the thread waits for the program.       *)
TryWaitLocked ==
    /\ gpc = "loop" /\ ring > 0 /\ semaXGkick > 0
    /\ gpc' = "get"
    /\ semaXGkick' = semaXGkick - 1
    /\ UNCHANGED <<readAmount, gsPackQueue, path, gif, mtgs, programs, epc, vpc, locals>>

(* MTVUGSPacket: semaXGkick.TryWait, or Wait without the mutex.            *)
TryWait ==
    /\ gpc = "loop" /\ ring > 0
    /\ IF semaXGkick > 0 THEN gpc' = "get" /\ semaXGkick' = semaXGkick - 1 /\ UNCHANGED busy2
                         ELSE gpc' = "xgkick" /\ busy2' = "none" /\ UNCHANGED semaXGkick
    /\ UNCHANGED <<readAmount, gsPackQueue, path, gif, ring, s_sem_event, programs, epc, vpc, locals>>

WaitXGkick ==
    /\ GGoto("xgkick", "relock_get") /\ semaXGkick > 0
    /\ semaXGkick' = semaXGkick - 1
    /\ UNCHANGED <<readAmount, gsPackQueue, path, gif, mtgs, programs, epc, vpc, locals>>

(* Mutant: the space left unused at the end of the buffer is not given     *)
(* back.                                                                   *)
TransferSizeOnly ==
    /\ \/ gpc = "get" /\ gpc' = (IF gsPackQueue = <<>> THEN "failed" ELSE "transfer") /\ UNCHANGED readAmount
       \/ GGoto("transfer", "pop") /\ readAmount' = readAmount - gsPackQueue[1].size
    /\ UNCHANGED <<gsPackQueue, semaXGkick, path, gif, mtgs, programs, epc, vpc, locals>>

(* GetGSPacketMTVU and GSgifTransfer, then the space is given back.  With  *)
(* no packet there GetGSPacketMTVU fails its assertion, and what the GS    *)
(* thread does after that is not followed.                                 *)
Transfer ==
    /\ \/ gpc = "get" /\ gpc' = (IF gsPackQueue = <<>> THEN "failed" ELSE "transfer") /\ UNCHANGED readAmount
       \/ /\ GGoto("transfer", "pop")
          /\ readAmount' = readAmount - gsPackQueue[1].size - gsPackQueue[1].readAmount
    /\ UNCHANGED <<gsPackQueue, semaXGkick, path, gif, mtgs, programs, epc, vpc, locals>>

PopGSPacketMTVU ==
    /\ GGoto("pop", "loop")
    /\ gsPackQueue' = Tail(gsPackQueue)
    /\ ring' = ring - 1
    /\ UNCHANGED <<readAmount, semaXGkick, path, gif, s_sem_event, busy2, programs, epc, vpc, locals>>

-----------------------------------------------------------------------------
VUStep ==
    \/ StartProgram \/ (\E k \in KickSizes : XGkick(k)) \/ RealignPacket \/ CopyGSPacketData
    \/ ExecuteGSPacketMTVU \/ WeakWait \/ WeakWaitLoop \/ FinishAdd \/ FinishPush \/ FinishPost

EECall == ExecuteVU \/ GifStall \/ Vsync \/ WaitVU

EEStep == TransferGSPacketData \/ GifExecute \/ WaitGS \/ WaitForEmpty \/ Synced \/ Reset

GSStep ==
    GSSleep \/ WaitForWork \/ Relock \/ TryWait \/ WaitXGkick \/ Transfer \/ PopGSPacketMTVU

Next == VUStep \/ EECall \/ EEStep \/ GSStep

Spec == Init /\ [][Next]_vars

(* The three threads are scheduled.  A mutex that the GS thread releases   *)
(* again and again is got in the end, a program ends, and an EE thread     *)
(* that goes on comes to its next vsync.                                   *)
FairSpec ==
    /\ Spec
    /\ WF_vars(VUStep) /\ SF_vars(WeakWaitLoop) /\ SF_vars(FinishAdd)
    /\ WF_vars(EEStep) /\ SF_vars(Vsync) /\ WF_vars(GSStep)

-----------------------------------------------------------------------------
(* The quadwords of a packet in the buffer.                                *)
Quadwords(p) == p.offset .. p.offset + p.size - 1

(* The packets whose quadwords the GS thread has still to draw.            *)
Undrawn == (IF gpc = "pop" THEN 2 ELSE 1) .. Len(gsPackQueue)

(* The types.  readAmount is never negative.                               *)
TypeOK ==
    /\ {readAmount, semaXGkick, fakePackets, ring, programs, kick, startP1Packs, excess} \subseteq Nat
    /\ curSize \in 0 .. buffSize /\ curOffset \in 0 .. buffSize
    /\ gsPackQueue \in Seq([offset : 0 .. buffSize, size : 0 .. ProgramLimit, readAmount : 0 .. buffLimit])
    /\ gsPack \in [offset : 0 .. buffSize, size : 0 .. ProgramLimit, readAmount : 0 .. buffLimit]
    /\ stalled \in BOOLEAN /\ s_sem_event \in {"idle", "work", "sleep"} /\ busy2 \in {"gs", "none"}
    /\ epc \in {"idle", "transfer", "gif", "wait_vu", "wait_gs", "synced"}
    /\ vpc \in {"idle", "run", "realign", "room", "execute", "realign_wait", "room_wait",
                "realign_lock", "room_lock", "push", "post"}
    /\ gpc \in {"loop", "sleep", "relock", "relock_get", "xgkick", "get", "transfer", "pop", "failed"}
    /\ back \in {"idle", "run", "room", "execute"}

(* The buffer is shared without a copy and without a lock.  No quadword    *)
(* the GS thread has still to draw is written again: not by another        *)
(* packet, not by the open one, and not by the move to the start.  And     *)
(* every offset and size stays in its range.                               *)
BufferIntact ==
    /\ TypeOK
    /\ gpc # "failed" =>
         /\ \A i, j \in Undrawn : i # j => Quadwords(gsPackQueue[i]) \cap Quadwords(gsPackQueue[j]) = {}
         /\ vpc # "post" /\ vpc # "push" =>
              \A i \in Undrawn : Quadwords(gsPackQueue[i]) \cap (gsPack.offset .. curSize - 1) = {}

(* One packet per program: what the EE has counted, sent or has still to   *)
(* count is what the VU has queued or has still to run.  When the GS       *)
(* thread has got semaXGkick, the packet of that program is there          *)
(* ("Expected gsPackQueue to have elements!"), unless a reset has dropped  *)
(* packets that were held back, and left their posts behind.               *)
OnePacketPerProgram ==
    /\ gpc # "failed" =>
         fakePackets + ring + (IF epc = "transfer" THEN 1 ELSE 0)
           = Len(gsPackQueue) + programs - (IF vpc = "post" THEN 1 ELSE 0)
    /\ gpc = "failed" \/ (gpc \in {"get", "transfer", "pop", "relock_get"} /\ gsPackQueue = <<>>) => excess > 0

(* When a state is saved the assertions of gifPathFreeze hold just when    *)
(* the GIF holds no packet back: what the GS thread has not read are the   *)
(* packets of these programs and no others.                                *)
QuietWhenSynced ==
    epc = "synced" =>
        /\ gsPack.readAmount = 0 /\ Len(gsPackQueue) = fakePackets
        /\ fakePackets = 0 => readAmount = 0

(* The wait of the VU thread for room ends, although the GS thread may be  *)
(* asleep or wait for a program itself, provided that the GIF does not     *)
(* hold back path 1 packets for ever and the EE thread is not blocked.     *)
RoomIsFound ==
    []<>(epc = "idle" /\ ~stalled) =>
        (vpc \in {"realign_wait", "room_wait"} ~> vpc \in {"execute", "run"} \/ gpc = "failed")

=============================================================================
