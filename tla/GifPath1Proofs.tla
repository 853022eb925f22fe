--------------------------- MODULE GifPath1Proofs ---------------------------
(***************************************************************************)
(* Proofs about module GifPath1, for every buffer, every set of kicks of   *)
(* at most half of it, any number of programs and every reset: a packet    *)
(* per program, nothing but held packets unread when the threads are       *)
(* synced, and no quadword written again before it is drawn.               *)
(***************************************************************************)
EXTENDS GifPath1, TLAPS

(* The constants one by one.                                               *)
LEMMA Constants ==
    /\ buffSize \in Nat /\ buffLimit \in Nat /\ ProgramLimit \in Nat /\ MaxPrograms \in Nat
    /\ buffLimit < buffSize /\ 2 * ProgramLimit <= buffLimit
    /\ \A k \in KickSizes : k \in Nat /\ k > 0 /\ k <= ProgramLimit
BY BufferAssumption, KickAssumption

-----------------------------------------------------------------------------
(* The types, in groups.                                                   *)

Packets == [offset : 0 .. buffSize, size : 0 .. ProgramLimit, readAmount : 0 .. buffLimit]

Counters ==
    /\ semaXGkick \in Nat /\ fakePackets \in Nat /\ ring \in Nat /\ programs \in Nat
    /\ kick \in Nat /\ startP1Packs \in Nat /\ excess \in Nat

Places ==
    /\ stalled \in BOOLEAN /\ s_sem_event \in {"idle", "work", "sleep"} /\ busy2 \in {"gs", "none"}
    /\ epc \in {"idle", "transfer", "gif", "wait_vu", "wait_gs", "synced"}
    /\ vpc \in {"idle", "run", "realign", "room", "execute", "realign_wait", "room_wait",
                "realign_lock", "room_lock", "push", "post"}
    /\ gpc \in {"loop", "sleep", "relock", "relock_get", "xgkick", "get", "transfer", "pop", "failed"}
    /\ back \in {"idle", "run", "room", "execute"}

Buffer ==
    /\ curSize \in 0 .. buffSize /\ curOffset \in 0 .. buffSize
    /\ gsPackQueue \in Seq(Packets) /\ gsPack \in Packets

-----------------------------------------------------------------------------
Posting == IF vpc = "post" THEN 1 ELSE 0
Taken   == IF gpc \in {"relock_get", "get", "transfer", "pop", "failed"} THEN 1 ELSE 0

(* A program is in the VU ring while it runs; it is accounted for once by  *)
(* the EE thread and once by the VU thread; and a packet is queued before  *)
(* semaXGkick is posted and popped after it was waited for.                *)
CountInv ==
    /\ vpc # "idle" => programs > 0
    /\ gpc \in {"xgkick", "relock_get", "get", "transfer", "pop", "failed"} => ring > 0
    /\ gpc \in {"transfer", "pop"} => Len(gsPackQueue) > 0
    /\ gpc = "failed" => excess > 0
    /\ fakePackets + ring + (IF epc = "transfer" THEN 1 ELSE 0) = Len(gsPackQueue) + programs - Posting
    /\ semaXGkick + Taken = Len(gsPackQueue) - Posting + excess

(* The EE thread that has waited for both threads finds them idle: what    *)
(* the GS thread's semaphore says is about everything the EE has sent.     *)
SyncInv ==
    /\ s_sem_event = "sleep" => gpc = "sleep"
    /\ epc \in {"wait_gs", "synced"} =>
          programs = 0 /\ (gpc = "sleep" /\ s_sem_event # "work" => ring = 0)
    /\ epc = "synced" => s_sem_event = "sleep"

(* The open packet: it lies before curOffset, the kick that is being       *)
(* copied before curSize, and it is moved to the start at most once.       *)
InRoom    == vpc \in {"room", "room_wait", "room_lock"}
InRealign == vpc \in {"realign", "realign_wait", "realign_lock"}

PathInv ==
    /\ gsPack.offset + gsPack.size = curOffset
    /\ gsPack.readAmount > 0 => gsPack.offset = 0
    /\ vpc \in {"idle", "run", "push", "post"} => curSize = curOffset
    /\ vpc \in {"idle", "post"} => gsPack.size = 0 /\ gsPack.readAmount = 0
    /\ InRoom \/ InRealign \/ vpc = "execute" => gsPack.size + kick <= ProgramLimit
    /\ InRoom => curSize = curOffset /\ curSize + kick <= buffSize
    /\ InRealign => /\ gsPack.offset > 0
                    /\ \/ back = "room" /\ curSize = curOffset
                       \/ back = "execute" /\ curSize = curOffset + kick
    /\ vpc = "execute" => curSize = curOffset + kick

-----------------------------------------------------------------------------
(* The packets on a tape without an end: a packet takes the quadwords it   *)
(* left unused, then its own.  pos[i] is where packet i begins on it, and  *)
(* the last position is that of the open packet.  It is a witness, so that *)
(* sums over the queue need no recursion.                                  *)
Total(p) == p.size + p.readAmount

Last  == Len(gsPackQueue) + 1
First == IF gpc = "pop" THEN 2 ELSE 1

OnTape(pos) ==
    /\ pos \in [1 .. Last -> Int]
    /\ \A i \in 1 .. Len(gsPackQueue) : pos[i + 1] = pos[i] + Total(gsPackQueue[i])
    /\ \A i, j \in 1 .. Last : i < j => pos[i] + Total(gsPackQueue[i]) <= pos[j]
    /\ readAmount = pos[Last] - pos[First] + (IF vpc = "push" THEN Total(gsPack) ELSE 0)

(* How far behind the open packet, on the tape, the quadwords of packet i  *)
(* begin.  In the buffer they begin so far behind it, or, if the packets   *)
(* have gone back to the start since, not before the place a buffer of     *)
(* buffLimit quadwords would have for them.                                *)
Behind(pos, i) == pos[Last] - pos[i] - gsPackQueue[i].readAmount + gsPack.readAmount

Placed(pos, i) ==
    \/ gsPackQueue[i].offset = gsPack.offset - Behind(pos, i)
    \/ /\ Behind(pos, i) >= gsPack.offset + gsPackQueue[i].size
       /\ gsPackQueue[i].offset >= buffLimit + gsPack.offset - Behind(pos, i)

TapeInv == \E pos \in [1 .. Last -> Int] : OnTape(pos) /\ \A i \in Undrawn : Placed(pos, i)

(* No quadword of p lies in from .. to - 1.                                *)
Clear(p, from, to) == p.size = 0 \/ p.offset + p.size <= from \/ to <= p.offset

ClearInv ==
    /\ \A i, j \in Undrawn :
          i < j => Clear(gsPackQueue[i], gsPackQueue[j].offset, gsPackQueue[j].offset + gsPackQueue[j].size)
    /\ \A i \in Undrawn : Clear(gsPackQueue[i], gsPack.offset, curSize)

-----------------------------------------------------------------------------
(* The places of the threads.                                              *)
LEMMA NextPlaces ==
    ASSUME Places, [Next]_vars
    PROVE  Places'
<1>. USE DEF Places, shared, path, gif, mtgs, locals, SetEvent, VGoto, EGoto, GGoto
<1>1. ASSUME NEW k \in KickSizes, XGkick(k)
     PROVE  Places'
  BY <1>1 DEF XGkick
<1>2. CASE StartProgram \/ RealignPacket \/ CopyGSPacketData \/ ExecuteGSPacketMTVU \/ WeakWait
  BY <1>2 DEF StartProgram, RealignPacket, CopyGSPacketData, ExecuteGSPacketMTVU, WeakWait
<1>3. CASE WeakWaitLoop \/ FinishAdd \/ FinishPush \/ FinishPost \/ ExecuteVU
  BY <1>3 DEF WeakWaitLoop, FinishAdd, FinishPush, FinishPost, ExecuteVU
<1>4. CASE GifStall \/ Vsync \/ WaitVU \/ TransferGSPacketData \/ GifExecute
  BY <1>4 DEF GifStall, Vsync, WaitVU, TransferGSPacketData, GifExecute
<1>5. CASE WaitGS \/ WaitForEmpty \/ Synced \/ Reset \/ GSSleep
  BY <1>5 DEF WaitGS, WaitForEmpty, Synced, Reset, GSSleep
<1>6. CASE WaitForWork \/ Relock \/ TryWait \/ WaitXGkick \/ Transfer
  BY <1>6 DEF WaitForWork, Relock, TryWait, WaitXGkick, Transfer
<1>7. CASE PopGSPacketMTVU
  BY <1>7 DEF PopGSPacketMTVU
<1>8. CASE UNCHANGED vars
  BY <1>8 DEF vars
<1>. QED
  BY <1>1, <1>2, <1>3, <1>4, <1>5, <1>6, <1>7, <1>8
     DEF Next, VUStep, EECall, EEStep, GSStep

(* The programs, the packets and the semaphore are counted.                *)
LEMMA NextCountInv ==
    ASSUME Places, Counters, Buffer, CountInv, SyncInv, [Next]_vars
    PROVE  CountInv'
<1>0. Len(gsPackQueue) \in Nat
  BY DEF Buffer
<1>. USE DEF CountInv, Counters, Posting, Taken, shared, path, gif, mtgs, locals, SetEvent, VGoto,
             EGoto, GGoto
<1>1. ASSUME NEW k \in KickSizes, XGkick(k)
     PROVE  CountInv'
  BY <1>1, <1>0 DEF XGkick
<1>2. CASE RealignPacket
  BY <1>2, <1>0 DEF RealignPacket, Places
<1>3. CASE FinishPush
  <2>1. Len(gsPackQueue') = Len(gsPackQueue) + 1
    BY <1>3 DEF FinishPush, Buffer
  <2>. QED  BY <1>3, <2>1, <1>0 DEF FinishPush
<1>4. CASE FinishPost
  BY <1>4, <1>0 DEF FinishPost
<1>5. CASE ExecuteVU
  BY <1>5, <1>0 DEF ExecuteVU
<1>6. CASE TransferGSPacketData
  BY <1>6, <1>0 DEF TransferGSPacketData
<1>7. CASE GifExecute
  BY <1>7, <1>0 DEF GifExecute
<1>8. CASE WeakWait \/ WeakWaitLoop
  BY <1>8, <1>0 DEF WeakWait, WeakWaitLoop
<1>9. CASE WaitGS \/ WaitForEmpty
  BY <1>9, <1>0 DEF WaitGS, WaitForEmpty
<1>10. CASE Reset
  <2>1. programs = 0 /\ ring = 0 /\ gpc = "sleep" /\ vpc = "idle"
    BY <1>10 DEF Reset, SyncInv
  <2>2. excess' = semaXGkick /\ semaXGkick' = semaXGkick /\ fakePackets' = 0
    BY <1>10 DEF Reset
  <2>3. Len(gsPackQueue') = 0
    BY <1>10 DEF Reset
  <2>. QED  BY <1>10, <2>1, <2>2, <2>3 DEF Reset
<1>11. CASE PopGSPacketMTVU
  <2>1. Len(gsPackQueue') = Len(gsPackQueue) - 1
    BY <1>11, <1>0 DEF PopGSPacketMTVU, Buffer
  <2>. QED  BY <1>11, <2>1, <1>0 DEF PopGSPacketMTVU
<1>12. CASE TryWait
  BY <1>12, <1>0 DEF TryWait
<1>13. CASE WaitXGkick
  BY <1>13, <1>0 DEF WaitXGkick
<1>14. CASE StartProgram \/ CopyGSPacketData \/ ExecuteGSPacketMTVU \/ FinishAdd
  BY <1>14, <1>0 DEF StartProgram, CopyGSPacketData, ExecuteGSPacketMTVU, FinishAdd
<1>15. CASE GifStall \/ Vsync \/ WaitVU \/ Synced
  BY <1>15, <1>0 DEF GifStall, Vsync, WaitVU, Synced
<1>16. CASE GSSleep \/ WaitForWork \/ Relock
  BY <1>16, <1>0 DEF GSSleep, WaitForWork, Relock
<1>18. CASE Transfer
  <2>1. gsPackQueue # <<>> => Len(gsPackQueue) > 0
    BY DEF Buffer
  <2>2. gsPackQueue = <<>> => Len(gsPackQueue) = 0
    OBVIOUS
  <2>. QED  BY <1>18, <1>0, <2>1, <2>2 DEF Transfer
<1>17. CASE UNCHANGED vars
  BY <1>17, <1>0 DEF vars
<1>. QED
  BY <1>1, <1>2, <1>3, <1>4, <1>5, <1>6, <1>7, <1>8, <1>9, <1>10, <1>11, <1>12, <1>13, <1>14, <1>15,
     <1>16, <1>17, <1>18
     DEF Next, VUStep, EECall, EEStep, GSStep

LEMMA NextCounters ==
    ASSUME Buffer, Counters, CountInv, [Next]_vars
    PROVE  Counters'
<1>0. Len(gsPackQueue) \in Nat
  BY DEF Buffer
<1>. USE DEF Counters, shared, path, gif, mtgs, locals, SetEvent, VGoto, EGoto, GGoto
<1>1. ASSUME NEW k \in KickSizes, XGkick(k)
     PROVE  Counters'
  BY <1>1, <1>0, Constants DEF XGkick
<1>2. CASE FinishPost
  BY <1>2 DEF FinishPost, CountInv
<1>3. CASE PopGSPacketMTVU
  BY <1>3 DEF PopGSPacketMTVU, CountInv
<1>4. CASE TryWait \/ WaitXGkick
  BY <1>4, <1>0, Constants DEF TryWait, WaitXGkick
<1>5. CASE WeakWait
  BY <1>5, <1>0, Constants DEF WeakWait
<1>6. CASE StartProgram \/ RealignPacket \/ CopyGSPacketData \/ ExecuteGSPacketMTVU \/ WeakWaitLoop
  BY <1>6, <1>0, Constants DEF StartProgram, RealignPacket, CopyGSPacketData, ExecuteGSPacketMTVU,
     WeakWaitLoop
<1>7. CASE FinishAdd \/ FinishPush \/ ExecuteVU \/ GifStall \/ Vsync
  BY <1>7, <1>0, Constants DEF FinishAdd, FinishPush, ExecuteVU, GifStall, Vsync
<1>8. CASE WaitVU \/ TransferGSPacketData \/ GifExecute \/ WaitGS \/ WaitForEmpty
  BY <1>8, <1>0, Constants DEF WaitVU, TransferGSPacketData, GifExecute, WaitGS, WaitForEmpty
<1>9. CASE Synced \/ Reset \/ GSSleep \/ WaitForWork \/ Relock
  BY <1>9, <1>0, Constants DEF Synced, Reset, GSSleep, WaitForWork, Relock
<1>10. CASE Transfer
  BY <1>10, <1>0, Constants DEF Transfer
<1>11. CASE UNCHANGED vars
  BY <1>11, <1>0, Constants DEF vars
<1>. QED
  BY <1>1, <1>2, <1>3, <1>4, <1>5, <1>6, <1>7, <1>8, <1>9, <1>10, <1>11
     DEF Next, VUStep, EECall, EEStep, GSStep

(* A wait for the two threads.                                             *)
LEMMA NextSyncInv ==
    ASSUME Places, Counters, CountInv, SyncInv, [Next]_vars
    PROVE  SyncInv'
<1>. USE DEF SyncInv, shared, path, gif, mtgs, locals, SetEvent, VGoto, EGoto, GGoto
<1>1. ASSUME NEW k \in KickSizes, XGkick(k)
     PROVE  SyncInv'
  BY <1>1 DEF XGkick
<1>2. CASE WeakWait
  BY <1>2 DEF WeakWait, CountInv, Counters
<1>3. CASE FinishPost
  BY <1>3 DEF FinishPost, CountInv, Counters
<1>4. CASE StartProgram \/ RealignPacket \/ CopyGSPacketData \/ ExecuteGSPacketMTVU
  BY <1>4 DEF StartProgram, RealignPacket, CopyGSPacketData, ExecuteGSPacketMTVU
<1>5. CASE WeakWaitLoop \/ FinishAdd \/ FinishPush \/ ExecuteVU
  BY <1>5 DEF WeakWaitLoop, FinishAdd, FinishPush, ExecuteVU
<1>6. CASE GifStall \/ Vsync \/ WaitVU \/ TransferGSPacketData
  BY <1>6 DEF GifStall, Vsync, WaitVU, TransferGSPacketData
<1>7. CASE GifExecute \/ WaitGS \/ WaitForEmpty \/ Synced
  BY <1>7 DEF GifExecute, WaitGS, WaitForEmpty, Synced
<1>8. CASE Reset \/ GSSleep \/ WaitForWork \/ Relock
  BY <1>8 DEF Reset, GSSleep, WaitForWork, Relock
<1>9. CASE TryWait \/ WaitXGkick \/ Transfer \/ PopGSPacketMTVU
  BY <1>9 DEF TryWait, WaitXGkick, Transfer, PopGSPacketMTVU
<1>10. CASE UNCHANGED vars
  BY <1>10 DEF vars
<1>. QED
  BY <1>1, <1>2, <1>3, <1>4, <1>5, <1>6, <1>7, <1>8, <1>9, <1>10
     DEF Next, VUStep, EECall, EEStep, GSStep

(* The fields of a packet, and of a fresh one.                             *)
LEMMA PacketFields ==
    /\ \A p \in Packets : /\ p.offset \in Nat /\ p.offset <= buffSize
                          /\ p.size \in Nat /\ p.size <= ProgramLimit
                          /\ p.readAmount \in Nat /\ p.readAmount <= buffLimit
    /\ \A o \in 0 .. buffSize : /\ GSPacket(o) \in Packets
                                /\ GSPacket(o).offset = o /\ GSPacket(o).size = 0 /\ GSPacket(o).readAmount = 0
BY Constants DEF Packets, GSPacket

LEMMA Numbers ==
    ASSUME Buffer, Counters
    PROVE  /\ gsPack.offset \in Nat /\ gsPack.size \in Nat /\ gsPack.readAmount \in Nat
           /\ gsPack.offset <= buffSize /\ gsPack.size <= ProgramLimit /\ gsPack.readAmount <= buffLimit
           /\ curSize \in Nat /\ curSize <= buffSize /\ curOffset \in Nat /\ curOffset <= buffSize
           /\ kick \in Nat /\ buffLimit \in Nat /\ buffSize \in Nat /\ ProgramLimit \in Nat
           /\ buffLimit < buffSize /\ 2 * ProgramLimit <= buffLimit
BY PacketFields, Constants DEF Buffer, Counters

(* RealignPacket either waits or moves the open packet, whose quadwords    *)
(* until then were skipped up to buffLimit.                                *)
Moved ==
    /\ getReadAmount = readAmount
    /\ gsPack.offset - readAmount >= (IF curSize - gsPack.offset > gsPack.offset THEN gsPack.offset
                                      ELSE curSize - gsPack.offset)
    /\ gsPack'.offset = 0 /\ gsPack'.size = gsPack.size
    /\ gsPack'.readAmount = (IF gsPack.offset < buffLimit THEN buffLimit - gsPack.offset ELSE 0)
    /\ gsPack' \in Packets
    /\ curSize' = curSize - gsPack.offset /\ curOffset' = gsPack.size
    /\ vpc' = back

LEMMA Realigns ==
    ASSUME Buffer, Counters, PathInv, RealignPacket, readAmount \in Nat
    PROVE  Moved \/ (vpc' = "realign_wait" /\ UNCHANGED path)
<1>0. /\ gsPack.offset \in Nat /\ gsPack.size \in Nat /\ gsPack.readAmount \in Nat /\ curSize \in Nat
      /\ curOffset \in Nat /\ buffLimit \in Nat
  BY Numbers
<1>1. gsPack.offset > 0 /\ gsPack.readAmount = 0 /\ curOffset - gsPack.size = gsPack.offset
  <2>1. gsPack.offset > 0 /\ gsPack.offset + gsPack.size = curOffset
    BY DEF RealignPacket, PathInv, InRealign
  <2>2. ~(gsPack.readAmount > 0)
    BY <1>0, <2>1 DEF PathInv
  <2>. QED  BY <1>0, <2>1, <2>2
<1>2. getReadAmount = readAmount
  BY <1>1 DEF getReadAmount
<1>. DEFINE skipped == IF gsPack.offset < buffLimit THEN buffLimit - gsPack.offset ELSE 0
            new == [gsPack EXCEPT !.offset = 0, !.readAmount = @ + skipped]
<1>3. new.offset = 0 /\ new.size = gsPack.size /\ new.readAmount = skipped /\ new \in Packets
  <2>1. 0 \in 0 .. buffSize /\ skipped \in 0 .. buffLimit
    BY <1>0, Constants
  <2>2. gsPack \in Packets /\ gsPack.readAmount + skipped = skipped
    BY <1>1, <2>1 DEF Buffer
  <2>. HIDE DEF skipped
  <2>. QED  BY <2>1, <2>2 DEF Packets
<1>. DEFINE sizeToAdd == curSize - gsPack.offset
            intersect == IF sizeToAdd > gsPack.offset THEN sizeToAdd - gsPack.offset ELSE 0
<1>4. CASE gsPack.offset - readAmount >= sizeToAdd - intersect
  <2>1. gsPack' = new /\ curSize' = sizeToAdd /\ curOffset' = gsPack.size /\ vpc' = back
    BY <1>1, <1>2, <1>4 DEF RealignPacket
  <2>2. gsPack.offset - readAmount >= (IF sizeToAdd > gsPack.offset THEN gsPack.offset ELSE sizeToAdd)
    BY <1>0, <1>4
  <2>. QED  BY <1>2, <1>3, <2>1, <2>2 DEF Moved
<1>5. CASE ~(gsPack.offset - readAmount >= sizeToAdd - intersect)
  BY <1>1, <1>2, <1>5 DEF RealignPacket
<1>. QED  BY <1>4, <1>5

(* What the two steps that move curOffset find.                            *)
LEMMA RealignRange ==
    ASSUME Buffer, Counters, PathInv, RealignPacket
    PROVE  curSize - gsPack.offset \in 0 .. buffSize /\ gsPack.size \in 0 .. buffSize
<1>1. gsPack.offset + gsPack.size = curOffset /\ (curSize = curOffset \/ curSize = curOffset + kick)
  BY DEF RealignPacket, PathInv, InRealign
<1>2. PICK o \in Nat, s \in Nat, e \in Nat, k \in Nat, size \in Nat :
         /\ o = gsPack.offset /\ s = gsPack.size /\ e = curSize /\ k = kick /\ size = buffSize
         /\ e <= size /\ s <= size
  <2>1. gsPack.size <= buffSize
    BY Numbers
  <2>. QED  BY <2>1, Numbers
<1>3. o <= e
  BY <1>1, <1>2
<1>. QED  BY <1>2, <1>3

LEMMA ExecuteRange ==
    ASSUME Buffer, Counters, PathInv, ExecuteGSPacketMTVU
    PROVE  gsPack.size + kick \in 0 .. ProgramLimit /\ curOffset + kick \in 0 .. buffSize
<1>1. gsPack.size + kick <= ProgramLimit /\ curSize = curOffset + kick
  BY DEF ExecuteGSPacketMTVU, VGoto, PathInv
<1>. QED  BY <1>1, Numbers

LEMMA ExecuteFields ==
    ASSUME Buffer, ExecuteGSPacketMTVU
    PROVE  /\ gsPack'.size = gsPack.size + kick
           /\ gsPack'.offset = gsPack.offset /\ gsPack'.readAmount = gsPack.readAmount
<1>1. gsPack \in Packets /\ gsPack' = [gsPack EXCEPT !.size = @ + kick]
  BY DEF ExecuteGSPacketMTVU, Buffer
<1>. QED  BY <1>1 DEF Packets

(* The open packet and the queue keep their ranges.                        *)
LEMMA NextBuffer ==
    ASSUME readAmount \in Nat, Places, Counters, Buffer, CountInv, PathInv, [Next]_vars
    PROVE  Buffer'
<1>. USE DEF Buffer, shared, path, gif, mtgs, locals, SetEvent, VGoto, EGoto, GGoto
<1>1. ASSUME NEW k \in KickSizes, XGkick(k)
     PROVE  Buffer'
  BY <1>1 DEF XGkick
<1>2. CASE RealignPacket
  <2>1. CASE Moved
    <3>1. curSize - gsPack.offset \in 0 .. buffSize /\ gsPack.size \in 0 .. buffSize
      BY <1>2, RealignRange
    <3>2. gsPackQueue' = gsPackQueue /\ gsPack' \in Packets
      BY <1>2, <2>1 DEF RealignPacket, Moved
    <3>. QED  BY <2>1, <3>1, <3>2 DEF Moved
  <2>2. CASE UNCHANGED path
    BY <1>2, <2>2 DEF RealignPacket
  <2>. QED  BY <1>2, <2>1, <2>2, Realigns
<1>3. CASE CopyGSPacketData
  BY <1>3, Constants DEF CopyGSPacketData, PathInv, InRoom, Counters
<1>4. CASE ExecuteGSPacketMTVU
  <2>1. gsPack.size + kick \in 0 .. ProgramLimit /\ curOffset + kick \in 0 .. buffSize
    BY <1>4, ExecuteRange
  <2>2. [gsPack EXCEPT !.size = @ + kick] \in Packets
    BY <2>1 DEF Packets
  <2>. QED  BY <1>4, <2>1, <2>2 DEF ExecuteGSPacketMTVU
<1>5. CASE FinishPush
  BY <1>5, PacketFields DEF FinishPush
<1>6. CASE Reset
  <2>1. 0 \in 0 .. buffSize
    BY Constants
  <2>. QED  BY <1>6, <2>1, PacketFields DEF Reset
<1>7. CASE PopGSPacketMTVU
  <2>1. Len(gsPackQueue) > 0
    BY <1>7 DEF PopGSPacketMTVU, CountInv
  <2>2. Tail(gsPackQueue) \in Seq(Packets)
    BY <2>1
  <2>. QED  BY <1>7, <2>2 DEF PopGSPacketMTVU
<1>8. CASE StartProgram \/ WeakWait \/ WeakWaitLoop \/ FinishAdd \/ FinishPost
  BY <1>8 DEF StartProgram, WeakWait, WeakWaitLoop, FinishAdd, FinishPost
<1>9. CASE ExecuteVU \/ GifStall \/ Vsync \/ WaitVU \/ TransferGSPacketData
  BY <1>9 DEF ExecuteVU, GifStall, Vsync, WaitVU, TransferGSPacketData
<1>10. CASE GifExecute \/ WaitGS \/ WaitForEmpty \/ Synced \/ GSSleep
  BY <1>10 DEF GifExecute, WaitGS, WaitForEmpty, Synced, GSSleep
<1>11. CASE WaitForWork \/ Relock \/ TryWait \/ WaitXGkick \/ Transfer
  BY <1>11 DEF WaitForWork, Relock, TryWait, WaitXGkick, Transfer
<1>12. CASE UNCHANGED vars
  BY <1>12 DEF vars
<1>. QED
  BY <1>1, <1>2, <1>3, <1>4, <1>5, <1>6, <1>7, <1>8, <1>9, <1>10, <1>11, <1>12
     DEF Next, VUStep, EECall, EEStep, GSStep

LEMMA NextPathInv ==
    ASSUME readAmount \in Nat, Places, Counters, Buffer, CountInv, SyncInv, PathInv, [Next]_vars
    PROVE  PathInv'
<1>. USE DEF PathInv, InRoom, InRealign, shared, path, gif, mtgs, locals, SetEvent, VGoto, EGoto,
             GGoto
<1>1. ASSUME NEW k \in KickSizes, XGkick(k)
     PROVE  PathInv'
  <2>1. k \in Nat /\ k > 0
    BY Constants
  <2>. QED  BY <1>1, <2>1, PacketFields, Constants DEF XGkick, Buffer
<1>2. CASE RealignPacket
  <2>1. CASE Moved
    <3>1. /\ gsPack'.offset = 0 /\ gsPack'.size = gsPack.size /\ gsPack' \in Packets
          /\ curSize' = curSize - gsPack.offset /\ curOffset' = gsPack.size
          /\ vpc' = back /\ kick' = kick
      BY <1>2, <2>1 DEF Moved, RealignPacket
    <3>2. /\ gsPack.offset + gsPack.size = curOffset /\ gsPack.size + kick <= ProgramLimit
          /\ (back = "room" /\ curSize = curOffset) \/ (back = "execute" /\ curSize = curOffset + kick)
      BY <1>2 DEF RealignPacket
    <3>3. curSize' + kick <= buffSize \/ back = "execute"
      BY <3>1, <3>2, Numbers
    <3>4. (curSize' = curOffset' /\ back = "room") \/ (curSize' = curOffset' + kick /\ back = "execute")
      BY <3>1, <3>2, Numbers
    <3>5. gsPack'.offset + gsPack'.size = curOffset'
      BY <3>1, Numbers
    <3>. QED  BY <3>1, <3>2, <3>3, <3>4, <3>5
  <2>2. CASE vpc' = "realign_wait" /\ UNCHANGED path
    BY <1>2, <2>2 DEF RealignPacket
  <2>. QED  BY <1>2, <2>1, <2>2, Realigns
<1>3. CASE CopyGSPacketData
  <2>0. gsPack.size + kick <= ProgramLimit /\ curSize = curOffset /\ gsPack.offset + gsPack.size = curOffset
    BY <1>3 DEF CopyGSPacketData
  <2>1. CASE HasRoom
    <3>1. /\ curSize' = curOffset + kick /\ UNCHANGED <<curOffset, gsPack, kick>> /\ back' = "execute"
          /\ (vpc' = "realign" /\ curOffset > buffLimit) \/ vpc' = "execute"
      BY <1>3, <2>0, <2>1 DEF CopyGSPacketData
    <3>2. vpc' = "realign" => gsPack.offset > 0
      BY <2>0, <3>1, Numbers
    <3>. QED  BY <2>0, <3>1, <3>2
  <2>2. CASE ~HasRoom
    BY <1>3, <2>2 DEF CopyGSPacketData
  <2>. QED  BY <2>1, <2>2
<1>4. CASE ExecuteGSPacketMTVU
  <2>1. gsPack'.size = gsPack.size + kick /\ gsPack'.offset = gsPack.offset /\ gsPack'.readAmount = gsPack.readAmount
    BY <1>4, ExecuteFields
  <2>2. /\ curOffset' = curOffset + kick /\ curSize' = curSize /\ vpc = "execute" /\ vpc' = "run"
    BY <1>4 DEF ExecuteGSPacketMTVU
  <2>3. gsPack.offset + gsPack.size = curOffset /\ curSize = curOffset + kick
    BY <2>2
  <2>4. gsPack'.offset + gsPack'.size = curOffset' /\ curSize' = curOffset'
    BY <2>1, <2>2, <2>3, Numbers
  <2>5. gsPack'.readAmount > 0 => gsPack'.offset = 0
    BY <2>1
  <2>. QED  BY <2>2, <2>4, <2>5
<1>5. CASE WeakWait \/ WeakWaitLoop
  BY <1>5 DEF WeakWait, WeakWaitLoop
<1>6. CASE FinishPush
  BY <1>6, PacketFields DEF FinishPush, Buffer
<1>7. CASE Reset
  <2>1. 0 \in 0 .. buffSize
    BY Constants
  <2>2. vpc = "idle" /\ vpc' = "idle"
    BY <1>7 DEF Reset, CountInv, SyncInv
  <2>. QED  BY <1>7, <2>1, <2>2, PacketFields DEF Reset
<1>8. CASE PopGSPacketMTVU
  BY <1>8 DEF PopGSPacketMTVU
<1>9. CASE StartProgram \/ FinishAdd \/ FinishPost \/ ExecuteVU
  BY <1>9 DEF StartProgram, FinishAdd, FinishPost, ExecuteVU
<1>10. CASE GifStall \/ Vsync \/ WaitVU \/ TransferGSPacketData
  BY <1>10 DEF GifStall, Vsync, WaitVU, TransferGSPacketData
<1>11. CASE GifExecute \/ WaitGS \/ WaitForEmpty \/ Synced
  BY <1>11 DEF GifExecute, WaitGS, WaitForEmpty, Synced
<1>12. CASE GSSleep \/ WaitForWork \/ Relock \/ TryWait
  BY <1>12 DEF GSSleep, WaitForWork, Relock, TryWait
<1>13. CASE WaitXGkick \/ Transfer
  BY <1>13 DEF WaitXGkick, Transfer
<1>14. CASE UNCHANGED vars
  BY <1>14 DEF vars
<1>. QED
  BY <1>1, <1>2, <1>3, <1>4, <1>5, <1>6, <1>7, <1>8, <1>9, <1>10, <1>11, <1>12, <1>13, <1>14
     DEF Next, VUStep, EECall, EEStep, GSStep

(* Integers.                                                               *)
LEMMA Shift ==
    ASSUME NEW b \in Int, NEW o \in Nat, NEW s \in Nat, NEW x \in Nat, NEW y \in Nat, NEW limit \in Nat
    PROVE  /\ b >= o + x => b + s >= o + s + x
           /\ y >= limit + o - b => y >= limit + (o + s) - (b + s)
OBVIOUS

(* What the positions say of a packet: it ends before the open one, and    *)
(* what has still to be read begins with packet First.                     *)
LEMMA Tape ==
    ASSUME Buffer, CountInv, Counters, NEW pos, OnTape(pos)
    PROVE  /\ Len(gsPackQueue) \in Nat /\ First \in 1 .. Last /\ readAmount \in Nat
           /\ \A i \in 1 .. Last : pos[i] \in Int
           /\ \A i \in 1 .. Len(gsPackQueue) :
                 /\ gsPackQueue[i] \in Packets
                 /\ pos[i] + Total(gsPackQueue[i]) <= pos[Last] /\ pos[i] <= pos[Last]
           /\ vpc # "push" => \A i \in Undrawn : pos[Last] - pos[i] <= readAmount
<1>1. Len(gsPackQueue) \in Nat /\ \A i \in 1 .. Len(gsPackQueue) : gsPackQueue[i] \in Packets
  BY DEF Buffer
<1>2. First \in 1 .. Last /\ Last \in 1 .. Last
  BY <1>1 DEF First, Last, CountInv, Counters, Taken, Posting
<1>3. \A i \in 1 .. Last : pos[i] \in Int
  BY DEF OnTape
<1>4. \A i \in 1 .. Len(gsPackQueue) :
         pos[i] + Total(gsPackQueue[i]) <= pos[Last] /\ pos[i] <= pos[Last]
  <2>1. SUFFICES ASSUME NEW i \in 1 .. Len(gsPackQueue)
                 PROVE  pos[i] + Total(gsPackQueue[i]) <= pos[Last] /\ pos[i] <= pos[Last]
    OBVIOUS
  <2>2. i \in 1 .. Last /\ i < Last
    BY <1>1 DEF Last
  <2>3. Total(gsPackQueue[i]) \in Nat
    BY <1>1, PacketFields DEF Total
  <2>4. pos[i] + Total(gsPackQueue[i]) <= pos[Last]
    BY <1>2, <2>2 DEF OnTape
  <2>. QED  BY <1>2, <1>3, <2>2, <2>3, <2>4
<1>5. \A i \in Undrawn : pos[Last] - pos[i] <= pos[Last] - pos[First]
  <2>1. SUFFICES ASSUME NEW i \in Undrawn, First < i
                 PROVE  pos[First] <= pos[i]
    BY <1>1, <1>2, <1>3 DEF Undrawn, First, Last
  <2>2. i \in 1 .. Last /\ First \in 1 .. Len(gsPackQueue)
    BY <1>1, <2>1 DEF Undrawn, First, Last
  <2>3. Total(gsPackQueue[First]) \in Nat
    BY <1>1, <2>2, PacketFields DEF Total
  <2>4. pos[First] + Total(gsPackQueue[First]) <= pos[i]
    BY <1>2, <2>1, <2>2 DEF OnTape
  <2>. QED  BY <1>2, <1>3, <2>2, <2>3, <2>4
<1>6. pos[First] <= pos[Last]
  BY <1>1, <1>2, <1>3, <1>4 DEF Last
<1>7. Total(gsPack) \in Nat
  BY PacketFields DEF Total, Buffer
<1>8. readAmount \in Nat
  BY <1>2, <1>3, <1>6, <1>7 DEF OnTape
<1>9. ASSUME vpc # "push" PROVE \A i \in Undrawn : pos[Last] - pos[i] <= readAmount
  BY <1>5, <1>9, <1>2, <1>3 DEF OnTape
<1>. QED  BY <1>1, <1>2, <1>3, <1>4, <1>8, <1>9

LEMMA ReadAmountNat ==
    ASSUME Buffer, CountInv, Counters, TapeInv
    PROVE  readAmount \in Nat
BY Tape DEF TapeInv

(* A step that leaves the packets and readAmount alone leaves the tape     *)
(* alone.                                                                  *)
LEMMA SameTape ==
    ASSUME TapeInv, UNCHANGED <<readAmount, gsPackQueue>>, gsPack'.offset = gsPack.offset,
           gsPack'.readAmount = gsPack.readAmount, gpc' = "pop" <=> gpc = "pop",
           vpc # "push", vpc' # "push"
    PROVE  TapeInv'
<1>1. PICK pos \in [1 .. Last -> Int] : OnTape(pos) /\ \A i \in Undrawn : Placed(pos, i)
  BY DEF TapeInv
<1>2. Last' = Last /\ First' = First /\ Undrawn' = Undrawn
  BY DEF Last, First, Undrawn
<1>3. OnTape(pos)'
  BY <1>1, <1>2 DEF OnTape, Total
<1>4. \A i \in Undrawn : Placed(pos, i)'
  BY <1>1, <1>2 DEF Placed, Behind
<1>. QED  BY <1>1, <1>2, <1>3, <1>4 DEF TapeInv

LEMMA SameTapePush ==
    ASSUME TapeInv, UNCHANGED <<readAmount, gsPackQueue, gsPack, vpc>>, gpc' = "pop" <=> gpc = "pop"
    PROVE  TapeInv'
<1>1. PICK pos \in [1 .. Last -> Int] : OnTape(pos) /\ \A i \in Undrawn : Placed(pos, i)
  BY DEF TapeInv
<1>2. Last' = Last /\ First' = First /\ Undrawn' = Undrawn
  BY DEF Last, First, Undrawn
<1>3. OnTape(pos)'
  BY <1>1, <1>2 DEF OnTape, Total
<1>4. \A i \in Undrawn : Placed(pos, i)'
  BY <1>1, <1>2 DEF Placed, Behind
<1>. QED  BY <1>1, <1>2, <1>3, <1>4 DEF TapeInv

(* The move to the start: everything before it was written a lap ago.      *)
LEMMA MovedTape ==
    ASSUME Buffer, Counters, CountInv, TapeInv, PathInv, RealignPacket, Moved, Places
    PROVE  TapeInv'
<1>1. PICK pos \in [1 .. Last -> Int] : OnTape(pos) /\ \A i \in Undrawn : Placed(pos, i)
  BY DEF TapeInv
<1>2. Last' = Last /\ First' = First /\ Undrawn' = Undrawn /\ UNCHANGED <<readAmount, gsPackQueue>>
  BY DEF Last, First, Undrawn, RealignPacket, shared
<1>3. vpc # "push" /\ vpc' # "push"
  BY DEF RealignPacket, Moved, PathInv, InRealign
<1>4. OnTape(pos)'
  BY <1>1, <1>2, <1>3 DEF OnTape, Total
<1>5. /\ gsPack.offset \in Nat /\ gsPack.size \in Nat /\ buffLimit \in Nat /\ readAmount \in Nat /\ curSize \in Nat
      /\ curSize >= gsPack.offset /\ gsPack.readAmount = 0
  <2>1. /\ gsPack.offset > 0 /\ gsPack.offset + gsPack.size = curOffset
        /\ (curSize = curOffset \/ curSize = curOffset + kick)
    BY DEF RealignPacket, PathInv, InRealign
  <2>2. ~(gsPack.readAmount > 0)
    BY <2>1, Numbers DEF PathInv
  <2>3. /\ gsPack.offset \in Nat /\ gsPack.size \in Nat /\ gsPack.readAmount \in Nat /\ buffLimit \in Nat
        /\ curSize \in Nat /\ curOffset \in Nat /\ kick \in Nat
    BY Numbers
  <2>4. readAmount \in Nat
    BY <1>1, Tape
  <2>5. curSize >= gsPack.offset
    BY <2>1, <2>3
  <2>. QED  BY <2>2, <2>3, <2>4, <2>5
<1>6. readAmount <= gsPack.offset
  BY <1>5 DEF Moved
<1>7. ASSUME NEW i \in Undrawn PROVE Placed(pos, i)'
  <2>. DEFINE p == gsPackQueue[i]
              skipped == IF gsPack.offset < buffLimit THEN buffLimit - gsPack.offset ELSE 0
  <2>1. i \in 1 .. Len(gsPackQueue) /\ p \in Packets /\ Len(gsPackQueue) \in Nat
    BY <1>1, <1>7, Tape DEF Undrawn
  <2>2. p.offset \in Nat /\ p.size \in Nat /\ p.readAmount \in Nat
    BY <2>1, PacketFields
  <2>3. pos[i] \in Int /\ pos[Last] \in Int
    BY <1>1, <2>1, Tape DEF Last
  <2>4. pos[Last] - pos[i] >= p.size + p.readAmount /\ pos[Last] - pos[i] <= readAmount
    <3>1. pos[i] + Total(p) <= pos[Last] /\ pos[Last] - pos[i] <= readAmount
      BY <1>1, <1>3, <1>7, <2>1, Tape
    <3>. QED  BY <2>2, <2>3, <3>1 DEF Total
  <2>5. PICK b \in Int : b = pos[Last] - pos[i] - p.readAmount
    BY <2>2, <2>3
  <2>6. b >= p.size /\ b <= gsPack.offset
    <3>1. b >= p.size /\ b <= readAmount
      <4>1. PICK last \in Int, a \in Int, t \in Nat, s \in Nat, ra \in Nat :
                 last = pos[Last] /\ a = pos[i] /\ t = p.readAmount /\ s = p.size /\ ra = readAmount
        BY <1>5, <2>2, <2>3
      <4>2. last - a >= s + t /\ last - a <= ra /\ b = last - a - t
        BY <2>4, <2>5, <4>1
      <4>3. b >= s /\ b <= ra
        BY <4>2
      <4>. QED  BY <4>1, <4>3
    <3>. QED  BY <1>5, <1>6, <3>1
  <2>7. skipped \in Nat /\ skipped >= buffLimit - gsPack.offset
    BY <1>5
  <2>8. Behind(pos, i) = b /\ Behind(pos, i)' = b + skipped
    <3>1. gsPack'.readAmount = skipped
      BY DEF Moved
    <3>. HIDE DEF skipped
    <3>. QED  BY <1>2, <1>5, <2>2, <2>3, <2>5, <2>7, <3>1 DEF Behind
  <2>9. p.offset = gsPack.offset - b \/ p.offset >= buffLimit + gsPack.offset - b
    BY <1>1, <1>7, <2>8 DEF Placed
  <2>. HIDE DEF skipped
  <2>10. b + skipped >= 0 + p.size /\ p.offset >= buffLimit + 0 - (b + skipped)
    <3>1. b + skipped >= 0 + p.size
      BY <2>2, <2>6, <2>7
    <3>2. p.offset >= gsPack.offset - b
      <4>1. PICK o \in Nat, off \in Nat, limit \in Nat : o = p.offset /\ off = gsPack.offset /\ limit = buffLimit
        BY <1>5, <2>2
      <4>2. o = off - b \/ o >= limit + off - b
        BY <2>9, <4>1
      <4>3. o >= off - b
        BY <4>2
      <4>. QED  BY <4>1, <4>3
    <3>3. PICK o \in Nat, off \in Nat, limit \in Nat, k \in Nat :
             o = p.offset /\ off = gsPack.offset /\ limit = buffLimit /\ k = skipped
      BY <1>5, <2>2, <2>7
    <3>4. o >= off - b /\ k >= limit - off
      BY <2>7, <3>2, <3>3
    <3>5. o >= limit + 0 - (b + k)
      BY <3>4
    <3>. QED  BY <3>1, <3>3, <3>5
  <2>. QED  BY <1>2, <2>8, <2>10 DEF Placed, Moved
<1>. QED  BY <1>1, <1>2, <1>4, <1>7 DEF TapeInv

(* A packet is added behind the last, where the open one was.              *)
LEMMA PushTape ==
    ASSUME Buffer, Counters, CountInv, TapeInv, PathInv, FinishPush
    PROVE  TapeInv'
<1>1. PICK pos \in [1 .. Last -> Int] : OnTape(pos) /\ \A i \in Undrawn : Placed(pos, i)
  BY DEF TapeInv
<1>. DEFINE n == Len(gsPackQueue)
<1>2. /\ n \in Nat /\ Last = n + 1 /\ First \in 1 .. Last /\ readAmount \in Nat
      /\ \A i \in 1 .. Last : pos[i] \in Int
      /\ \A i \in 1 .. n : gsPackQueue[i] \in Packets /\ pos[i] <= pos[Last]
                           /\ pos[i] + Total(gsPackQueue[i]) <= pos[Last]
  BY <1>1, Tape DEF Last
<1>3. /\ Len(gsPackQueue') = n + 1 /\ gsPackQueue'[n + 1] = gsPack
      /\ \A i \in 1 .. n : gsPackQueue'[i] = gsPackQueue[i]
  BY <1>2 DEF FinishPush, Buffer
<1>4. /\ Last' = Last + 1 /\ First' = First
      /\ Undrawn' = Undrawn \cup {Last}
  BY <1>2, <1>3 DEF Last, First, Undrawn, FinishPush
<1>5. /\ gsPack.size \in Nat /\ gsPack.readAmount \in Nat /\ gsPack.offset \in Nat
      /\ curOffset = gsPack.offset + gsPack.size
  BY Numbers DEF PathInv
<1>6. /\ vpc = "push" /\ vpc' # "push" /\ UNCHANGED readAmount
      /\ gsPack'.offset = gsPack.offset + gsPack.size /\ gsPack'.readAmount = 0
  BY <1>5 DEF FinishPush, VGoto, GSPacket
<1>7. PICK end \in Int : end = pos[Last] + (gsPack.size + gsPack.readAmount) /\ end >= pos[Last]
  <2>1. pos[Last] \in Int
    BY <1>2
  <2>. QED  BY <1>5, <2>1
<1>8. PICK new \in [1 .. Last + 1 -> Int] : new[Last + 1] = end /\ \A i \in 1 .. Last : new[i] = pos[i]
  <2>. DEFINE f == [i \in 1 .. Last + 1 |-> IF i = Last + 1 THEN end ELSE pos[i]]
  <2>1. f \in [1 .. Last + 1 -> Int] /\ f[Last + 1] = end /\ \A i \in 1 .. Last : f[i] = pos[i]
    BY <1>2, <1>7
  <2>. HIDE DEF f
  <2>. QED  BY <2>1
<1>0. Last \in 1 .. Last /\ Total(gsPack) = gsPack.size + gsPack.readAmount
  BY <1>2 DEF Total
<1>9. OnTape(new)'
  <2>1. \A i \in 1 .. n + 1 : new[i + 1] = new[i] + Total(gsPackQueue'[i])
    <3>1. ASSUME NEW i \in 1 .. n PROVE new[i + 1] = new[i] + Total(gsPackQueue'[i])
      <4>1. i + 1 \in 1 .. Last /\ i \in 1 .. Last
        BY <1>2
      <4>. QED  BY <1>1, <1>3, <1>8, <4>1 DEF OnTape
    <3>2. new[n + 1 + 1] = new[n + 1] + Total(gsPackQueue'[n + 1])
      BY <1>0, <1>2, <1>3, <1>7, <1>8
    <3>. QED  BY <1>2, <3>1, <3>2
  <2>2. ASSUME NEW i \in 1 .. Last + 1, NEW j \in 1 .. Last + 1, i < j
        PROVE  new[i] + Total(gsPackQueue'[i]) <= new[j]
    <3>1. CASE j \in 1 .. Last
      <4>1. i \in 1 .. n /\ i \in 1 .. Last
        BY <1>2, <2>2, <3>1
      <4>. QED  BY <1>1, <1>3, <1>8, <2>2, <3>1, <4>1 DEF OnTape
    <3>2. CASE j = Last + 1 /\ i \in 1 .. n
      <4>0. i \in 1 .. Last /\ gsPackQueue[i] \in Packets
        BY <1>2, <3>2
      <4>1. i \in 1 .. Last /\ Total(gsPackQueue[i]) \in Nat
        BY <4>0, PacketFields DEF Total
      <4>. QED  BY <1>2, <1>3, <1>7, <1>8, <3>2, <4>1
    <3>3. CASE j = Last + 1 /\ i = n + 1
      <4>1. new[j] = end /\ new[i] + Total(gsPackQueue'[i]) = end
        BY <1>0, <1>2, <1>3, <1>7, <1>8, <3>3
      <4>. QED  BY <1>7, <4>1
    <3>. QED  BY <1>2, <2>2, <3>1, <3>2, <3>3
  <2>3. readAmount' = new[Last + 1] - new[First]
    <3>1. readAmount = pos[Last] - pos[First] + (gsPack.size + gsPack.readAmount)
      BY <1>0, <1>1, <1>6 DEF OnTape
    <3>2. pos[First] \in Int /\ pos[Last] \in Int /\ new[First] = pos[First]
      BY <1>2, <1>0, <1>8
    <3>. QED  BY <1>5, <1>6, <1>7, <1>8, <3>1, <3>2
  <2>4. Len(gsPackQueue') = n + 1
    BY <1>3
  <2>. HIDE DEF n
  <2>. QED  BY <1>4, <1>6, <1>8, <2>1, <2>2, <2>3, <2>4 DEF OnTape
<1>10. ASSUME NEW i \in Undrawn' PROVE Placed(new, i)'
  <2>1. CASE i \in Undrawn
    <3>. DEFINE p == gsPackQueue[i]
    <3>1. i \in 1 .. n /\ i \in 1 .. Last /\ p \in Packets
      BY <1>2, <2>1 DEF Undrawn
    <3>2. p.offset \in Nat /\ p.size \in Nat /\ p.readAmount \in Nat /\ pos[i] \in Int /\ pos[Last] \in Int
      BY <1>2, <3>1, PacketFields
    <3>3. Behind(new, i)' = Behind(pos, i) + gsPack.size /\ Behind(pos, i) \in Int
      <4>1. PICK last \in Int, a \in Int, t \in Nat, s \in Nat, r \in Nat :
                 last = pos[Last] /\ a = pos[i] /\ t = p.readAmount /\ s = gsPack.size /\ r = gsPack.readAmount
        BY <1>5, <3>2
      <4>2. Behind(new, i)' = end - a - t + 0
        BY <1>3, <1>4, <1>6, <1>8, <3>1, <4>1 DEF Behind
      <4>3. Behind(pos, i) = last - a - t + r
        BY <4>1 DEF Behind
      <4>4. end = last + (s + r)
        BY <1>7, <4>1
      <4>5. end - a - t + 0 = (last - a - t + r) + s /\ last - a - t + r \in Int
        BY <4>4
      <4>. QED  BY <4>1, <4>2, <4>3, <4>5
    <3>4. Placed(pos, i)
      BY <1>1, <2>1
    <3>5. gsPackQueue'[i] = p
      BY <1>3, <3>1
    <3>6. CASE p.offset = gsPack.offset - Behind(pos, i)
      BY <1>5, <1>6, <3>2, <3>3, <3>5, <3>6 DEF Placed
    <3>7. CASE /\ Behind(pos, i) >= gsPack.offset + p.size
               /\ p.offset >= buffLimit + gsPack.offset - Behind(pos, i)
      <4>1. buffLimit \in Nat
        BY Constants
      <4>2. /\ Behind(pos, i) + gsPack.size >= gsPack.offset + gsPack.size + p.size
            /\ p.offset >= buffLimit + (gsPack.offset + gsPack.size) - (Behind(pos, i) + gsPack.size)
        BY <1>5, <3>2, <3>3, <3>7, <4>1, Shift
      <4>. QED  BY <1>6, <3>3, <3>5, <4>2 DEF Placed
    <3>. QED  BY <3>4, <3>6, <3>7 DEF Placed
  <2>2. CASE i = Last
    <3>1. gsPackQueue'[i] = gsPack /\ i \in 1 .. Last
      BY <1>2, <1>3, <2>2
    <3>2. Behind(new, i)' = gsPack.size
      <4>1. Behind(new, i)' = end - pos[Last] - gsPack.readAmount + 0
        BY <1>4, <1>6, <1>8, <2>2, <3>1 DEF Behind
      <4>2. pos[Last] \in Int
        BY <1>0, <1>2
      <4>. QED  BY <1>5, <1>7, <4>1, <4>2
    <3>. QED  BY <1>5, <1>6, <3>1, <3>2 DEF Placed
  <2>. QED  BY <1>4, <1>10, <2>1, <2>2
<1>. QED  BY <1>4, <1>8, <1>9, <1>10 DEF TapeInv

(* The first packet is taken away.                                         *)
LEMMA PopTape ==
    ASSUME Buffer, Counters, CountInv, TapeInv, PopGSPacketMTVU
    PROVE  TapeInv'
<1>1. PICK pos \in [1 .. Last -> Int] : OnTape(pos) /\ \A i \in Undrawn : Placed(pos, i)
  BY DEF TapeInv
<1>. DEFINE n == Len(gsPackQueue)
<1>2. /\ n \in Nat /\ n > 0 /\ Last = n + 1 /\ readAmount \in Nat
      /\ \A i \in 1 .. Last : pos[i] \in Int
  BY <1>1, Tape DEF Last, PopGSPacketMTVU, GGoto, CountInv
<1>3. /\ Len(gsPackQueue') = n - 1
      /\ \A i \in 1 .. n - 1 : gsPackQueue'[i] = gsPackQueue[i + 1]
  BY <1>2 DEF PopGSPacketMTVU, Buffer
<1>4. /\ Last' = Last - 1 /\ First = 2 /\ First' = 1
      /\ Undrawn' = 1 .. n - 1 /\ Undrawn = 2 .. n
      /\ UNCHANGED <<gsPack, vpc, readAmount>>
  BY <1>2, <1>3 DEF Last, First, Undrawn, PopGSPacketMTVU, GGoto, path
<1>5. PICK new \in [1 .. Last - 1 -> Int] :
           \A i \in 1 .. Last - 1 : i + 1 \in 1 .. Last /\ new[i] = pos[i + 1]
  <2>. DEFINE f == [i \in 1 .. Last - 1 |-> pos[i + 1]]
  <2>1. /\ f \in [1 .. Last - 1 -> Int]
        /\ \A i \in 1 .. Last - 1 : i + 1 \in 1 .. Last /\ f[i] = pos[i + 1]
    BY <1>2
  <2>. HIDE DEF f
  <2>. QED  BY <2>1
<1>6. OnTape(new)'
  <2>1. ASSUME NEW i \in 1 .. n - 1 PROVE new[i + 1] = new[i] + Total(gsPackQueue'[i])
    <3>1. i + 1 \in 1 .. n /\ i \in 1 .. Last - 1 /\ i + 1 \in 1 .. Last - 1
      BY <1>2
    <3>. QED  BY <1>1, <1>3, <1>5, <3>1 DEF OnTape
  <2>2. ASSUME NEW i \in 1 .. Last - 1, NEW j \in 1 .. Last - 1, i < j
        PROVE  new[i] + Total(gsPackQueue'[i]) <= new[j]
    <3>1. i + 1 \in 1 .. Last /\ j + 1 \in 1 .. Last /\ i + 1 < j + 1 /\ i \in 1 .. n - 1
      BY <1>2, <2>2
    <3>. QED  BY <1>1, <1>3, <1>5, <3>1 DEF OnTape
  <2>3. readAmount' = new[Last - 1] - new[1] + (IF vpc' = "push" THEN Total(gsPack)' ELSE 0)
    <3>1. readAmount = pos[Last] - pos[2] + (IF vpc = "push" THEN Total(gsPack) ELSE 0)
      BY <1>1, <1>4 DEF OnTape
    <3>2. new[Last - 1] = pos[Last] /\ new[1] = pos[2]
      BY <1>2, <1>5
    <3>. QED  BY <1>4, <3>1, <3>2 DEF Total
  <2>4. Len(gsPackQueue') = n - 1
    BY <1>3
  <2>. HIDE DEF n
  <2>. QED  BY <1>4, <1>5, <2>1, <2>2, <2>3, <2>4 DEF OnTape
<1>7. ASSUME NEW i \in Undrawn' PROVE Placed(new, i)'
  <2>1. i \in 1 .. n - 1 /\ i + 1 \in Undrawn /\ gsPackQueue'[i] = gsPackQueue[i + 1] /\ i \in 1 .. Last - 1
    BY <1>2, <1>3, <1>4, <1>7
  <2>2. Behind(new, i)' = Behind(pos, i + 1)
    <3>1. new[Last - 1] = pos[Last] /\ new[i] = pos[i + 1]
      BY <1>2, <1>5, <2>1
    <3>. QED  BY <1>4, <2>1, <3>1 DEF Behind
  <2>3. Placed(pos, i + 1)
    BY <1>1, <2>1
  <2>. QED  BY <1>4, <2>1, <2>2, <2>3 DEF Placed
<1>. QED  BY <1>4, <1>5, <1>6, <1>7 DEF TapeInv

(* A program ends; a packet is drawn.                                      *)
LEMMA AddTape ==
    ASSUME Buffer, Counters, CountInv, TapeInv, FinishAdd
    PROVE  TapeInv'
<1>1. PICK pos \in [1 .. Last -> Int] : OnTape(pos) /\ \A i \in Undrawn : Placed(pos, i)
  BY DEF TapeInv
<1>2. /\ UNCHANGED <<gsPackQueue, gsPack>> /\ Last' = Last /\ First' = First /\ Undrawn' = Undrawn
      /\ vpc # "push" /\ vpc' = "push"
      /\ readAmount' = readAmount + gsPack.size + gsPack.readAmount
  BY DEF FinishAdd, VGoto, path, Last, First, Undrawn
<1>3. /\ \A i \in 1 .. Last : pos[i] \in Int
      /\ First \in 1 .. Last /\ Last \in 1 .. Last /\ gsPack.size \in Nat /\ gsPack.readAmount \in Nat
  <2>1. (\A i \in 1 .. Last : pos[i] \in Int) /\ First \in 1 .. Last /\ Len(gsPackQueue) \in Nat
    BY <1>1, Tape
  <2>2. gsPack.size \in Nat /\ gsPack.readAmount \in Nat
    BY Numbers
  <2>3. Last \in 1 .. Last
    BY <2>1 DEF Last
  <2>. QED  BY <2>1, <2>2, <2>3
<1>4. readAmount' = pos[Last] - pos[First] + Total(gsPack)
  BY <1>1, <1>2, <1>3 DEF OnTape, Total
<1>5. OnTape(pos)'
  BY <1>1, <1>2, <1>4 DEF OnTape, Total
<1>6. \A i \in Undrawn : Placed(pos, i)'
  BY <1>1, <1>2 DEF Placed, Behind
<1>. QED  BY <1>1, <1>2, <1>5, <1>6 DEF TapeInv

LEMMA DrawTape ==
    ASSUME Buffer, Counters, CountInv, TapeInv, Transfer
    PROVE  TapeInv'
<1>1. CASE gpc = "get" /\ gpc' # "pop" /\ UNCHANGED readAmount
  BY <1>1, SameTapePush DEF Transfer, GGoto, path
<1>2. CASE GGoto("transfer", "pop")
  <2>1. PICK pos \in [1 .. Last -> Int] : OnTape(pos) /\ \A i \in Undrawn : Placed(pos, i)
    BY DEF TapeInv
  <2>2. Len(gsPackQueue) \in Nat /\ Len(gsPackQueue) > 0 /\ \A i \in 1 .. Last : pos[i] \in Int
    <3>1. Len(gsPackQueue) \in Nat
      BY <2>1, Tape
    <3>2. Len(gsPackQueue) > 0
      BY <1>2, <3>1 DEF CountInv, Counters, Taken, Posting, GGoto
    <3>. QED  BY <2>1, <3>1, <3>2, Tape
  <2>3. /\ UNCHANGED <<gsPackQueue, gsPack, vpc>> /\ Last' = Last /\ First = 1 /\ First' = 2
        /\ Undrawn' \subseteq Undrawn /\ Undrawn = 1 .. Len(gsPackQueue)
        /\ Undrawn' = 2 .. Len(gsPackQueue)
    BY <1>2, <2>2 DEF Transfer, GGoto, path, Last, First, Undrawn
  <2>4. gsPackQueue # <<>>
    BY <2>2
  <2>5. readAmount' = readAmount - gsPackQueue[1].size - gsPackQueue[1].readAmount
    BY <1>2, <2>4 DEF Transfer, GGoto
  <2>6. /\ 1 \in 1 .. Len(gsPackQueue) /\ 1 \in 1 .. Last /\ 2 \in 1 .. Last /\ Last \in 1 .. Last
        /\ gsPackQueue[1] \in Packets
    BY <2>1, <2>2, Tape DEF Last
  <2>7. /\ gsPackQueue[1].size \in Nat /\ gsPackQueue[1].readAmount \in Nat
        /\ gsPack.size \in Nat /\ gsPack.readAmount \in Nat
    BY <2>6, PacketFields, Numbers
  <2>8. pos[1 + 1] = pos[1] + Total(gsPackQueue[1])
    BY <2>1, <2>6 DEF OnTape
  <2>9. readAmount' = pos[Last] - pos[2] + (IF vpc = "push" THEN Total(gsPack) ELSE 0)
    <3>1. readAmount = pos[Last] - pos[1] + (IF vpc = "push" THEN Total(gsPack) ELSE 0)
      BY <2>1, <2>3 DEF OnTape
    <3>2. pos[2] = pos[1] + (gsPackQueue[1].size + gsPackQueue[1].readAmount)
      BY <2>8 DEF Total
    <3>3. (IF vpc = "push" THEN Total(gsPack) ELSE 0) \in Nat
      BY <2>7 DEF Total
    <3>4. pos[1] \in Int /\ pos[2] \in Int /\ pos[Last] \in Int
      BY <2>2, <2>6
    <3>5. PICK last \in Int, a \in Int, b \in Int, t \in Nat, s \in Nat, r \in Nat :
               /\ last = pos[Last] /\ a = pos[1] /\ b = pos[2] /\ t = (IF vpc = "push" THEN Total(gsPack) ELSE 0)
               /\ s = gsPackQueue[1].size /\ r = gsPackQueue[1].readAmount
      BY <2>7, <3>3, <3>4
    <3>6. readAmount' = (last - a + t) - s - r /\ b = a + (s + r)
      BY <2>5, <3>1, <3>2, <3>5
    <3>7. readAmount' = last - b + t
      BY <3>6
    <3>. QED  BY <3>5, <3>7
  <2>10. OnTape(pos)'
    BY <2>1, <2>3, <2>9 DEF OnTape, Total
  <2>11. \A i \in Undrawn' : Placed(pos, i)'
    BY <2>1, <2>3 DEF Placed, Behind
  <2>. QED  BY <2>1, <2>3, <2>10, <2>11 DEF TapeInv
<1>. QED  BY <1>1, <1>2 DEF Transfer

LEMMA ResetTape ==
    ASSUME CountInv, SyncInv, Reset
    PROVE  TapeInv'
<1>1. /\ gsPackQueue' = <<>> /\ Len(gsPackQueue') = 0 /\ readAmount' = 0 /\ gpc' # "pop" /\ vpc' # "push"
  BY DEF Reset, CountInv, SyncInv, EGoto
<1>. DEFINE pos == [i \in 1 .. 1 |-> 0]
<1>2. Last' = 1 /\ First' = 1 /\ Undrawn' = {}
  BY <1>1 DEF Last, First, Undrawn
<1>3. pos \in [1 .. 1 -> Int] /\ pos[1] = 0
  OBVIOUS
<1>. HIDE DEF pos
<1>4. OnTape(pos)'
  BY <1>1, <1>2, <1>3 DEF OnTape
<1>. QED  BY <1>2, <1>3, <1>4 DEF TapeInv

(* The tape.                                                               *)
LEMMA NextTapeInv ==
    ASSUME Places, Buffer, Counters, CountInv, SyncInv, PathInv, TapeInv, [Next]_vars
    PROVE  TapeInv'
<1>1. ASSUME NEW k \in KickSizes, XGkick(k)
     PROVE  TapeInv'
  BY <1>1, SameTape DEF XGkick, shared, path
<1>2. CASE StartProgram
  BY <1>2, SameTape DEF StartProgram, VGoto, shared, path
<1>3. CASE RealignPacket
  <2>1. readAmount \in Nat
    BY ReadAmountNat
  <2>2. CASE Moved
    BY <1>3, <2>2, MovedTape
  <2>3. CASE vpc' = "realign_wait" /\ UNCHANGED path
    BY <1>3, <2>3, SameTape DEF RealignPacket, shared, path
  <2>. QED  BY <1>3, <2>1, <2>2, <2>3, Realigns
<1>4. CASE CopyGSPacketData
  BY <1>4, SameTape DEF CopyGSPacketData, shared
<1>5. CASE ExecuteGSPacketMTVU
  <2>1. gsPack'.offset = gsPack.offset /\ gsPack'.readAmount = gsPack.readAmount
    BY <1>5, ExecuteFields
  <2>. QED  BY <1>5, <2>1, SameTape DEF ExecuteGSPacketMTVU, VGoto, shared
<1>6. CASE WeakWait \/ WeakWaitLoop
  BY <1>6, SameTape DEF WeakWait, WeakWaitLoop, shared, path
<1>7. CASE FinishAdd
  BY <1>7, AddTape
<1>8. CASE FinishPush
  BY <1>8, PushTape
<1>9. CASE FinishPost
  BY <1>9, SameTape DEF FinishPost, VGoto, path
<1>10. CASE Reset
  BY <1>10, ResetTape
<1>11. CASE GSSleep \/ WaitForWork \/ Relock
  BY <1>11, SameTapePush DEF GSSleep, WaitForWork, Relock, GGoto, shared, path
<1>12. CASE TryWait \/ WaitXGkick
  BY <1>12, SameTapePush DEF TryWait, WaitXGkick, GGoto, path
<1>13. CASE Transfer
  BY <1>13, DrawTape
<1>14. CASE PopGSPacketMTVU
  BY <1>14, PopTape
<1>15. CASE ExecuteVU \/ GifStall \/ Vsync \/ WaitVU
  BY <1>15, SameTapePush DEF ExecuteVU, GifStall, Vsync, WaitVU, shared, path
<1>16. CASE TransferGSPacketData \/ GifExecute \/ WaitGS \/ WaitForEmpty \/ Synced
  BY <1>16, SameTapePush DEF TransferGSPacketData, GifExecute, WaitGS, WaitForEmpty, Synced, shared, path
<1>17. CASE UNCHANGED vars
  BY <1>17, SameTapePush DEF vars, shared, path
<1>. QED
  BY <1>1, <1>2, <1>3, <1>4, <1>5, <1>6, <1>7, <1>8, <1>9, <1>10, <1>11, <1>12, <1>13, <1>14, <1>15,
     <1>16, <1>17
     DEF Next, VUStep, EECall, EEStep, GSStep

(* How far behind the open packet the quadwords that are not drawn yet can *)
(* begin.                                                                  *)
LEMMA Reach ==
    ASSUME Buffer, Counters, CountInv, TapeInv, vpc # "push", NEW i \in Undrawn
    PROVE  \E b \in Int :
              /\ b >= gsPackQueue[i].size + gsPack.readAmount /\ b <= readAmount + gsPack.readAmount
              /\ \/ gsPackQueue[i].offset = gsPack.offset - b
                 \/ /\ b >= gsPack.offset + gsPackQueue[i].size
                    /\ gsPackQueue[i].offset >= buffLimit + gsPack.offset - b
<1>1. PICK pos \in [1 .. Last -> Int] : OnTape(pos) /\ \A j \in Undrawn : Placed(pos, j)
  BY DEF TapeInv
<1>2. i \in 1 .. Len(gsPackQueue) /\ gsPackQueue[i] \in Packets
  BY <1>1, Tape DEF Undrawn
<1>3. /\ pos[i] + Total(gsPackQueue[i]) <= pos[Last] /\ pos[Last] - pos[i] <= readAmount
      /\ pos[i] \in Int /\ pos[Last] \in Int /\ readAmount \in Nat
  BY <1>1, <1>2, Tape DEF Last
<1>4. PICK last \in Int, a \in Int, t \in Nat, s \in Nat, r \in Nat :
         /\ last = pos[Last] /\ a = pos[i] /\ t = gsPackQueue[i].readAmount
         /\ s = gsPackQueue[i].size /\ r = gsPack.readAmount
  BY <1>2, <1>3, PacketFields, Numbers
<1>5. a + (s + t) <= last /\ last - a <= readAmount
  BY <1>3, <1>4 DEF Total
<1>6. PICK b \in Int : b = last - a - t + r
  OBVIOUS
<1>7. b >= s + r /\ b <= readAmount + r
  BY <1>3, <1>5, <1>6
<1>8. Behind(pos, i) = b
  BY <1>4, <1>6 DEF Behind
<1>. QED  BY <1>1, <1>4, <1>7, <1>8 DEF Placed

LEMMA UndrawnPackets ==
    ASSUME Buffer, Counters, NEW i \in Undrawn
    PROVE  /\ gsPackQueue[i] \in Packets
           /\ gsPackQueue[i].offset \in Nat /\ gsPackQueue[i].size \in Nat
<1>1. i \in 1 .. Len(gsPackQueue)
  BY DEF Undrawn, Buffer
<1>. QED  BY <1>1, PacketFields DEF Buffer

(* The copy of a kick, once HasRoom.                                       *)
LEMMA CopyClear ==
    ASSUME Buffer, Counters, CountInv, TapeInv, PathInv, CopyGSPacketData, HasRoom, NEW i \in Undrawn
    PROVE  Clear(gsPackQueue[i], gsPack.offset, curSize + kick)
<1>1. PICK b \in Int :
         /\ b >= gsPackQueue[i].size + gsPack.readAmount /\ b <= readAmount + gsPack.readAmount
         /\ \/ gsPackQueue[i].offset = gsPack.offset - b
            \/ /\ b >= gsPack.offset + gsPackQueue[i].size
               /\ gsPackQueue[i].offset >= buffLimit + gsPack.offset - b
  BY Reach DEF CopyGSPacketData
<1>2. PICK o \in Nat, s \in Nat, off \in Nat, r \in Nat, e \in Nat, k \in Nat, ra \in Nat, limit \in Nat :
         /\ o = gsPackQueue[i].offset /\ s = gsPackQueue[i].size
         /\ off = gsPack.offset /\ r = gsPack.readAmount /\ e = curSize /\ k = kick
         /\ ra = readAmount /\ limit = buffLimit
  BY UndrawnPackets, Numbers, ReadAmountNat
<1>3. curOffset - gsPack.size = gsPack.offset
  BY Numbers DEF PathInv
<1>4. off - (ra + r) >= 0 \/ limit + (off - (ra + r)) > e + k
  BY <1>2, <1>3 DEF HasRoom, getReadAmount
<1>5. s = 0 \/ o + s <= off \/ e + k <= o
  <2>1. b >= s + r /\ b <= ra + r
    BY <1>1, <1>2
  <2>2. CASE o = off - b
    BY <2>1, <2>2
  <2>3. CASE b >= off + s /\ o >= limit + off - b
    BY <1>4, <2>1, <2>3
  <2>. QED  BY <1>1, <1>2, <2>2, <2>3
<1>. QED  BY <1>2, <1>5 DEF Clear

(* The move to the start.                                                  *)
LEMMA MovedClear ==
    ASSUME Buffer, Counters, CountInv, TapeInv, PathInv, RealignPacket, Moved, NEW i \in Undrawn
    PROVE  Clear(gsPackQueue[i], gsPack'.offset, curSize')
<1>1. PICK b \in Int :
         /\ b >= gsPackQueue[i].size + gsPack.readAmount /\ b <= readAmount + gsPack.readAmount
         /\ \/ gsPackQueue[i].offset = gsPack.offset - b
            \/ /\ b >= gsPack.offset + gsPackQueue[i].size
               /\ gsPackQueue[i].offset >= buffLimit + gsPack.offset - b
  BY Reach DEF RealignPacket
<1>2. PICK o \in Nat, s \in Nat, off \in Nat, r \in Nat, e \in Nat, ra \in Nat, limit \in Nat :
         /\ o = gsPackQueue[i].offset /\ s = gsPackQueue[i].size
         /\ off = gsPack.offset /\ r = gsPack.readAmount /\ e = curSize
         /\ ra = readAmount /\ limit = buffLimit
  BY UndrawnPackets, Numbers, ReadAmountNat
<1>3. off > 0 /\ r = 0
  BY <1>2 DEF PathInv, RealignPacket, InRealign
<1>4. off - ra >= (IF e - off > off THEN off ELSE e - off)
  BY <1>2 DEF Moved
<1>5. s = 0 \/ o + s <= 0 \/ e - off <= o
  <2>1. b >= s + r /\ b <= ra + r
    BY <1>1, <1>2
  <2>2. CASE o = off - b
    BY <1>3, <1>4, <2>1, <2>2
  <2>3. CASE b >= off + s
    BY <1>3, <1>4, <2>1, <2>3
  <2>. QED  BY <1>1, <1>2, <2>2, <2>3
<1>. QED  BY <1>2, <1>5 DEF Clear, Moved

LEMMA PushClear ==
    ASSUME Buffer, Counters, PathInv, ClearInv, FinishPush
    PROVE  ClearInv'
<1>. DEFINE n == Len(gsPackQueue)
<1>1. /\ n \in Nat /\ Len(gsPackQueue') = n + 1 /\ gsPackQueue'[n + 1] = gsPack
      /\ \A i \in 1 .. n : gsPackQueue'[i] = gsPackQueue[i]
  BY DEF FinishPush, Buffer
<1>2. \A i \in Undrawn' : (i \in Undrawn /\ i \in 1 .. n) \/ i = n + 1
  BY <1>1 DEF Undrawn, FinishPush
<1>3. gsPack.offset + gsPack.size = curSize /\ gsPack'.offset = curSize /\ UNCHANGED curSize
  BY DEF PathInv, FinishPush, VGoto, GSPacket
<1>4. gsPack.offset \in Nat /\ gsPack.size \in Nat /\ curSize \in Nat
  BY Numbers
<1>5. ASSUME NEW i \in Undrawn', NEW j \in Undrawn', i < j
      PROVE  Clear(gsPackQueue'[i], gsPackQueue'[j].offset, gsPackQueue'[j].offset + gsPackQueue'[j].size)
  <2>1. i \in Undrawn /\ i \in 1 .. n
    BY <1>1, <1>2, <1>5
  <2>2. CASE j \in Undrawn /\ j \in 1 .. n
    BY <1>1, <1>5, <2>1, <2>2 DEF ClearInv
  <2>3. CASE j = n + 1
    BY <1>1, <1>3, <2>1, <2>3 DEF ClearInv
  <2>. QED  BY <1>2, <1>5, <2>2, <2>3
<1>6. ASSUME NEW i \in Undrawn' PROVE Clear(gsPackQueue'[i], curSize, curSize)
  <2>1. CASE i \in Undrawn /\ i \in 1 .. n
    <3>1. gsPackQueue'[i] = gsPackQueue[i] /\ Clear(gsPackQueue[i], gsPack.offset, curSize)
      BY <1>1, <2>1 DEF ClearInv
    <3>2. gsPackQueue[i].offset \in Nat /\ gsPackQueue[i].size \in Nat
      BY <2>1, UndrawnPackets
    <3>. QED  BY <1>3, <1>4, <3>1, <3>2 DEF Clear
  <2>2. CASE i = n + 1
    BY <1>1, <1>3, <1>4, <2>2 DEF Clear
  <2>. QED  BY <1>2, <1>6, <2>1, <2>2
<1>. QED  BY <1>3, <1>5, <1>6 DEF ClearInv

LEMMA PopClear ==
    ASSUME Buffer, CountInv, ClearInv, PopGSPacketMTVU
    PROVE  ClearInv'
<1>. DEFINE n == Len(gsPackQueue)
<1>1. /\ n \in Nat /\ n > 0 /\ Len(gsPackQueue') = n - 1
      /\ \A i \in 1 .. n - 1 : gsPackQueue'[i] = gsPackQueue[i + 1]
  BY DEF PopGSPacketMTVU, GGoto, CountInv, Buffer
<1>2. Undrawn = 2 .. n /\ Undrawn' = 1 .. n - 1 /\ UNCHANGED <<gsPack, curSize>>
  BY <1>1 DEF Undrawn, PopGSPacketMTVU, GGoto, path
<1>3. \A i \in Undrawn' : i + 1 \in Undrawn /\ gsPackQueue'[i] = gsPackQueue[i + 1]
  BY <1>1, <1>2
<1>4. ASSUME NEW i \in Undrawn', NEW j \in Undrawn', i < j
      PROVE  Clear(gsPackQueue'[i], gsPackQueue'[j].offset, gsPackQueue'[j].offset + gsPackQueue'[j].size)
  <2>1. i + 1 \in Undrawn /\ j + 1 \in Undrawn /\ i + 1 < j + 1
    BY <1>1, <1>2, <1>4
  <2>. QED  BY <1>3, <2>1 DEF ClearInv
<1>5. \A i \in Undrawn' : Clear(gsPackQueue'[i], gsPack.offset, curSize)
  BY <1>3 DEF ClearInv
<1>. QED  BY <1>2, <1>4, <1>5 DEF ClearInv

(* A step after which no more packets are to be drawn, and that writes     *)
(* nothing.                                                                *)
LEMMA SameClear ==
    ASSUME ClearInv, UNCHANGED <<gsPackQueue, curSize>>, gsPack'.offset = gsPack.offset, Undrawn' \subseteq Undrawn
    PROVE  ClearInv'
BY DEF ClearInv

LEMMA MoveClear ==
    ASSUME Buffer, Counters, CountInv, TapeInv, PathInv, ClearInv, RealignPacket, Moved
    PROVE  ClearInv'
<1>1. Undrawn' = Undrawn /\ UNCHANGED gsPackQueue
  BY DEF RealignPacket, Undrawn, shared
<1>2. \A i \in Undrawn : Clear(gsPackQueue[i], gsPack'.offset, curSize')
  BY MovedClear
<1>. QED  BY <1>1, <1>2 DEF ClearInv

LEMMA WriteClear ==
    ASSUME Buffer, Counters, CountInv, TapeInv, PathInv, ClearInv, CopyGSPacketData
    PROVE  ClearInv'
<1>1. Undrawn' = Undrawn /\ UNCHANGED <<gsPackQueue, gsPack>>
  BY DEF CopyGSPacketData, Undrawn, shared
<1>2. CASE HasRoom
  <2>1. \A i \in Undrawn : Clear(gsPackQueue[i], gsPack.offset, curSize + kick)
    BY <1>2, CopyClear
  <2>2. curSize' = curSize + kick
    BY <1>2 DEF CopyGSPacketData
  <2>. QED  BY <1>1, <2>1, <2>2 DEF ClearInv
<1>3. CASE ~HasRoom
  BY <1>1, <1>3, SameClear DEF CopyGSPacketData
<1>. QED  BY <1>2, <1>3

(* No quadword is written before it is drawn.                              *)
LEMMA NextClearInv ==
    ASSUME Places, Buffer, Counters, CountInv, SyncInv, PathInv, TapeInv, ClearInv, [Next]_vars
    PROVE  ClearInv'
<1>1. ASSUME NEW k \in KickSizes, XGkick(k)
     PROVE  ClearInv'
  BY <1>1, SameClear DEF Undrawn, shared, path, XGkick
<1>2. CASE StartProgram \/ WeakWait \/ WeakWaitLoop
  BY <1>2, SameClear DEF Undrawn, shared, path, StartProgram, WeakWait, WeakWaitLoop
<1>3. CASE RealignPacket
  <2>1. readAmount \in Nat
    BY ReadAmountNat
  <2>2. CASE Moved
    BY <1>3, <2>2, MoveClear
  <2>3. CASE vpc' = "realign_wait" /\ UNCHANGED path
    BY <1>3, <2>3, SameClear DEF RealignPacket, Undrawn, shared, path
  <2>. QED  BY <1>3, <2>1, <2>2, <2>3, Realigns
<1>4. CASE CopyGSPacketData
  BY <1>4, WriteClear
<1>5. CASE ExecuteGSPacketMTVU
  <2>1. gsPack'.offset = gsPack.offset
    BY <1>5, ExecuteFields
  <2>. QED  BY <1>5, <2>1, SameClear DEF ExecuteGSPacketMTVU, Undrawn, shared
<1>6. CASE FinishAdd \/ FinishPost
  BY <1>6, SameClear DEF Undrawn, shared, path, FinishAdd, FinishPost
<1>7. CASE FinishPush
  BY <1>7, PushClear
<1>8. CASE Reset
  <2>1. Len(gsPackQueue') = 0 /\ gpc' # "pop"
    BY <1>8 DEF Reset, EGoto, SyncInv
  <2>2. Undrawn' = {}
    BY <2>1 DEF Undrawn
  <2>. QED  BY <2>2 DEF ClearInv
<1>9. CASE GSSleep \/ WaitForWork \/ Relock
  BY <1>9, SameClear DEF Undrawn, shared, path, GSSleep, WaitForWork, Relock, GGoto
<1>10. CASE TryWait \/ WaitXGkick
  BY <1>10, SameClear DEF Undrawn, shared, path, TryWait, WaitXGkick, GGoto
<1>11. CASE Transfer
  <2>1. Len(gsPackQueue) \in Nat
    BY DEF Buffer
  <2>2. Undrawn' \subseteq Undrawn
    BY <1>11, <2>1 DEF Transfer, GGoto, Undrawn
  <2>. QED  BY <1>11, <2>2, SameClear DEF Transfer, path
<1>12. CASE PopGSPacketMTVU
  BY <1>12, PopClear
<1>13. CASE ExecuteVU \/ GifStall \/ Vsync \/ WaitVU
  BY <1>13, SameClear DEF Undrawn, shared, path, ExecuteVU, GifStall, Vsync, WaitVU
<1>14. CASE TransferGSPacketData \/ GifExecute \/ WaitGS \/ WaitForEmpty \/ Synced
  BY <1>14, SameClear DEF Undrawn, shared, path, TransferGSPacketData, GifExecute, WaitGS, WaitForEmpty, Synced
<1>15. CASE UNCHANGED vars
  BY <1>15, SameClear DEF Undrawn, shared, path, vars
<1>. QED
  BY <1>1, <1>2, <1>3, <1>4, <1>5, <1>6, <1>7, <1>8, <1>9, <1>10, <1>11, <1>12, <1>13, <1>14, <1>15
     DEF Next, VUStep, EECall, EEStep, GSStep

-----------------------------------------------------------------------------
IInv == Places /\ Counters /\ Buffer /\ CountInv /\ SyncInv /\ PathInv /\ TapeInv /\ ClearInv

LEMMA InitIInv == Init => IInv
<1>. SUFFICES ASSUME Init PROVE IInv
  OBVIOUS
<1>. USE DEF Init
<1>1. Places /\ Counters
  BY DEF Places, Counters
<1>2. 0 \in 0 .. buffSize
  BY Constants
<1>3. Buffer
  BY <1>2, PacketFields DEF Buffer
<1>4. CountInv /\ SyncInv
  BY DEF CountInv, SyncInv, Posting, Taken
<1>5. PathInv
  BY <1>2, PacketFields DEF PathInv, InRoom, InRealign
<1>6. Last = 1 /\ First = 1 /\ Undrawn = {}
  BY DEF Last, First, Undrawn
<1>7. TapeInv
  <2>. DEFINE pos == [i \in 1 .. 1 |-> 0]
  <2>1. pos \in [1 .. 1 -> Int] /\ pos[1] = 0
    OBVIOUS
  <2>. HIDE DEF pos
  <2>2. OnTape(pos)
    BY <1>6, <2>1 DEF OnTape
  <2>. QED  BY <1>6, <2>1, <2>2 DEF TapeInv
<1>8. ClearInv
  BY <1>6 DEF ClearInv
<1>. QED  BY <1>1, <1>3, <1>4, <1>5, <1>7, <1>8 DEF IInv

LEMMA NextIInv ==
    ASSUME IInv, [Next]_vars
    PROVE  IInv'
<1>1. readAmount \in Nat
  BY ReadAmountNat DEF IInv
<1>. QED
  BY <1>1, NextPlaces, NextCounters, NextBuffer, NextCountInv, NextSyncInv, NextPathInv, NextTapeInv,
     NextClearInv DEF IInv

LEMMA AlwaysIInv == Spec => []IInv
<1>1. IInv /\ [Next]_vars => IInv'
  BY NextIInv
<1>. QED  BY <1>1, InitIInv, PTL DEF Spec

(* BufferIntact: the VU thread writes into a buffer it shares with the GS  *)
(* thread without a copy and without a lock, and no quadword is written    *)
(* again before the GS thread has drawn it. Gif_Path's CopyGSPacketData    *)
(* and RealignPacket have no bound on the number of packets, and neither   *)
(* has the proof.                                                          *)
THEOREM BufferStaysIntact == Spec => []BufferIntact
<1>1. ASSUME IInv PROVE BufferIntact
  <2>. USE <1>1 DEF IInv
  <2>1. TypeOK
    <3>1. {readAmount, semaXGkick, fakePackets, ring, programs, kick, startP1Packs, excess} \subseteq Nat
      BY ReadAmountNat DEF Counters
    <3>2. /\ curSize \in 0 .. buffSize /\ curOffset \in 0 .. buffSize
          /\ gsPackQueue \in Seq([offset : 0 .. buffSize, size : 0 .. ProgramLimit, readAmount : 0 .. buffLimit])
          /\ gsPack \in [offset : 0 .. buffSize, size : 0 .. ProgramLimit, readAmount : 0 .. buffLimit]
      BY DEF Buffer, Packets
    <3>. QED  BY <3>1, <3>2 DEF TypeOK, Places
  <2>2. ASSUME NEW p, NEW from \in Int, NEW to \in Int, NEW x, p.offset \in Nat, p.size \in Nat,
               Clear(p, from, to), x \in Quadwords(p), x \in from .. to - 1
        PROVE  FALSE
    <3>1. PICK o \in Nat, s \in Nat : o = p.offset /\ s = p.size
      BY <2>2
    <3>2. x \in Int /\ o <= x /\ x <= o + s - 1
      BY <2>2, <3>1 DEF Quadwords
    <3>3. s = 0 \/ o + s <= from \/ to <= o
      BY <2>2, <3>1 DEF Clear
    <3>. QED  BY <2>2, <3>2, <3>3
  <2>3. ASSUME NEW i \in Undrawn, NEW j \in Undrawn, i < j
        PROVE  Quadwords(gsPackQueue[i]) \cap Quadwords(gsPackQueue[j]) = {}
    <3>. DEFINE q == gsPackQueue[j]
    <3>1. /\ gsPackQueue[i].offset \in Nat /\ gsPackQueue[i].size \in Nat
          /\ q.offset \in Nat /\ q.size \in Nat /\ q.offset + q.size \in Int /\ q.offset \in Int
      BY UndrawnPackets
    <3>2. Clear(gsPackQueue[i], q.offset, q.offset + q.size)
      BY <2>3 DEF ClearInv
    <3>3. Quadwords(q) = q.offset .. (q.offset + q.size) - 1
      <4>1. \A o, s \in Nat : o .. o + s - 1 = o .. (o + s) - 1
        OBVIOUS
      <4>. QED  BY <3>1, <4>1 DEF Quadwords
    <3>. HIDE DEF q
    <3>4. \A x : ~(x \in Quadwords(gsPackQueue[i]) /\ x \in Quadwords(q))
      BY <2>2, <3>1, <3>2, <3>3
    <3>. QED  BY <3>4 DEF q
  <2>4. ASSUME NEW i \in Undrawn
        PROVE  Quadwords(gsPackQueue[i]) \cap (gsPack.offset .. curSize - 1) = {}
    <3>1. /\ gsPackQueue[i].offset \in Nat /\ gsPackQueue[i].size \in Nat
          /\ gsPack.offset \in Int /\ curSize \in Int
      BY UndrawnPackets, Numbers
    <3>2. Clear(gsPackQueue[i], gsPack.offset, curSize)
      BY DEF ClearInv
    <3>3. \A x : ~(x \in Quadwords(gsPackQueue[i]) /\ x \in gsPack.offset .. curSize - 1)
      BY <2>2, <3>1, <3>2
    <3>. QED  BY <3>3
  <2>5. \A i \in Undrawn : i \in Int
    BY DEF Undrawn, Buffer
  <2>6. \A i, j \in Undrawn : i # j => Quadwords(gsPackQueue[i]) \cap Quadwords(gsPackQueue[j]) = {}
    <3>1. SUFFICES ASSUME NEW i \in Undrawn, NEW j \in Undrawn, i # j
                   PROVE  Quadwords(gsPackQueue[i]) \cap Quadwords(gsPackQueue[j]) = {}
      OBVIOUS
    <3>2. i < j \/ j < i
      BY <2>5, <3>1
    <3>3. CASE i < j
      BY <2>3, <3>3
    <3>4. CASE j < i
      <4>1. Quadwords(gsPackQueue[j]) \cap Quadwords(gsPackQueue[i]) = {}
        BY <2>3, <3>4
      <4>. QED  BY <4>1
    <3>. QED  BY <3>2, <3>3, <3>4
  <2>. QED  BY <2>1, <2>4, <2>6 DEF BufferIntact
<1>. QED  BY <1>1, AlwaysIInv, PTL

(* OnePacketPerProgram: the EE thread and the VU thread count the same     *)
(* programs, so MTVUGSPacket finds a packet in the queue (GetGSPacketMTVU, *)
(* Expected gsPackQueue to have elements).  Only the posts that a reset    *)
(* with packets held back leaves behind (Gif_Path_MTVU's Reset, which does *)
(* not know of semaXGkick) can let the GS thread look too early.           *)
THEOREM PacketsMatchPrograms == Spec => []OnePacketPerProgram
<1>1. ASSUME IInv PROVE OnePacketPerProgram
  <2>. USE <1>1 DEF IInv, Counters
  <2>1. Len(gsPackQueue) \in Nat /\ semaXGkick \in Nat /\ excess \in Nat
    BY DEF Buffer
  <2>2. fakePackets + ring + (IF epc = "transfer" THEN 1 ELSE 0)
          = Len(gsPackQueue) + programs - (IF vpc = "post" THEN 1 ELSE 0)
    BY DEF CountInv, Posting
  <2>3. gpc \in {"get", "transfer", "pop", "relock_get"} /\ Len(gsPackQueue) = 0 => excess > 0
    BY <2>1 DEF CountInv, Taken, Posting
  <2>4. gsPackQueue = <<>> => Len(gsPackQueue) = 0
    OBVIOUS
  <2>5. gpc = "failed" => excess > 0
    BY DEF CountInv
  <2>. QED  BY <2>2, <2>3, <2>4, <2>5 DEF OnePacketPerProgram
<1>. QED  BY <1>1, AlwaysIInv, PTL

(* QuietWhenSynced: when the EE thread has waited for the VU and the GS    *)
(* thread, what gifPathFreeze asserts to be nothing are just the packets   *)
(* of the programs the GIF holds back (fakePackets).                       *)
THEOREM QuietAtFreeze == Spec => []QuietWhenSynced
<1>1. ASSUME IInv, epc = "synced"
      PROVE  /\ gsPack.readAmount = 0 /\ Len(gsPackQueue) = fakePackets
             /\ fakePackets = 0 => readAmount = 0
  <2>. USE <1>1 DEF IInv
  <2>1. programs = 0 /\ ring = 0 /\ gpc = "sleep" /\ vpc = "idle"
    BY DEF SyncInv, CountInv, Counters, Places
  <2>2. Len(gsPackQueue) \in Nat
    BY DEF Buffer
  <2>3. Len(gsPackQueue) = fakePackets
    BY <2>1, <2>2 DEF CountInv, Counters, Posting
  <2>4. gsPack.readAmount = 0
    BY <2>1 DEF PathInv
  <2>5. ASSUME fakePackets = 0 PROVE readAmount = 0
    <3>1. PICK pos \in [1 .. Last -> Int] : OnTape(pos)
      BY DEF TapeInv
    <3>2. First = 1 /\ Last = 1
      BY <2>1, <2>3, <2>5 DEF First, Last
    <3>. QED  BY <2>1, <3>1, <3>2 DEF OnTape
  <2>. QED  BY <2>3, <2>4, <2>5
<1>2. IInv => QuietWhenSynced
  BY <1>1 DEF QuietWhenSynced
<1>. QED  BY <1>2, AlwaysIInv, PTL

=============================================================================
