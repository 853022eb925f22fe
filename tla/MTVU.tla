-------------------------------- MODULE MTVU --------------------------------
(***************************************************************************)
(* The multithreaded VU1 (pcsx2/MTVU.cpp): the EE thread writes packets    *)
(* into a ring buffer, the VU thread carries them out.  Modelled are the   *)
(* ring with both threads' local and published positions, the null packet  *)
(* that ends a lap, the stall of the EE thread behind a slow VU thread,    *)
(* WaitVU, Reset, and the start and the end of the VU thread.              *)
(*                                                                         *)
(* A packet never wraps: when it does not fit behind m_write_pos, a null   *)
(* packet sends the reader back to slot 0.  Word i of a packet of kind k   *)
(* is <<k, i>>, its tag being word 0.  A word that was read is forgotten,  *)
(* so that a second read of it would show.  semaEvent is a WorkSema,       *)
(* reduced as in module MTGS.  What a VU program does to the GIF is module *)
(* GifPath1, the interrupts it raises are module MTVUInterrupts.           *)
(***************************************************************************)
EXTENDS Integers, Sequences, RingOrder

CONSTANTS
    buffer_size,   \* words of the ring
    SafetyNet,     \* the words WaitOnSize keeps free in front of the reader, _4kb
    ExecuteLen,    \* words of a MTVU_VU_EXECUTE packet
    WriteLen       \* words of any other packet

ASSUME SizeAssumption ==
    /\ {buffer_size, SafetyNet, ExecuteLen, WriteLen} \subseteq Nat
    /\ ExecuteLen > 0 /\ WriteLen > 0
    /\ ExecuteLen + SafetyNet < buffer_size - 1 /\ WriteLen + SafetyNet < buffer_size - 1

VARIABLES
    buffer,
    m_ato_read_pos, m_read_pos,     \* written by the VU thread
    m_ato_write_pos, m_write_pos,   \* written by the EE thread
    semaEvent,                      \* "idle", "work", "sleep" or "dead"
    m_shutdown_flag,
    epc, packet,                    \* where the EE thread is, and what it sends
    vpc,                            \* where the VU thread is
    lapped                          \* ghost: a lap of the EE thread has caught up with the reader

reader == <<m_ato_read_pos, m_read_pos>>
writer == <<m_ato_write_pos, m_write_pos>>

vars == <<buffer, reader, writer, semaEvent, m_shutdown_flag, epc, packet, vpc, lapped>>

Slots == 0 .. buffer_size - 1

Packets == {"execute", "write"}

free == <<"free", 0>>

MTVU_NULL_PACKET == <<"null", 0>>

Size(k) == IF k = "execute" THEN ExecuteLen ELSE WriteLen

Words == {free, MTVU_NULL_PACKET} \cup UNION {{k} \X (0 .. Size(k) - 1) : k \in Packets}

Init ==
    /\ buffer = [p \in Slots |-> free]
    /\ m_ato_read_pos = 0 /\ m_read_pos = 0
    /\ m_ato_write_pos = 0 /\ m_write_pos = 0
    /\ semaEvent = "idle" /\ m_shutdown_flag = FALSE
    /\ epc = "new" /\ packet = "write"
    /\ vpc = "none" /\ lapped = FALSE

-----------------------------------------------------------------------------
(* The EE thread.                                                          *)

Goto(here, there) == epc = here /\ epc' = there

KickStart == semaEvent' = IF semaEvent = "dead" THEN "dead" ELSE "work"

(* Open, from the reservation of the recompiler.                           *)
Open ==
    /\ Goto("new", "idle")
    /\ vpc = "none" /\ vpc' = "wait"
    /\ m_shutdown_flag' = FALSE
    /\ UNCHANGED <<buffer, reader, writer, semaEvent, packet, lapped>>

(* ExecuteVU, VifUnpack, WriteMicroMem, WriteDataMem, WriteVIRegs,         *)
(* WriteVFRegs, WriteCol and WriteRow differ in the length of what they    *)
(* write.                                                                  *)
Begin(k) ==
    /\ Goto("idle", "reserve")
    /\ packet' = k
    /\ UNCHANGED <<buffer, reader, writer, semaEvent, m_shutdown_flag, vpc, lapped>>

ReserveSpace ==
    /\ epc = "reserve"
    /\ epc' = IF m_write_pos + Size(packet) > buffer_size - 1 THEN "null_room" ELSE "room"
    /\ UNCHANGED <<buffer, reader, writer, semaEvent, m_shutdown_flag, packet, vpc, lapped>>

(* Mutant: the reader in front is not minded.                              *)
HasRoomAnyway(size) == m_ato_read_pos <= m_write_pos \/ m_ato_read_pos > m_write_pos

HasRoom(size) ==
    \/ m_ato_read_pos <= m_write_pos
    \/ m_ato_read_pos > m_write_pos + size + SafetyNet

(* WaitOnSize: one look at the reader, and a kick if it is in the way.     *)
WaitOnSize ==
    /\ \/ epc = "null_room" /\ epc' = IF HasRoom(1) THEN "null" ELSE "null_kick"
       \/ epc = "room" /\ epc' = IF HasRoom(Size(packet)) THEN "write" ELSE "room_kick"
    /\ UNCHANGED <<buffer, reader, writer, semaEvent, m_shutdown_flag, packet, vpc, lapped>>

WaitOnSizeKick ==
    /\ Goto("null_kick", "null_room") \/ Goto("room_kick", "room")
    /\ KickStart
    /\ UNCHANGED <<buffer, reader, writer, m_shutdown_flag, packet, vpc, lapped>>

(* The reader is on the writer's lap and has left slot 0, where the writer *)
(* goes next.  WaitOnSize does not ask for it.                             *)
ReaderFollows == 0 < m_ato_read_pos /\ m_ato_read_pos <= m_write_pos

WriteNull ==
    /\ Goto("null", "null_commit")
    /\ buffer' = [buffer EXCEPT ![m_write_pos] = MTVU_NULL_PACKET]
    /\ m_write_pos' = 0
    /\ lapped' = (lapped \/ ~ReaderFollows)
    /\ UNCHANGED <<reader, m_ato_write_pos, semaEvent, m_shutdown_flag, packet, vpc>>

Write ==
    /\ Goto("write", "commit")
    /\ buffer' = [p \in Slots |-> IF p \in m_write_pos .. m_write_pos + Size(packet) - 1
                                    THEN <<packet, p - m_write_pos>> ELSE buffer[p]]
    /\ m_write_pos' = m_write_pos + Size(packet)
    /\ UNCHANGED <<reader, m_ato_write_pos, semaEvent, m_shutdown_flag, packet, vpc, lapped>>

CommitWritePos ==
    /\ Goto("null_commit", "room") \/ Goto("commit", "kick")
    /\ m_ato_write_pos' = m_write_pos
    /\ UNCHANGED <<buffer, reader, m_write_pos, semaEvent, m_shutdown_flag, packet, vpc, lapped>>

Announce ==
    /\ Goto("kick", "idle")
    /\ KickStart
    /\ UNCHANGED <<buffer, reader, writer, m_shutdown_flag, packet, vpc, lapped>>

WaitVU ==
    /\ Goto("idle", "wait_vu")
    /\ UNCHANGED <<buffer, reader, writer, semaEvent, m_shutdown_flag, packet, vpc, lapped>>

(* Mutant: WaitVU only asks whether the VU thread has taken the work.      *)
WaitForTaken ==
    /\ Goto("wait_vu", "synced")
    /\ semaEvent # "work"
    /\ UNCHANGED <<buffer, reader, writer, semaEvent, m_shutdown_flag, packet, vpc, lapped>>

(* The VU thread sleeps and the positions are the same: what a lap has     *)
(* left unread nobody will read, and the ring starts anew.                 *)
WaitForEmpty ==
    /\ Goto("wait_vu", "synced")
    /\ semaEvent \in {"sleep", "dead"}
    /\ lapped' = FALSE
    /\ buffer' = IF lapped THEN [p \in Slots |-> free] ELSE buffer
    /\ UNCHANGED <<reader, writer, semaEvent, m_shutdown_flag, packet, vpc>>

(* What follows a WaitVU: back to the EE, or a Reset, for a reset of the   *)
(* VM and for a state that is loaded (mtvuFreeze).                         *)
Synced ==
    /\ Goto("synced", "idle")
    /\ UNCHANGED <<buffer, reader, writer, semaEvent, m_shutdown_flag, packet, vpc, lapped>>

Reset ==
    /\ Goto("synced", "idle")
    /\ m_ato_write_pos' = 0 /\ m_write_pos' = 0
    /\ m_ato_read_pos' = 0 /\ m_read_pos' = 0
    /\ UNCHANGED <<buffer, semaEvent, m_shutdown_flag, packet, vpc, lapped>>

(* Close, from the destructor: the flag, the kick, the join.               *)
Close ==
    /\ Goto("idle", "close_kick")
    /\ m_shutdown_flag' = TRUE
    /\ UNCHANGED <<buffer, reader, writer, semaEvent, packet, vpc, lapped>>

(* Mutant: the VU thread is not woken to see the flag.                     *)
CloseSilently ==
    /\ Goto("close_kick", "join")
    /\ UNCHANGED <<buffer, reader, writer, semaEvent, m_shutdown_flag, packet, vpc, lapped>>

CloseKick ==
    /\ Goto("close_kick", "join")
    /\ KickStart
    /\ UNCHANGED <<buffer, reader, writer, m_shutdown_flag, packet, vpc, lapped>>

Join ==
    /\ Goto("join", "gone")
    /\ vpc = "none"
    /\ UNCHANGED <<buffer, reader, writer, semaEvent, m_shutdown_flag, packet, vpc, lapped>>

-----------------------------------------------------------------------------
(* The VU thread: ExecuteRingBuffer.                                       *)

WaitForWork ==
    /\ vpc = "wait"
    /\ \/ semaEvent = "work" /\ semaEvent' = "idle" /\ vpc' = "check"
       \/ semaEvent = "idle" /\ semaEvent' = "sleep" /\ vpc' = "wait"
    /\ UNCHANGED <<buffer, reader, writer, m_shutdown_flag, epc, packet, lapped>>

CheckShutdown ==
    /\ vpc = "check"
    /\ IF m_shutdown_flag THEN vpc' = "none" /\ semaEvent' = "dead"
                          ELSE vpc' = "loop" /\ UNCHANGED semaEvent
    /\ UNCHANGED <<buffer, reader, writer, m_shutdown_flag, epc, packet, lapped>>

FoundEmpty ==
    /\ vpc = "loop" /\ m_ato_read_pos = m_ato_write_pos
    /\ vpc' = "wait"
    /\ UNCHANGED <<buffer, reader, writer, semaEvent, m_shutdown_flag, epc, packet, lapped>>

(* The tag says what to do and how many words to read.  A word that is no  *)
(* tag is undefined behaviour (jNO_DEFAULT), at which the model stops.     *)
Execute ==
    /\ vpc = "loop" /\ m_ato_read_pos # m_ato_write_pos
    /\ LET tag == buffer[m_read_pos] IN
         \/ tag = MTVU_NULL_PACKET /\ m_read_pos' = 0
         \/ \E k \in Packets : tag = <<k, 0>> /\ m_read_pos' = m_read_pos + Size(k)
    /\ vpc' = "commit"
    /\ UNCHANGED <<buffer, m_ato_read_pos, writer, semaEvent, m_shutdown_flag, epc, packet, lapped>>

CommitReadPos ==
    /\ vpc = "commit" /\ vpc' = "loop"
    /\ m_ato_read_pos' = m_read_pos
    /\ LET last == IF m_read_pos = 0 THEN m_ato_read_pos ELSE m_read_pos - 1
       IN  buffer' = [p \in Slots |-> IF p \in m_ato_read_pos .. last THEN free ELSE buffer[p]]
    /\ UNCHANGED <<m_read_pos, writer, semaEvent, m_shutdown_flag, epc, packet, lapped>>

-----------------------------------------------------------------------------
EECall == (\E k \in Packets : Begin(k)) \/ Open \/ WaitVU \/ Close

EEStep ==
    \/ ReserveSpace \/ WaitOnSize \/ WaitOnSizeKick \/ WriteNull \/ Write \/ CommitWritePos \/ Announce
    \/ WaitForEmpty \/ Synced \/ Reset \/ CloseKick \/ Join

VUStep == WaitForWork \/ CheckShutdown \/ FoundEmpty \/ Execute \/ CommitReadPos

Next == EECall \/ EEStep \/ VUStep

Spec == Init /\ [][Next]_vars

(* Both threads are scheduled; the EE thread need not send anything.       *)
FairSpec == Spec /\ WF_vars(EEStep) /\ WF_vars(VUStep)

-----------------------------------------------------------------------------
(* Every word of the packet at position r is the one that was written.     *)
Intact(r, k) == r + Size(k) <= buffer_size /\ \A i \in 0 .. Size(k) - 1 : buffer[r + i] = <<k, i>>

(* The words between the published positions, and the slot i of them on.   *)
Unread == (m_ato_write_pos - m_ato_read_pos) % buffer_size

Ahead(i) == (m_ato_read_pos + i) % buffer_size

(* Where a packet begins among them; what the VU thread reads next is one  *)
(* unless it is a null packet.                                             *)
Heads ==
    {i \in 0 .. Unread - 1 : \/ \E k \in Packets : buffer[Ahead(i)] = <<k, 0>>
                             \/ i = 0 /\ buffer[Ahead(i)] # MTVU_NULL_PACKET}

Contents ==
    [i \in Slots |-> IF \E k \in Packets : Intact(Ahead(i), k) THEN buffer[Ahead(i)][1] ELSE "garbage"]

(* The packets the VU thread has before it, in the order it meets them.    *)
Queue == InOrder(Heads, Contents)

EEPC == {"new", "idle", "reserve", "null_room", "null_kick", "null", "null_commit", "room", "room_kick",
         "write", "commit", "kick", "wait_vu", "synced", "close_kick", "join", "gone"}

(* Those among them it is sure to carry out: none once the writer has gone *)
(* over them.                                                              *)
Promised == IF lapped THEN <<>> ELSE Queue

(* The types; every position stays where a null packet still fits.         *)
TypeOK ==
    /\ buffer \in [Slots -> Words]
    /\ {m_ato_read_pos, m_read_pos, m_ato_write_pos, m_write_pos} \subseteq Slots
    /\ semaEvent \in {"idle", "work", "sleep", "dead"} /\ m_shutdown_flag \in BOOLEAN
    /\ epc \in EEPC /\ packet \in Packets /\ lapped \in BOOLEAN
    /\ vpc \in {"none", "wait", "check", "loop", "commit"}

(* The ring is a queue: the VU thread carries out the packets the EE       *)
(* thread sent, each once, in order, and with the words that were written, *)
(* wherever a lap ends and however far behind it is.  Nothing is dropped   *)
(* but by a writer that begins a lap before the reader follows it, and     *)
(* then until the next WaitVU; a Reset finds the queue empty.              *)
Channel ==
    INSTANCE GSChannel
        WITH queue <- Promised, Commands <- Packets,
             dropping <- epc = "null" /\ ~ReaderFollows

ChannelSpec == Channel!Spec

(* WaitVU returns when the VU thread has done everything and is asleep:    *)
(* what it left behind may be read, and Reset may write its positions.     *)
(* And the positions are always inside the ring, a lap's null packet and   *)
(* the packet after it included.                                           *)
WaitVUMeansDone ==
    /\ TypeOK
    /\ epc = "synced" => /\ m_ato_read_pos = m_ato_write_pos /\ m_read_pos = m_write_pos
                         /\ semaEvent = "sleep" /\ vpc = "wait"

(* The EE thread gets its room, because a VU thread in the way moves on;   *)
(* WaitVU returns; and Close joins a VU thread that sleeps, works or is    *)
(* about to sleep.  After a lap too many the VU thread may meet a word     *)
(* that is no tag.                                                         *)
CallsReturn ==
    /\ epc \in {"null_kick", "room_kick"} ~> epc = "write" \/ lapped
    /\ epc = "wait_vu" ~> epc = "synced" \/ lapped
    /\ epc = "close_kick" ~> epc = "gone" \/ lapped

=============================================================================
