----------------------------- MODULE MTVUProofs -----------------------------
(***************************************************************************)
(* Proofs about the multithreaded VU1.  Of module MTVU, for every size of  *)
(* the ring and of its packets: what WaitVU promises, and, until the EE    *)
(* thread is a whole lap ahead, that the VU thread meets nothing but the   *)
(* packets that were written, whole, and that the ring is a queue.  Of     *)
(* module MTVUInterrupts the safety of the interrupt hand-over from the VU *)
(* thread to the EE.                                                       *)
(***************************************************************************)
EXTENDS MTVU, MTVUInterrupts, RingOrderProofs, FiniteSetTheorems, TLAPS

-----------------------------------------------------------------------------
(* The types, and what keeps the positions inside the ring.                *)

Types ==
    /\ buffer \in [Slots -> Words]
    /\ m_ato_read_pos \in Slots /\ m_read_pos \in Slots /\ m_ato_write_pos \in Slots /\ m_write_pos \in Slots

Places ==
    /\ epc \in EEPC /\ packet \in Packets /\ m_shutdown_flag \in BOOLEAN /\ lapped \in BOOLEAN
    /\ vpc \in {"none", "wait", "check", "loop", "commit"}
    /\ semaEvent \in {"idle", "work", "sleep", "dead"}

(* A tag was only written where its packet and a null packet fit.          *)
Fits ==
    /\ \A p \in Slots, k \in Packets : buffer[p] = <<k, 0>> => p + Size(k) <= buffer_size - 1
    /\ epc \in {"room", "room_kick", "write"} => m_write_pos + Size(packet) <= buffer_size - 1
    /\ epc = "null_commit" => m_write_pos = 0

(* Where a thread's own position is not the published one.                 *)
Published ==
    /\ vpc # "commit" => m_read_pos = m_ato_read_pos
    /\ epc \notin {"null_commit", "commit"} => m_write_pos = m_ato_write_pos
    /\ epc = "commit" => m_write_pos = m_ato_write_pos + Size(packet)

(* The life of the VU thread, and the semaphore between the threads: one   *)
(* that sleeps, or is about to, has left nothing that was announced.       *)
Calm == {"new", "idle", "wait_vu", "synced"}

SyncInv ==
    /\ m_shutdown_flag => epc \in {"close_kick", "join", "gone"}
    /\ vpc = "none" => epc \in {"new", "close_kick", "join", "gone"}
    /\ semaEvent = "sleep" => vpc = "wait"
    /\ semaEvent = "dead" => vpc = "none"
    /\ epc \in Calm /\ vpc = "wait" /\ semaEvent # "work" => m_ato_read_pos = m_ato_write_pos
    /\ epc = "synced" => semaEvent = "sleep"
    /\ epc = "new" => vpc = "none" /\ m_ato_read_pos = m_ato_write_pos /\ semaEvent = "idle"

SafeInv == Types /\ Places /\ Fits /\ Published /\ SyncInv

-----------------------------------------------------------------------------
(* The ring between the published read position and the writer's own.      *)

IsTag(p) == buffer[p] = MTVU_NULL_PACKET \/ \E k \in Packets : buffer[p] = <<k, 0>>

(* A packet is whole, and the next one or the writer is behind it.         *)
PacketAt(p, k) ==
    /\ \A i \in 0 .. Size(k) - 1 : buffer[p + i] = <<k, i>>
    /\ p + Size(k) = m_write_pos \/ IsTag(p + Size(k))

(* A null packet ends the lap the reader is in.                            *)
NullAt(p) ==
    /\ m_write_pos < m_ato_read_pos /\ m_ato_read_pos <= p
    /\ \A q \in Slots : q > p => buffer[q] = free
    /\ m_write_pos = 0 \/ IsTag(0)

Layout ==
    /\ \A p \in Slots, k \in Packets : buffer[p] = <<k, 0>> => PacketAt(p, k)
    /\ \A p \in Slots : buffer[p] = MTVU_NULL_PACKET => NullAt(p)
    /\ \A p \in Slots : buffer[p] # free =>
          IF m_ato_read_pos <= m_write_pos THEN m_ato_read_pos <= p /\ p < m_write_pos
                                           ELSE m_ato_read_pos <= p \/ p < m_write_pos
    /\ m_ato_read_pos # m_write_pos => IsTag(m_ato_read_pos)

(* What the EE thread has made sure of, and what it has written but not    *)
(* published.                                                              *)
WriteInv ==
    /\ epc = "write" => \/ m_ato_read_pos <= m_write_pos
                        \/ m_ato_read_pos > m_write_pos + Size(packet)
    /\ epc = "commit" => buffer[m_ato_write_pos] = <<packet, 0>>
    /\ epc = "null_commit" => buffer[m_ato_write_pos] = MTVU_NULL_PACKET

(* What the VU thread has read but not released.                           *)
ReadInv ==
    vpc = "commit" =>
      /\ m_ato_read_pos # m_ato_write_pos /\ m_ato_read_pos # m_write_pos
      /\ \/ buffer[m_ato_read_pos] = MTVU_NULL_PACKET /\ m_read_pos = 0
         \/ \E k \in Packets : buffer[m_ato_read_pos] = <<k, 0>> /\ m_read_pos = m_ato_read_pos + Size(k)

(* All of that holds until the EE thread is a whole lap ahead.             *)
RingInv == Layout /\ WriteInv /\ ReadInv

IInv == SafeInv /\ (~lapped => RingInv)

(* The VU thread meets a tag wherever the positions say that there is a    *)
(* packet, and the packet is whole; and where they say that there is none, *)
(* the ring is empty but for what the EE thread is about to publish: a     *)
(* writer that is a whole lap ahead looks like an empty ring.              *)
PacketsIntact == ~lapped =>
    /\ vpc = "loop" /\ m_ato_read_pos # m_ato_write_pos =>
          \/ buffer[m_read_pos] = MTVU_NULL_PACKET
          \/ \E k \in Packets : Intact(m_read_pos, k)
    /\ m_ato_read_pos = m_ato_write_pos /\ epc \notin {"commit", "null_commit"} =>
          \A p \in Slots : buffer[p] = free

-----------------------------------------------------------------------------
(* The constants one by one, and the words.                                *)
LEMMA Constants ==
    /\ buffer_size \in Nat /\ SafetyNet \in Nat
    /\ \A k \in Packets : Size(k) \in Nat /\ Size(k) > 0 /\ Size(k) + SafetyNet < buffer_size - 1
BY SizeAssumption DEF Size

LEMMA Numbers ==
    /\ 0 \in Slots /\ \A p \in Slots : p \in Nat /\ p < buffer_size
    /\ \A n \in Nat : n <= buffer_size - 1 => n \in Slots
<1>1. buffer_size \in Nat /\ buffer_size > 0
  <2>1. "execute" \in Packets
    BY DEF Packets
  <2>2. PICK n \in Nat : n = Size("execute") /\ n + SafetyNet < buffer_size - 1
    BY <2>1, Constants
  <2>. QED  BY <2>2, Constants
<1>. QED  BY <1>1 DEF Slots

LEMMA AllWords ==
    /\ free \in Words /\ MTVU_NULL_PACKET \in Words /\ free # MTVU_NULL_PACKET
    /\ \A k \in Packets : \A i \in 0 .. Size(k) - 1 : <<k, i>> \in Words
    /\ \A k \in Packets : \A i : <<k, i>> # free /\ <<k, i>> # MTVU_NULL_PACKET
<1>1. free \in Words /\ MTVU_NULL_PACKET \in Words
  BY DEF Words
<1>2. free # MTVU_NULL_PACKET
  BY DEF free, MTVU_NULL_PACKET
<1>3. ASSUME NEW k \in Packets, NEW i \in 0 .. Size(k) - 1 PROVE <<k, i>> \in Words
  <2>1. <<k, i>> \in {k} \X (0 .. Size(k) - 1)
    BY <1>3
  <2>. QED  BY <2>1 DEF Words
<1>4. \A k \in Packets : \A i : <<k, i>> # free /\ <<k, i>> # MTVU_NULL_PACKET
  BY DEF free, MTVU_NULL_PACKET, Packets
<1>. QED  BY <1>1, <1>2, <1>3, <1>4

(* The places of the threads.                                              *)
LEMMA NextPlaces ==
    ASSUME Places, [Next]_vars
    PROVE  Places'
<1>. USE DEF Places, EEPC, Packets, reader, writer, Goto, KickStart
<1>1. ASSUME NEW k \in Packets, Begin(k)
     PROVE  Places'
  BY <1>1 DEF Begin
<1>2. CASE Open \/ WaitVU \/ Close \/ ReserveSpace
  BY <1>2 DEF Open, WaitVU, Close, ReserveSpace
<1>3. CASE WaitOnSize \/ WaitOnSizeKick \/ WriteNull \/ Write
  BY <1>3 DEF WaitOnSize, WaitOnSizeKick, WriteNull, Write
<1>4. CASE CommitWritePos \/ Announce \/ WaitForEmpty \/ Synced
  BY <1>4 DEF CommitWritePos, Announce, WaitForEmpty, Synced
<1>5. CASE Reset \/ CloseKick \/ Join \/ WaitForWork
  BY <1>5 DEF Reset, CloseKick, Join, WaitForWork
<1>6. CASE CheckShutdown \/ FoundEmpty \/ Execute \/ CommitReadPos
  BY <1>6 DEF CheckShutdown, FoundEmpty, Execute, CommitReadPos
<1>7. CASE UNCHANGED vars
  BY <1>7 DEF vars
<1>. QED
  BY <1>1, <1>2, <1>3, <1>4, <1>5, <1>6, <1>7
     DEF Next, EECall, EEStep, VUStep

(* The positions and the words stay inside the ring.                       *)
LEMMA NextTypes ==
    ASSUME Types, Fits, Places, [Next]_vars
    PROVE  Types'
<1>. USE DEF Types, reader, writer, Goto, KickStart
<1>1. ASSUME NEW k \in Packets, Begin(k)
     PROVE  Types'
  BY <1>1 DEF Begin
<1>2. CASE WriteNull
  BY <1>2, AllWords, Numbers DEF WriteNull
<1>3. CASE Write
  <2>. DEFINE w == m_write_pos
              n == Size(packet)
  <2>1. /\ w \in Nat /\ n \in Nat /\ w + n <= buffer_size - 1 /\ packet \in Packets
        /\ \A p \in Slots : p \in Nat
    BY <1>3, Constants, Numbers DEF Write, Fits, Places
  <2>2. w + n \in Slots
    BY <2>1, Numbers
  <2>3. /\ buffer' = [p \in Slots |-> IF p \in w .. w + n - 1 THEN <<packet, p - w>> ELSE buffer[p]]
        /\ m_write_pos' = w + n /\ UNCHANGED <<reader, m_ato_write_pos>>
    BY <1>3 DEF Write
  <2>. HIDE DEF n
  <2>4. \A p \in Slots : p \in w .. w + n - 1 => p - w \in 0 .. n - 1
    BY <2>1
  <2>5. \A p \in Slots : p \in w .. w + n - 1 => <<packet, p - w>> \in Words
    BY <2>1, <2>4, AllWords DEF n
  <2>6. buffer' \in [Slots -> Words]
    BY <2>3, <2>5
  <2>. QED  BY <2>2, <2>3, <2>6
<1>4. CASE Execute
  <2>1. UNCHANGED <<buffer, writer, m_ato_read_pos>>
    BY <1>4 DEF Execute
  <2>2. CASE m_read_pos' = 0
    BY <2>1, <2>2, Numbers
  <2>3. ASSUME NEW k \in Packets, buffer[m_read_pos] = <<k, 0>>, m_read_pos' = m_read_pos + Size(k)
        PROVE  Types'
    <3>1. m_read_pos + Size(k) <= buffer_size - 1 /\ m_read_pos + Size(k) \in Nat
      BY <2>3, Constants, Numbers DEF Fits
    <3>2. m_read_pos + Size(k) \in Slots
      BY <3>1, Numbers
    <3>. QED  BY <2>1, <2>3, <3>2
  <2>. QED  BY <1>4, <2>2, <2>3 DEF Execute
<1>5. CASE CommitReadPos
  <2>1. buffer' \in [Slots -> Words]
    BY <1>5, AllWords DEF CommitReadPos
  <2>. QED  BY <1>5, <2>1 DEF CommitReadPos
<1>6. CASE Reset
  BY <1>6, Numbers DEF Reset
<1>7. CASE Open \/ WaitVU \/ Close \/ ReserveSpace \/ WaitOnSize
  BY <1>7 DEF Open, WaitVU, Close, ReserveSpace, WaitOnSize
<1>8. CASE WaitOnSizeKick \/ CommitWritePos \/ Announce \/ WaitForEmpty \/ Synced
  BY <1>8, AllWords DEF WaitOnSizeKick, CommitWritePos, Announce, WaitForEmpty, Synced
<1>9. CASE CloseKick \/ Join \/ WaitForWork \/ CheckShutdown \/ FoundEmpty
  BY <1>9 DEF CloseKick, Join, WaitForWork, CheckShutdown, FoundEmpty
<1>10. CASE UNCHANGED vars
  BY <1>10 DEF vars
<1>. QED
  BY <1>1, <1>2, <1>3, <1>4, <1>5, <1>6, <1>7, <1>8, <1>9, <1>10
     DEF Next, EECall, EEStep, VUStep

(* A packet is only written where it fits.                                 *)
LEMMA NextFits ==
    ASSUME Types, Places, Fits, [Next]_vars
    PROVE  Fits'
<1>. USE DEF reader, writer, Goto, KickStart
<1>1. ASSUME NEW k \in Packets, Begin(k)
     PROVE  Fits'
  BY <1>1 DEF Begin, Fits
<1>2. CASE ReserveSpace
  <2>1. m_write_pos \in Nat /\ Size(packet) \in Nat /\ buffer_size \in Nat
    BY Constants, Numbers DEF Types, Places
  <2>. QED  BY <1>2, <2>1 DEF ReserveSpace, Fits
<1>3. CASE WaitOnSize \/ WaitOnSizeKick
  BY <1>3 DEF WaitOnSize, WaitOnSizeKick, Fits
<1>4. CASE WriteNull
  BY <1>4, AllWords DEF WriteNull, Fits, Types
<1>5. CASE Write
  <2>. DEFINE w == m_write_pos
              n == Size(packet)
  <2>1. /\ w \in Nat /\ n \in Nat /\ w + n <= buffer_size - 1 /\ packet \in Packets
        /\ \A p \in Slots : p \in Nat
    BY <1>5, Constants, Numbers DEF Write, Fits, Types, Places
  <2>2. /\ \A p \in Slots : buffer'[p] = IF p \in w .. w + n - 1 THEN <<packet, p - w>> ELSE buffer[p]
        /\ epc' = "commit"
    BY <1>5 DEF Write
  <2>. HIDE DEF n
  <2>3. ASSUME NEW p \in Slots, NEW k \in Packets, buffer'[p] = <<k, 0>>
        PROVE  p + Size(k) <= buffer_size - 1
    <3>1. CASE p \in w .. w + n - 1
      <4>0. <<packet, p - w>> = <<k, 0>>
        BY <2>2, <2>3, <3>1
      <4>1. k = packet /\ p - w = 0
        BY <4>0
      <4>2. p = w
        BY <2>1, <4>1
      <4>. QED  BY <2>1, <4>1, <4>2 DEF n
    <3>2. CASE p \notin w .. w + n - 1
      BY <2>2, <2>3, <3>2 DEF Fits
    <3>. QED  BY <3>1, <3>2
  <2>. QED  BY <2>2, <2>3 DEF Fits
<1>6. CASE CommitWritePos
  <2>1. epc = "null_commit" => m_write_pos = 0
    BY <1>6 DEF CommitWritePos, Fits
  <2>2. Size(packet) \in Nat /\ Size(packet) + SafetyNet < buffer_size - 1 /\ SafetyNet \in Nat
    BY Constants DEF Places
  <2>3. 0 + Size(packet) <= buffer_size - 1
    BY <2>2, Constants
  <2>. QED  BY <1>6, <2>1, <2>3 DEF CommitWritePos, Fits
<1>7. CASE CommitReadPos
  <2>1. \A p \in Slots : buffer'[p] \in {buffer[p], free}
    BY <1>7 DEF CommitReadPos
  <2>2. \A p \in Slots, k \in Packets : buffer'[p] = <<k, 0>> => buffer[p] = <<k, 0>>
    BY <2>1, AllWords
  <2>. QED  BY <1>7, <2>2 DEF CommitReadPos, Fits
<1>8. CASE Reset
  BY <1>8 DEF Reset, Fits
<1>9. CASE Open \/ WaitVU \/ Close \/ Announce
  BY <1>9 DEF Fits, Open, WaitVU, Close, Announce
<1>10. CASE WaitForEmpty \/ Synced \/ CloseKick \/ Join
  BY <1>10, AllWords DEF Fits, WaitForEmpty, Synced, CloseKick, Join
<1>11. CASE WaitForWork \/ CheckShutdown \/ FoundEmpty \/ Execute
  BY <1>11 DEF Fits, WaitForWork, CheckShutdown, FoundEmpty, Execute
<1>12. CASE UNCHANGED vars
  BY <1>12 DEF vars, Fits
<1>. QED
  BY <1>1, <1>2, <1>3, <1>4, <1>5, <1>6, <1>7, <1>8, <1>9, <1>10, <1>11, <1>12
     DEF Next, EECall, EEStep, VUStep

(* The positions that are published, and the semaphore.                    *)
LEMMA NextPublished ==
    ASSUME Places, SyncInv, Published, [Next]_vars
    PROVE  Published'
<1>. USE DEF Published, reader, writer, Goto, KickStart
<1>1. ASSUME NEW k \in Packets, Begin(k)
     PROVE  Published'
  BY <1>1 DEF Begin
<1>2. CASE Reset
  BY <1>2 DEF Reset, SyncInv
<1>3. CASE Open \/ WaitVU \/ Close \/ ReserveSpace
  BY <1>3 DEF Open, WaitVU, Close, ReserveSpace
<1>4. CASE WaitOnSize \/ WaitOnSizeKick \/ WriteNull \/ Write
  BY <1>4 DEF WaitOnSize, WaitOnSizeKick, WriteNull, Write
<1>5. CASE CommitWritePos \/ Announce \/ WaitForEmpty \/ Synced
  BY <1>5 DEF CommitWritePos, Announce, WaitForEmpty, Synced
<1>6. CASE CloseKick \/ Join \/ WaitForWork \/ CheckShutdown
  BY <1>6 DEF CloseKick, Join, WaitForWork, CheckShutdown
<1>7. CASE FoundEmpty \/ Execute \/ CommitReadPos
  BY <1>7 DEF FoundEmpty, Execute, CommitReadPos
<1>8. CASE UNCHANGED vars
  BY <1>8 DEF vars
<1>. QED
  BY <1>1, <1>2, <1>3, <1>4, <1>5, <1>6, <1>7, <1>8
     DEF Next, EECall, EEStep, VUStep

LEMMA NextSyncInv ==
    ASSUME Places, SyncInv, [Next]_vars
    PROVE  SyncInv'
<1>. USE DEF SyncInv, Calm, reader, writer, Goto, KickStart
<1>1. ASSUME NEW k \in Packets, Begin(k)
     PROVE  SyncInv'
  BY <1>1 DEF Begin
<1>2. CASE WaitForEmpty
  BY <1>2 DEF WaitForEmpty
<1>3. CASE CheckShutdown
  BY <1>3 DEF CheckShutdown
<1>4. CASE Announce
  BY <1>4 DEF Announce, Places
<1>5. CASE CommitReadPos
  BY <1>5 DEF CommitReadPos
<1>6. CASE Open \/ WaitVU \/ Close
  BY <1>6 DEF Open, WaitVU, Close
<1>7. CASE ReserveSpace \/ WaitOnSize \/ WaitOnSizeKick
  BY <1>7 DEF ReserveSpace, WaitOnSize, WaitOnSizeKick
<1>8. CASE WriteNull \/ Write \/ CommitWritePos
  BY <1>8 DEF WriteNull, Write, CommitWritePos
<1>9. CASE Synced \/ Reset \/ CloseKick
  BY <1>9 DEF Synced, Reset, CloseKick
<1>10. CASE Join \/ WaitForWork \/ FoundEmpty
  BY <1>10 DEF Join, WaitForWork, FoundEmpty
<1>11. CASE Execute
  BY <1>11 DEF Execute
<1>12. CASE UNCHANGED vars
  BY <1>12 DEF vars
<1>. QED
  BY <1>1, <1>2, <1>3, <1>4, <1>5, <1>6, <1>7, <1>8, <1>9, <1>10, <1>11, <1>12
     DEF Next, EECall, EEStep, VUStep

LEMMA InitSafe == Init => SafeInv
<1>. SUFFICES ASSUME Init PROVE SafeInv
  OBVIOUS
<1>. USE DEF Init
<1>1. Types
  BY Numbers, AllWords DEF Types
<1>2. Places
  BY DEF Places, EEPC, Packets
<1>3. Fits
  BY AllWords DEF Fits
<1>4. Published /\ SyncInv
  BY DEF Published, SyncInv, Calm
<1>. QED  BY <1>1, <1>2, <1>3, <1>4 DEF SafeInv

LEMMA NextSafe ==
    ASSUME SafeInv, [Next]_vars
    PROVE  SafeInv'
<1>1. Types' /\ Places' /\ Fits'
  BY NextTypes, NextPlaces, NextFits DEF SafeInv
<1>2. Published' /\ SyncInv'
  BY NextPublished, NextSyncInv DEF SafeInv
<1>. QED  BY <1>1, <1>2 DEF SafeInv

LEMMA AlwaysSafe == Spec => []SafeInv
BY InitSafe, NextSafe, PTL DEF Spec

(* WaitVU returns when the VU thread has done everything that was          *)
(* announced and sleeps, and the positions of both threads are always      *)
(* inside the ring: m_write_pos and m_read_pos after a packet, after a     *)
(* null packet, and after a Reset.                                         *)
THEOREM WaitVUDone == Spec => []WaitVUMeansDone
<1>1. ASSUME SafeInv PROVE WaitVUMeansDone
  <2>. USE <1>1 DEF SafeInv
  <2>1. TypeOK
    BY DEF TypeOK, Types, Places
  <2>2. ASSUME epc = "synced"
        PROVE  /\ m_ato_read_pos = m_ato_write_pos /\ m_read_pos = m_write_pos
               /\ semaEvent = "sleep" /\ vpc = "wait"
    BY <2>2 DEF SyncInv, Published, Calm
  <2>. QED  BY <2>1, <2>2 DEF WaitVUMeansDone
<1>. QED  BY <1>1, AlwaysSafe, PTL

-----------------------------------------------------------------------------
(* The words of a packet, and the tags, are not free.                      *)
LEMMA Occupied ==
    ASSUME Types, Fits, Layout
    PROVE  /\ \A p \in Slots, k \in Packets : buffer[p] = <<k, 0>> =>
                 \A i \in 0 .. Size(k) - 1 : p + i \in Slots /\ buffer[p + i] = <<k, i>> /\ buffer[p + i] # free
           /\ \A p : IsTag(p) => buffer[p] # free
           /\ \A p \in Slots, k \in Packets : buffer[p] = <<k, 0>> =>
                 /\ p + Size(k) \in Slots
                 /\ p + Size(k) = m_write_pos \/ IsTag(p + Size(k))
<1>1. ASSUME NEW p \in Slots, NEW k \in Packets, buffer[p] = <<k, 0>>
      PROVE  p + Size(k) \in Slots /\ (p + Size(k) = m_write_pos \/ IsTag(p + Size(k)))
  <2>1. p + Size(k) <= buffer_size - 1 /\ p + Size(k) \in Nat
    BY <1>1, Constants, Numbers DEF Fits
  <2>. QED  BY <1>1, <2>1, Numbers DEF Layout, PacketAt
<1>2. ASSUME NEW p \in Slots, NEW k \in Packets, buffer[p] = <<k, 0>>, NEW i \in 0 .. Size(k) - 1
      PROVE  p + i \in Slots /\ buffer[p + i] = <<k, i>> /\ buffer[p + i] # free
  <2>1. buffer[p + i] = <<k, i>>
    BY <1>2 DEF Layout, PacketAt
  <2>2. p + i \in Nat /\ p + i <= buffer_size - 1
    <3>1. p + Size(k) <= buffer_size - 1
      BY <1>2 DEF Fits
    <3>. QED  BY <3>1, Constants, Numbers
  <2>. QED  BY <2>1, <2>2, Numbers, AllWords
<1>3. ASSUME NEW p, IsTag(p) PROVE buffer[p] # free
  BY <1>3, AllWords DEF IsTag
<1>. QED  BY <1>1, <1>2, <1>3

(* A step that leaves the ring, the read position and the writer's own     *)
(* leaves the layout.                                                      *)
LEMMA SameLayout ==
    ASSUME Layout, UNCHANGED <<buffer, m_ato_read_pos, m_write_pos>>
    PROVE  Layout'
<1>1. \A p : IsTag(p)' <=> IsTag(p)
  BY DEF IsTag
<1>2. \A p : (NullAt(p)' <=> NullAt(p)) /\ \A k : (PacketAt(p, k)' <=> PacketAt(p, k))
  BY <1>1 DEF NullAt, PacketAt
<1>. QED  BY <1>1, <1>2 DEF Layout

LEMMA WriteNullLayout ==
    ASSUME Types, Fits, Layout, WriteNull, m_ato_read_pos <= m_write_pos, m_ato_read_pos > 0
    PROVE  Layout'
<1>0. PICK r \in Slots, w \in Slots : r = m_ato_read_pos /\ w = m_write_pos
  BY DEF Types
<1>1. /\ w \in Slots /\ r \in Slots /\ m_write_pos' = 0 /\ m_ato_read_pos' = r
      /\ buffer'[w] = MTVU_NULL_PACKET /\ \A p \in Slots : p # w => buffer'[p] = buffer[p]
  BY <1>0 DEF WriteNull, Types, reader
<1>2. \A p \in Slots : buffer[p] # free => r <= p /\ p < w
  BY <1>0 DEF Layout
<1>3. buffer[w] = free /\ \A p \in Slots : p \in Nat /\ p < buffer_size
  BY <1>1, <1>2, Numbers
<1>4. ASSUME NEW p \in Slots, IsTag(p) PROVE IsTag(p)' /\ p # w
  <2>1. p # w
    BY <1>3, <1>4, Occupied
  <2>. QED  BY <1>1, <1>4, <2>1 DEF IsTag
<1>5. IsTag(w)'
  BY <1>1 DEF IsTag
<1>6. ASSUME NEW p \in Slots, NEW k \in Packets, buffer'[p] = <<k, 0>> PROVE PacketAt(p, k)'
  <2>1. p # w /\ buffer[p] = <<k, 0>>
    BY <1>1, <1>6, AllWords
  <2>2. ASSUME NEW i \in 0 .. Size(k) - 1 PROVE buffer'[p + i] = <<k, i>>
    <3>1. p + i \in Slots /\ buffer[p + i] = <<k, i>> /\ buffer[p + i] # free
      BY <2>1, Occupied
    <3>. QED  BY <1>1, <1>3, <3>1
  <2>3. IsTag(p + Size(k))'
    <3>1. p + Size(k) \in Slots /\ (p + Size(k) = w \/ IsTag(p + Size(k)))
      BY <1>0, <2>1, Occupied
    <3>. QED  BY <1>4, <1>5, <3>1
  <2>. QED  BY <2>2, <2>3 DEF PacketAt
<1>7. ASSUME NEW p \in Slots, buffer'[p] = MTVU_NULL_PACKET PROVE NullAt(p)'
  <2>1. p = w
    <3>1. SUFFICES ASSUME p # w PROVE FALSE
      OBVIOUS
    <3>2. m_write_pos < m_ato_read_pos
      BY <1>1, <1>7, <3>1 DEF Layout, NullAt
    <3>. QED  BY <3>2, Numbers DEF Types
  <2>2. \A q \in Slots : q > w => buffer'[q] = free
    BY <1>1, <1>2, <1>3
  <2>3. 0 < r /\ r <= w
    BY <1>0
  <2>. QED  BY <1>1, <2>1, <2>2, <2>3 DEF NullAt
<1>8. ASSUME NEW p \in Slots, buffer'[p] # free PROVE r <= p
  BY <1>0, <1>1, <1>2, <1>8
<1>9. IsTag(r)'
  <2>1. CASE r = w
    BY <1>5, <2>1
  <2>2. CASE r # w
    BY <1>0, <1>4, <2>2 DEF Layout
  <2>. QED  BY <2>1, <2>2
<1>10. ~(r <= 0)
  BY <1>0, Numbers
<1>11. IsTag(m_ato_read_pos)' <=> IsTag(r)'
  BY <1>1 DEF IsTag
<1>. QED  BY <1>1, <1>6, <1>7, <1>8, <1>9, <1>10, <1>11 DEF Layout

LEMMA WriteEffect ==
    ASSUME Types, Places, Fits, Layout, Write,
           m_ato_read_pos <= m_write_pos \/ m_ato_read_pos > m_write_pos + Size(packet)
    PROVE  /\ m_write_pos' = m_write_pos + Size(packet) /\ m_ato_read_pos' = m_ato_read_pos
           /\ m_write_pos \in Slots /\ m_write_pos + Size(packet) \in Slots
           /\ \A p \in Slots : IF p \in m_write_pos .. m_write_pos + Size(packet) - 1
                               THEN buffer[p] = free /\ buffer'[p] = <<packet, p - m_write_pos>>
                               ELSE buffer'[p] = buffer[p]
<1>1. /\ m_write_pos \in Nat /\ m_ato_read_pos \in Nat /\ Size(packet) \in Nat
      /\ \A p \in Slots : p \in Nat
  BY Numbers, Constants DEF Types, Places
<1>2. /\ m_write_pos' = m_write_pos + Size(packet) /\ m_ato_read_pos' = m_ato_read_pos /\ epc = "write"
      /\ \A p \in Slots : buffer'[p] = IF p \in m_write_pos .. m_write_pos + Size(packet) - 1
                                       THEN <<packet, p - m_write_pos>> ELSE buffer[p]
  BY DEF Write, Goto, reader
<1>3. m_write_pos + Size(packet) \in Slots
  BY <1>1, <1>2, Numbers DEF Fits
<1>4. ASSUME NEW p \in Slots, p \in m_write_pos .. m_write_pos + Size(packet) - 1 PROVE buffer[p] = free
  <2>1. /\ m_ato_read_pos <= m_write_pos => ~(m_ato_read_pos <= p /\ p < m_write_pos)
        /\ ~(m_ato_read_pos <= m_write_pos) => ~(m_ato_read_pos <= p \/ p < m_write_pos)
    BY <1>1, <1>4
  <2>. QED  BY <2>1 DEF Layout
<1>. QED  BY <1>2, <1>3, <1>4 DEF Types

LEMMA WriteLayout ==
    ASSUME Types, Places, Fits, Layout, Write,
           m_ato_read_pos <= m_write_pos \/ m_ato_read_pos > m_write_pos + Size(packet)
    PROVE  Layout'
<1>1. PICK r \in Slots, w \in Slots, n \in Nat : r = m_ato_read_pos /\ w = m_write_pos /\ n = Size(packet)
  BY Constants DEF Types, Places
<1>2. /\ m_write_pos' = w + n /\ m_ato_read_pos' = r /\ w + n \in Slots
      /\ \A p \in Slots : p \in w .. w + n - 1 => buffer[p] = free /\ buffer'[p] = <<packet, p - w>>
      /\ \A p \in Slots : p \notin w .. w + n - 1 => buffer'[p] = buffer[p]
  BY <1>1, WriteEffect
<1>3. /\ n > 0 /\ packet \in Packets /\ r \in Nat /\ w \in Nat /\ buffer_size \in Nat
      /\ (r <= w \/ r > w + n) /\ \A p \in Slots : p \in Nat
  BY <1>1, Constants, Numbers DEF Places
<1>4. buffer'[w] = <<packet, 0>>
  <2>1. w \in w .. w + n - 1 /\ w - w = 0
    BY <1>3
  <2>. QED  BY <1>2, <2>1
<1>5. IsTag(w)'
  BY <1>3, <1>4 DEF IsTag
<1>6. ASSUME NEW p \in Slots, IsTag(p) PROVE IsTag(p)' /\ p \notin w .. w + n - 1
  <2>1. p \notin w .. w + n - 1
    BY <1>2, <1>6, Occupied
  <2>. QED  BY <1>2, <1>6, <2>1 DEF IsTag
<1>7. ASSUME NEW p \in Slots, NEW k \in Packets, buffer'[p] = <<k, 0>> PROVE PacketAt(p, k)'
  <2>1. CASE p \in w .. w + n - 1
    <3>0. <<packet, p - w>> = <<k, 0>>
      BY <1>2, <1>7, <2>1
    <3>1. k = packet /\ p - w = 0
      BY <3>0
    <3>2. p = w /\ Size(k) = n
      BY <1>1, <1>3, <3>1
    <3>3. ASSUME NEW i \in 0 .. n - 1 PROVE buffer'[w + i] = <<packet, i>>
      <4>1. w + i \in w .. w + n - 1 /\ (w + i) - w = i /\ w + i \in Nat /\ w + i <= buffer_size - 1
        BY <1>2, <1>3, Numbers
      <4>2. w + i \in Slots
        BY <4>1, Numbers
      <4>. QED  BY <1>2, <4>1, <4>2
    <3>. QED  BY <1>2, <3>1, <3>2, <3>3 DEF PacketAt
  <2>2. CASE p \notin w .. w + n - 1
    <3>1. buffer[p] = <<k, 0>>
      BY <1>2, <1>7, <2>2
    <3>2. ASSUME NEW i \in 0 .. Size(k) - 1 PROVE buffer'[p + i] = <<k, i>>
      <4>1. p + i \in Slots /\ buffer[p + i] = <<k, i>> /\ buffer[p + i] # free
        BY <3>1, Occupied
      <4>. QED  BY <1>2, <4>1
    <3>3. IsTag(p + Size(k))'
      <4>1. p + Size(k) \in Slots /\ (p + Size(k) = w \/ IsTag(p + Size(k)))
        BY <1>1, <3>1, Occupied
      <4>. QED  BY <1>5, <1>6, <4>1
    <3>. QED  BY <3>2, <3>3 DEF PacketAt
  <2>. QED  BY <2>1, <2>2
<1>8. ASSUME NEW p \in Slots, buffer'[p] = MTVU_NULL_PACKET PROVE NullAt(p)'
  <2>1. p \notin w .. w + n - 1 /\ buffer[p] = MTVU_NULL_PACKET
    BY <1>2, <1>3, <1>8, AllWords
  <2>2. w < r /\ r <= p /\ (\A q \in Slots : q > p => buffer[q] = free) /\ (w = 0 \/ IsTag(0))
    BY <1>1, <2>1 DEF Layout, NullAt
  <2>3. w + n < r
    BY <1>3, <2>2
  <2>4. ASSUME NEW q \in Slots, q > p PROVE buffer'[q] = free
    <3>1. q \notin w .. w + n - 1
      BY <1>3, <2>2, <2>3, <2>4
    <3>. QED  BY <1>2, <2>2, <2>4, <3>1
  <2>5. IsTag(0)'
    BY <1>5, <1>6, <2>2, Numbers
  <2>. QED  BY <1>2, <2>2, <2>3, <2>4, <2>5 DEF NullAt
<1>9. ASSUME NEW p \in Slots, buffer'[p] # free
      PROVE  IF r <= w + n THEN r <= p /\ p < w + n ELSE r <= p \/ p < w + n
  <2>1. CASE p \in w .. w + n - 1
    BY <1>3, <2>1
  <2>2. CASE p \notin w .. w + n - 1
    <3>1. IF r <= w THEN r <= p /\ p < w ELSE r <= p \/ p < w
      BY <1>1, <1>2, <1>9, <2>2 DEF Layout
    <3>. QED  BY <1>3, <3>1
  <2>. QED  BY <2>1, <2>2
<1>10. IsTag(r)'
  <2>1. CASE r = w
    BY <1>5, <2>1
  <2>2. CASE r # w
    BY <1>1, <1>6, <2>2 DEF Layout
  <2>. QED  BY <2>1, <2>2
<1>11. IsTag(m_ato_read_pos)' <=> IsTag(r)'
  BY <1>2 DEF IsTag
<1>. QED  BY <1>2, <1>7, <1>8, <1>9, <1>10, <1>11 DEF Layout

(* A packet the VU thread has carried out is taken off the ring: the       *)
(* reader goes to the next, and no other packet is touched.                *)
LEMMA ReadEffect ==
    ASSUME Types, Fits, Layout, ReadInv, CommitReadPos,
           NEW r \in Slots, NEW w \in Slots, r = m_ato_read_pos, w = m_write_pos
    PROVE  \/ /\ buffer[r] = MTVU_NULL_PACKET /\ m_ato_read_pos' = 0 /\ w < r
              /\ buffer'[r] = free /\ \A p \in Slots : p # r => buffer'[p] = buffer[p]
           \/ \E k \in Packets :
                /\ buffer[r] = <<k, 0>> /\ m_ato_read_pos' = r + Size(k) /\ r + Size(k) \in Slots
                /\ r < w => r + Size(k) <= w
                /\ \A p \in Slots : buffer'[p] = IF p \in r .. r + Size(k) - 1 THEN free ELSE buffer[p]
<1>1. /\ vpc = "commit" /\ m_ato_read_pos' = m_read_pos /\ r # w
      /\ \A p \in Slots : buffer'[p] = IF p \in r .. (IF m_read_pos = 0 THEN r ELSE m_read_pos - 1)
                                       THEN free ELSE buffer[p]
  BY DEF CommitReadPos, ReadInv
<1>2. r \in Nat /\ w \in Nat /\ \A p \in Slots : p \in Nat
  BY Numbers
<1>3. CASE buffer[r] = MTVU_NULL_PACKET /\ m_read_pos = 0
  <2>1. \A p \in Slots : p \in r .. r <=> p = r
    BY <1>2
  <2>2. w < r
    BY <1>3 DEF Layout, NullAt
  <2>. QED  BY <1>1, <1>3, <2>1, <2>2
<1>4. ASSUME NEW k \in Packets, buffer[r] = <<k, 0>>, m_read_pos = r + Size(k)
      PROVE  /\ buffer[r] = <<k, 0>> /\ m_ato_read_pos' = r + Size(k) /\ r + Size(k) \in Slots
             /\ r < w => r + Size(k) <= w
             /\ \A p \in Slots : buffer'[p] = IF p \in r .. r + Size(k) - 1 THEN free ELSE buffer[p]
  <2>1. Size(k) \in Nat /\ Size(k) > 0 /\ m_read_pos # 0 /\ m_read_pos - 1 = r + Size(k) - 1
    BY <1>2, <1>4, Constants
  <2>2. r + Size(k) \in Slots
    BY <1>4, Occupied
  <2>3. ASSUME r < w PROVE r + Size(k) <= w
    <3>1. SUFFICES ASSUME r + Size(k) > w PROVE FALSE
      BY <1>2, <2>1
    <3>2. w - r \in 0 .. Size(k) - 1 /\ r + (w - r) = w
      BY <1>2, <2>1, <2>3, <3>1
    <3>3. buffer[w] # free
      BY <1>4, <3>2, Occupied
    <3>4. w < w
      BY <1>2, <2>3, <3>3 DEF Layout
    <3>. QED  BY <1>2, <3>4
  <2>. QED  BY <1>1, <1>4, <2>1, <2>2, <2>3
<1>. QED  BY <1>1, <1>3, <1>4 DEF ReadInv

LEMMA ReadNullLayout ==
    ASSUME Types, Fits, Layout, NEW r \in Slots, NEW w \in Slots, r = m_ato_read_pos, w = m_write_pos,
           buffer[r] = MTVU_NULL_PACKET, m_ato_read_pos' = 0, m_write_pos' = w, buffer'[r] = free,
           \A p \in Slots : p # r => buffer'[p] = buffer[p]
    PROVE  Layout'
<1>1. /\ w < r /\ r \in Nat /\ w \in Nat /\ (\A p \in Slots : p \in Nat)
      /\ \A q \in Slots : q > r => buffer[q] = free
      /\ w = 0 \/ IsTag(0)
  BY Numbers DEF Layout, NullAt
<1>2. ASSUME NEW p \in Slots, buffer[p] # free PROVE p = r \/ p < w
  <2>1. r <= p \/ p < w
    BY <1>1, <1>2 DEF Layout
  <2>2. p \in Nat /\ ~(p > r)
    BY <1>1, <1>2
  <2>. QED  BY <1>1, <2>1, <2>2
<1>3. ASSUME NEW p \in Slots, buffer'[p] # free PROVE p # r /\ buffer'[p] = buffer[p] /\ p < w
  BY <1>2, <1>3
<1>4. ASSUME NEW p \in Slots, IsTag(p), p # r PROVE IsTag(p)'
  BY <1>4 DEF IsTag
<1>5. buffer[w] = free
  BY <1>1, <1>2
<1>6. ASSUME NEW p \in Slots, NEW k \in Packets, buffer'[p] = <<k, 0>> PROVE PacketAt(p, k)'
  <2>1. p # r /\ buffer[p] = <<k, 0>> /\ p < w
    BY <1>3, <1>6, AllWords
  <2>2. ASSUME NEW i \in 0 .. Size(k) - 1 PROVE buffer'[p + i] = <<k, i>>
    <3>1. p + i \in Slots /\ buffer[p + i] = <<k, i>>
      BY <2>1, Occupied
    <3>2. p + i # r
      BY <3>1, AllWords
    <3>. QED  BY <3>1, <3>2
  <2>3. p + Size(k) # r
    <3>1. SUFFICES ASSUME p + Size(k) = r PROVE FALSE
      OBVIOUS
    <3>2. Size(k) \in Nat
      BY Constants
    <3>3. w - p \in 0 .. Size(k) - 1 /\ p + (w - p) = w
      BY <1>1, <2>1, <3>1, <3>2
    <3>4. buffer[w] # free
      BY <2>1, <3>3, Occupied
    <3>. QED  BY <1>5, <3>4
  <2>4. p + Size(k) = w \/ IsTag(p + Size(k))'
    BY <1>4, <2>1, <2>3, Occupied
  <2>. QED  BY <2>2, <2>4 DEF PacketAt
<1>7. \A p \in Slots : buffer'[p] # MTVU_NULL_PACKET
  <2>1. SUFFICES ASSUME NEW p \in Slots, buffer'[p] = MTVU_NULL_PACKET PROVE FALSE
    OBVIOUS
  <2>2. p # r /\ buffer[p] = MTVU_NULL_PACKET
    BY <1>3, <2>1, AllWords
  <2>3. r <= p
    BY <2>1, <2>2 DEF Layout, NullAt
  <2>4. p \in Nat /\ buffer[p] # free
    BY <1>1, <2>1, <2>2, AllWords
  <2>5. p > r
    BY <1>1, <2>2, <2>3, <2>4
  <2>. QED  BY <1>1, <2>1, <2>4, <2>5
<1>8. \A p \in Slots : buffer'[p] # free => 0 <= p /\ p < w
  <2>1. ASSUME NEW p \in Slots, buffer'[p] # free PROVE 0 <= p /\ p < w
    <3>1. p \in Nat
      BY <1>1, <2>1
    <3>. QED  BY <1>3, <2>1, <3>1
  <2>. QED  BY <2>1
<1>9. 0 # w => IsTag(0)'
  BY <1>1, <1>4, Numbers
<1>10. IsTag(m_ato_read_pos)' <=> IsTag(0)'
  BY DEF IsTag
<1>. QED  BY <1>1, <1>6, <1>7, <1>8, <1>9, <1>10 DEF Layout

LEMMA ReadPacketLayout ==
    ASSUME Types, Fits, Layout, NEW r \in Slots, NEW w \in Slots, r = m_ato_read_pos, w = m_write_pos, r # w,
           NEW k \in Packets, NEW t \in Slots, t = r + Size(k),
           buffer[r] = <<k, 0>>, m_ato_read_pos' = t, m_write_pos' = w, r < w => t <= w,
           \A p \in Slots : buffer'[p] = IF p \in r .. t - 1 THEN free ELSE buffer[p]
    PROVE  Layout'
<1>1. r \in Nat /\ w \in Nat /\ t \in Nat /\ r < t /\ (\A p \in Slots : p \in Nat)
  BY Numbers, Constants
<1>2. ASSUME NEW p \in Slots, p \in r .. t - 1 PROVE buffer[p] = <<k, p - r>>
  <2>1. Size(k) \in Nat
    BY Constants
  <2>2. p - r \in 0 .. Size(k) - 1 /\ r + (p - r) = p
    BY <1>1, <1>2, <2>1
  <2>. QED  BY <2>2, Occupied
<1>3. buffer[w] = free
  <2>1. ~(IF r <= w THEN r <= w /\ w < w ELSE r <= w \/ w < w)
    BY <1>1
  <2>. QED  BY <2>1 DEF Layout
<1>4. ASSUME NEW p \in Slots, IsTag(p), p # r PROVE p \notin r .. t - 1 /\ IsTag(p)'
  <2>1. ASSUME p \in r .. t - 1 PROVE FALSE
    <3>1. buffer[p] = <<k, p - r>>
      BY <1>2, <2>1
    <3>2. <<k, p - r>> # MTVU_NULL_PACKET
      BY AllWords
    <3>3. PICK j \in Packets : <<k, p - r>> = <<j, 0>>
      BY <1>4, <3>1, <3>2 DEF IsTag
    <3>4. p - r = 0
      BY <3>3
    <3>. QED  BY <1>1, <1>4, <3>4
  <2>. QED  BY <1>4, <2>1 DEF IsTag
<1>5. ASSUME NEW p \in Slots, NEW j \in Packets, buffer'[p] = <<j, 0>> PROVE PacketAt(p, j)'
  <2>1. p \notin r .. t - 1 /\ buffer[p] = <<j, 0>> /\ p # r
    <3>1. p \notin r .. t - 1
      BY <1>5, AllWords
    <3>2. r \in r .. t - 1
      BY <1>1
    <3>. QED  BY <1>5, <3>1, <3>2
  <2>2. ASSUME NEW i \in 0 .. Size(j) - 1 PROVE buffer'[p + i] = <<j, i>>
    <3>1. p + i \in Slots /\ buffer[p + i] = <<j, i>>
      BY <2>1, Occupied
    <3>2. ASSUME p + i \in r .. t - 1 PROVE FALSE
      <4>1. <<k, (p + i) - r>> = <<j, i>>
        BY <1>2, <3>1, <3>2
      <4>2. (p + i) - r = i
        BY <4>1
      <4>3. p = r
        BY <1>1, <4>2, Constants
      <4>. QED  BY <2>1, <4>3
    <3>. QED  BY <3>1, <3>2
  <2>3. p + Size(j) # r
    <3>1. SUFFICES ASSUME p + Size(j) = r PROVE FALSE
      OBVIOUS
    <3>2. Size(j) \in Nat /\ Size(j) > 0
      BY Constants
    <3>3. p < r
      BY <1>1, <3>1, <3>2
    <3>4. IF r <= w THEN r <= p /\ p < w ELSE r <= p \/ p < w
      BY <2>1, AllWords DEF Layout
    <3>5. p < w /\ w < r
      BY <1>1, <3>3, <3>4
    <3>6. w - p \in 0 .. Size(j) - 1 /\ p + (w - p) = w
      BY <1>1, <3>1, <3>2, <3>5
    <3>7. buffer[w] # free
      BY <2>1, <3>6, Occupied
    <3>. QED  BY <1>3, <3>7
  <2>4. p + Size(j) = w \/ IsTag(p + Size(j))'
    BY <1>4, <2>1, <2>3, Occupied
  <2>. QED  BY <2>2, <2>4 DEF PacketAt
<1>6. ASSUME NEW p \in Slots, buffer'[p] = MTVU_NULL_PACKET PROVE NullAt(p)'
  <2>1. p \notin r .. t - 1 /\ buffer[p] = MTVU_NULL_PACKET
    BY <1>6, AllWords
  <2>2. w < r /\ r <= p /\ (\A q \in Slots : q > p => buffer[q] = free) /\ (w = 0 \/ IsTag(0))
    BY <2>1 DEF Layout, NullAt
  <2>3. w < t /\ t <= p /\ r # 0
    <3>1. p \in Nat
      BY <1>1, <1>6
    <3>2. r <= p /\ w < r
      BY <2>2
    <3>3. ~(p <= t - 1)
      BY <1>1, <2>1, <3>1, <3>2
    <3>. QED  BY <1>1, <3>1, <3>2, <3>3
  <2>4. w = 0 \/ IsTag(0)'
    BY <1>4, <2>2, <2>3, Numbers
  <2>. QED  BY <2>2, <2>3, <2>4 DEF NullAt
<1>7. ASSUME NEW p \in Slots, buffer'[p] # free
      PROVE  IF t <= w THEN t <= p /\ p < w ELSE t <= p \/ p < w
  <2>1. p \notin r .. t - 1 /\ buffer[p] # free
    BY <1>7
  <2>2. IF r <= w THEN r <= p /\ p < w ELSE r <= p \/ p < w
    BY <2>1 DEF Layout
  <2>. QED  BY <1>1, <1>7, <2>1, <2>2
<1>8. t # w => IsTag(t)'
  BY <1>1, <1>4, Occupied
<1>9. IsTag(m_ato_read_pos)' <=> IsTag(t)'
  BY DEF IsTag
<1>. QED  BY <1>5, <1>6, <1>7, <1>8, <1>9 DEF Layout

(* The remaining steps.                                                    *)
LEMMA ResetLayout ==
    ASSUME Types, Layout, Published, SyncInv, Reset
    PROVE  Layout'
<1>1. m_ato_read_pos = m_write_pos /\ UNCHANGED buffer /\ m_ato_read_pos' = 0 /\ m_write_pos' = 0
  BY DEF Reset, Goto, Published, SyncInv, Calm
<1>2. \A p \in Slots : buffer[p] = free
  <2>1. \A p \in Slots : p \in Nat /\ m_write_pos \in Nat
    BY Numbers DEF Types
  <2>. QED  BY <1>1, <2>1 DEF Layout
<1>. QED  BY <1>1, <1>2, AllWords DEF Layout

(* The ring stays a row of whole packets.                                  *)
LEMMA NextLayout ==
    ASSUME Types, Places, Fits, Published, SyncInv, Layout, WriteInv, ReadInv, ~lapped, ~lapped', [Next]_vars
    PROVE  Layout'
<1>. USE DEF reader, writer, Goto, KickStart
<1>1. ASSUME NEW k \in Packets, Begin(k)
     PROVE  Layout'
  BY <1>1, SameLayout DEF Begin
<1>2. CASE WriteNull
  <2>1. 0 < m_ato_read_pos /\ m_ato_read_pos <= m_write_pos
    BY <1>2 DEF WriteNull, ReaderFollows
  <2>2. m_ato_read_pos > 0
    BY <2>1, Numbers DEF Types
  <2>. QED  BY <1>2, <2>1, <2>2, WriteNullLayout
<1>3. CASE Write
  <2>1. m_ato_read_pos <= m_write_pos \/ m_ato_read_pos > m_write_pos + Size(packet)
    BY <1>3 DEF Write, WriteInv
  <2>. QED  BY <1>3, <2>1, WriteLayout
<1>4. CASE Reset
  BY <1>4, ResetLayout
<1>5. CASE CommitReadPos
  <2>1. PICK r \in Slots, w \in Slots : r = m_ato_read_pos /\ w = m_write_pos
    BY DEF Types
  <2>2. r # w /\ m_write_pos' = w
    BY <1>5, <2>1 DEF CommitReadPos, ReadInv
  <2>3. CASE /\ buffer[r] = MTVU_NULL_PACKET /\ m_ato_read_pos' = 0 /\ w < r
             /\ buffer'[r] = free /\ \A p \in Slots : p # r => buffer'[p] = buffer[p]
    BY <2>1, <2>2, <2>3, ReadNullLayout
  <2>4. ASSUME NEW k \in Packets,
               buffer[r] = <<k, 0>>, m_ato_read_pos' = r + Size(k), r + Size(k) \in Slots,
               r < w => r + Size(k) <= w,
               \A p \in Slots : buffer'[p] = IF p \in r .. r + Size(k) - 1 THEN free ELSE buffer[p]
        PROVE  Layout'
    <3>1. PICK t \in Slots : t = r + Size(k)
      BY <2>4
    <3>2. m_ato_read_pos' = t /\ (r < w => t <= w)
      BY <2>4, <3>1
    <3>3. r + Size(k) - 1 = t - 1
      BY <3>1, Numbers, Constants
    <3>4. \A p \in Slots : buffer'[p] = IF p \in r .. t - 1 THEN free ELSE buffer[p]
      BY <2>4, <3>3, Zenon
    <3>. QED  BY <2>1, <2>2, <2>4, <3>1, <3>2, <3>4, ReadPacketLayout
  <2>. QED  BY <1>5, <2>1, <2>3, <2>4, ReadEffect
<1>6. CASE Open \/ WaitVU \/ Close \/ ReserveSpace \/ WaitOnSize
  BY <1>6, SameLayout DEF Open, WaitVU, Close, ReserveSpace, WaitOnSize
<1>7. CASE WaitOnSizeKick \/ CommitWritePos \/ Announce \/ WaitForEmpty \/ Synced
  BY <1>7, SameLayout DEF WaitOnSizeKick, CommitWritePos, Announce, WaitForEmpty, Synced
<1>8. CASE CloseKick \/ Join \/ WaitForWork \/ CheckShutdown \/ FoundEmpty
  BY <1>8, SameLayout DEF CloseKick, Join, WaitForWork, CheckShutdown, FoundEmpty
<1>9. CASE Execute
  BY <1>9, SameLayout DEF Execute
<1>10. CASE UNCHANGED vars
  BY <1>10, SameLayout DEF vars
<1>. QED
  BY <1>1, <1>2, <1>3, <1>4, <1>5, <1>6, <1>7, <1>8, <1>9, <1>10
     DEF Next, EECall, EEStep, VUStep

(* The reader only moves forward, to the end of its lap and to slot 0, and *)
(* leaves every tag but its own.                                           *)
LEMMA ReadMoves ==
    ASSUME Types, Fits, Layout, ReadInv, CommitReadPos
    PROVE  /\ m_ato_read_pos' \in Slots
           /\ m_ato_read_pos <= m_write_pos =>
                m_ato_read_pos < m_ato_read_pos' /\ m_ato_read_pos' <= m_write_pos
           /\ m_ato_read_pos > m_write_pos => m_ato_read_pos' > m_ato_read_pos \/ m_ato_read_pos' = 0
           /\ \A p \in Slots : IsTag(p) /\ p # m_ato_read_pos => buffer'[p] = buffer[p]
<1>1. PICK r \in Slots, w \in Slots : r = m_ato_read_pos /\ w = m_write_pos
  BY DEF Types
<1>2. r # w /\ r \in Nat /\ w \in Nat /\ \A p \in Slots : p \in Nat
  BY <1>1, Numbers DEF CommitReadPos, ReadInv
<1>3. CASE /\ buffer[r] = MTVU_NULL_PACKET /\ m_ato_read_pos' = 0 /\ w < r
           /\ buffer'[r] = free /\ \A p \in Slots : p # r => buffer'[p] = buffer[p]
  BY <1>1, <1>2, <1>3, Numbers
<1>4. ASSUME NEW k \in Packets,
             buffer[r] = <<k, 0>>, m_ato_read_pos' = r + Size(k), r + Size(k) \in Slots,
             r < w => r + Size(k) <= w,
             \A p \in Slots : buffer'[p] = IF p \in r .. r + Size(k) - 1 THEN free ELSE buffer[p]
      PROVE  /\ m_ato_read_pos' \in Slots
             /\ r <= w => r < m_ato_read_pos' /\ m_ato_read_pos' <= w
             /\ r > w => m_ato_read_pos' > r
             /\ \A p \in Slots : IsTag(p) /\ p # r => buffer'[p] = buffer[p]
  <2>1. PICK n \in Nat : n = Size(k) /\ n > 0
    BY Constants
  <2>2. /\ m_ato_read_pos' \in Slots
        /\ r <= w => r < m_ato_read_pos' /\ m_ato_read_pos' <= w
        /\ r > w => m_ato_read_pos' > r
    BY <1>2, <1>4, <2>1
  <2>3. ASSUME NEW p \in Slots, IsTag(p), p # r, p \in r .. r + n - 1 PROVE FALSE
    <3>1. p - r \in 0 .. n - 1 /\ r + (p - r) = p
      BY <1>2, <2>3
    <3>2. buffer[p] = <<k, p - r>>
      BY <1>4, <2>1, <3>1, Occupied
    <3>3. PICK j \in Packets : <<k, p - r>> = <<j, 0>>
      BY <2>3, <3>2, AllWords DEF IsTag
    <3>4. p - r = 0
      BY <3>3
    <3>. QED  BY <1>2, <2>3, <3>4
  <2>. QED  BY <1>4, <2>1, <2>2, <2>3
<1>. QED  BY <1>1, <1>3, <1>4, ReadEffect

(* Remainders, for the arguments the positions give.                       *)
LEMMA Remainder ==
    ASSUME NEW n \in Nat, NEW r \in Nat, NEW w \in Nat, r < n, w < n
    PROVE  (w - r) % n = IF r <= w THEN w - r ELSE w - r + n
<1>1. CASE r <= w
  <2>1. PICK a \in Nat : a = w - r /\ a < n
    BY <1>1
  <2>2. a % n = a
    BY <2>1
  <2>. QED  BY <1>1, <2>1, <2>2
<1>2. CASE ~(r <= w)
  <2>1. PICK a \in Int : a = w - r /\ -n < a /\ a < 0
    BY <1>2
  <2>2. a % n = a + n
    BY <2>1
  <2>. QED  BY <1>2, <2>1, <2>2
<1>. QED  BY <1>1, <1>2

(* What the EE thread has made sure of.                                    *)
LEMMA NextWriteInv ==
    ASSUME Types, Places, Fits, Published, Layout, WriteInv, ReadInv, ~lapped, [Next]_vars
    PROVE  WriteInv'
<1>. USE DEF reader, writer, Goto, KickStart
<1>1. ASSUME NEW k \in Packets, Begin(k)
     PROVE  WriteInv'
  BY <1>1 DEF Begin, WriteInv
<1>2. CASE ReserveSpace
  BY <1>2 DEF ReserveSpace, WriteInv
<1>3. CASE WaitOnSize
  <2>1. UNCHANGED <<m_ato_read_pos, m_write_pos, packet, buffer, m_ato_write_pos>>
    BY <1>3 DEF WaitOnSize
  <2>2. CASE epc = "null_room" /\ epc' \in {"null", "null_kick"}
    BY <2>1, <2>2 DEF WriteInv
  <2>3. CASE epc = "room" /\ epc' = "room_kick"
    BY <2>1, <2>3 DEF WriteInv
  <2>4. CASE epc = "room" /\ epc' = "write" /\ HasRoom(Size(packet))
    <3>1. PICK r \in Nat, w \in Nat, n \in Nat : r = m_ato_read_pos /\ w = m_write_pos /\ n = Size(packet)
      BY Numbers, Constants DEF Types, Places
    <3>2. r <= w \/ r > w + n + SafetyNet
      BY <2>4, <3>1 DEF HasRoom
    <3>3. r <= w \/ r > w + n
      BY <3>2, Constants
    <3>. QED  BY <2>1, <2>4, <3>1, <3>3 DEF WriteInv
  <2>. QED  BY <1>3, <2>2, <2>3, <2>4 DEF WaitOnSize
<1>4. CASE WriteNull
  <2>1. m_ato_write_pos' = m_write_pos /\ buffer'[m_write_pos] = MTVU_NULL_PACKET /\ epc' = "null_commit"
    BY <1>4 DEF WriteNull, Published, Types
  <2>. QED  BY <2>1 DEF WriteInv
<1>5. CASE Write
  <2>1. m_ato_read_pos <= m_write_pos \/ m_ato_read_pos > m_write_pos + Size(packet)
    BY <1>5 DEF Write, WriteInv
  <2>2. m_ato_write_pos' = m_write_pos /\ packet' = packet /\ epc' = "commit"
    BY <1>5 DEF Write, Published
  <2>3. buffer'[m_write_pos] = <<packet, 0>>
    <3>1. PICK w \in Slots, n \in Nat : w = m_write_pos /\ n = Size(packet) /\ n > 0
      BY Constants DEF Types, Places
    <3>2. w \in w .. w + n - 1 /\ w - w = 0
      BY <3>1, Numbers
    <3>. QED  BY <1>5, <2>1, <3>1, <3>2, WriteEffect
  <2>. QED  BY <2>2, <2>3 DEF WriteInv
<1>6. CASE CommitReadPos
  <2>1. PICK r \in Nat, w \in Nat, n \in Nat : r = m_ato_read_pos /\ w = m_write_pos /\ n = Size(packet)
    BY Numbers, Constants DEF Types, Places
  <2>2. PICK s \in Nat : s = m_ato_read_pos' /\ s < buffer_size
    BY <1>6, ReadMoves, Numbers
  <2>3. /\ r <= w => r < s /\ s <= w
        /\ r > w => s > r \/ s = 0
    BY <1>6, <2>1, <2>2, ReadMoves
  <2>4. UNCHANGED <<m_write_pos, m_ato_write_pos, packet, epc>>
    BY <1>6 DEF CommitReadPos
  <2>7. ASSUME r <= w \/ r > w + n PROVE s <= w \/ s > w + n
    BY <2>3, <2>7
  <2>8. epc \in {"commit", "null_commit"} => buffer'[m_ato_write_pos] = buffer[m_ato_write_pos]
    <3>1. SUFFICES ASSUME epc \in {"commit", "null_commit"}
                   PROVE  buffer'[m_ato_write_pos] = buffer[m_ato_write_pos]
      OBVIOUS
    <3>2. m_ato_write_pos \in Slots /\ m_ato_write_pos # m_ato_read_pos
      BY <1>6 DEF CommitReadPos, ReadInv, Types
    <3>3. IsTag(m_ato_write_pos)
      BY <3>1 DEF WriteInv, IsTag, Places
    <3>. QED  BY <1>6, <3>2, <3>3, ReadMoves
  <2>10. epc = "write" => m_ato_read_pos' <= m_write_pos \/ m_ato_read_pos' > m_write_pos + Size(packet)
    BY <2>1, <2>2, <2>7 DEF WriteInv
  <2>. QED  BY <2>4, <2>8, <2>10 DEF WriteInv
<1>7. CASE CommitWritePos
  BY <1>7 DEF WriteInv, CommitWritePos
<1>8. CASE Open \/ WaitVU \/ Close
  BY <1>8 DEF WriteInv, Open, WaitVU, Close
<1>9. CASE WaitOnSizeKick \/ Announce \/ WaitForEmpty
  BY <1>9 DEF WriteInv, WaitOnSizeKick, Announce, WaitForEmpty
<1>10. CASE Synced \/ Reset \/ CloseKick \/ Join
  BY <1>10 DEF WriteInv, Synced, Reset, CloseKick, Join
<1>11. CASE WaitForWork \/ CheckShutdown \/ FoundEmpty \/ Execute
  BY <1>11 DEF WriteInv, WaitForWork, CheckShutdown, FoundEmpty, Execute
<1>12. CASE UNCHANGED vars
  BY <1>12 DEF WriteInv, vars
<1>. QED
  BY <1>1, <1>2, <1>3, <1>4, <1>5, <1>6, <1>7, <1>8, <1>9, <1>10, <1>11, <1>12
     DEF Next, EECall, EEStep, VUStep

(* A reader whose position is not the published end is not at the writer's *)
(* own either.                                                             *)
LEMMA NotEmpty ==
    ASSUME Types, Places, Fits, Published, Layout, WriteInv, m_ato_read_pos # m_ato_write_pos
    PROVE  m_ato_read_pos # m_write_pos
<1>1. SUFFICES ASSUME m_ato_read_pos = m_write_pos PROVE FALSE
  OBVIOUS
<1>2. epc \in {"commit", "null_commit"}
  BY <1>1 DEF Published
<1>3. IsTag(m_ato_write_pos) /\ m_ato_write_pos \in Slots
  BY <1>2 DEF WriteInv, IsTag, Types, Places
<1>4. buffer[m_ato_write_pos] # free
  BY <1>3, Occupied
<1>5. m_write_pos \in Nat /\ m_ato_write_pos \in Nat
  BY Numbers DEF Types
<1>6. m_write_pos <= m_ato_write_pos /\ m_ato_write_pos < m_write_pos
  BY <1>1, <1>3, <1>4, <1>5 DEF Layout
<1>. QED  BY <1>5, <1>6

(* What the VU thread has read.                                            *)
LEMMA NextReadInv ==
    ASSUME Types, Places, Fits, Published, SyncInv, Layout, WriteInv, ReadInv, ~lapped, ~lapped', [Next]_vars
    PROVE  ReadInv'
<1>. USE DEF reader, writer, Goto, KickStart
<1>1. ASSUME NEW k \in Packets, Begin(k)
     PROVE  ReadInv'
  BY <1>1 DEF ReadInv, Begin
<1>2. CASE WriteNull
  <2>1. SUFFICES ASSUME vpc = "commit" PROVE ReadInv'
    BY <1>2 DEF ReadInv, WriteNull
  <2>2. m_ato_read_pos # m_write_pos /\ m_ato_read_pos \in Slots
    BY <2>1 DEF ReadInv, Types
  <2>3. buffer'[m_ato_read_pos] = buffer[m_ato_read_pos]
    BY <1>2, <2>2 DEF WriteNull, Types
  <2>4. m_ato_read_pos > 0 /\ m_write_pos' = 0 /\ UNCHANGED <<m_ato_read_pos, m_read_pos, m_ato_write_pos>>
    BY <1>2, Numbers DEF WriteNull, ReaderFollows, Types
  <2>5. m_ato_read_pos # 0
    BY <2>4
  <2>. QED  BY <2>1, <2>3, <2>4, <2>5 DEF ReadInv
<1>3. CASE Write
  <2>1. SUFFICES ASSUME vpc = "commit" PROVE ReadInv'
    BY <1>3 DEF ReadInv, Write
  <2>2. PICK r \in Slots, w \in Slots, n \in Nat :
          r = m_ato_read_pos /\ w = m_write_pos /\ n = Size(packet) /\ n > 0
    BY Constants DEF Types, Places
  <2>3. r <= w \/ r > w + n
    BY <1>3, <2>2 DEF Write, WriteInv
  <2>4. /\ \A p \in Slots : p \in w .. w + n - 1 => buffer[p] = free
        /\ \A p \in Slots : p \notin w .. w + n - 1 => buffer'[p] = buffer[p]
        /\ m_write_pos' = w + n
    BY <1>3, <2>2, <2>3, WriteEffect
  <2>5. IsTag(r) /\ r # w
    BY <2>1, <2>2 DEF ReadInv, IsTag
  <2>6. buffer'[r] = buffer[r]
    BY <2>4, <2>5, Occupied
  <2>7. r # w + n
    BY <2>2, <2>3, Numbers
  <2>8. UNCHANGED <<m_ato_read_pos, m_read_pos, m_ato_write_pos>>
    BY <1>3 DEF Write
  <2>. QED  BY <2>1, <2>2, <2>4, <2>6, <2>7, <2>8 DEF ReadInv
<1>4. CASE CommitWritePos
  BY <1>4 DEF ReadInv, CommitWritePos
<1>5. CASE CommitReadPos \/ Open \/ Reset
  BY <1>5 DEF ReadInv, CommitReadPos, Open, Reset, SyncInv
<1>6. CASE Execute
  <2>1. m_ato_read_pos # m_write_pos /\ m_read_pos = m_ato_read_pos
    BY <1>6, NotEmpty DEF Execute, Published
  <2>. QED  BY <1>6, <2>1 DEF Execute, ReadInv
<1>7. CASE WaitVU \/ Close \/ ReserveSpace \/ WaitOnSize \/ WaitOnSizeKick
  BY <1>7 DEF ReadInv, WaitVU, Close, ReserveSpace, WaitOnSize, WaitOnSizeKick
<1>8. CASE Announce \/ WaitForEmpty \/ Synced \/ CloseKick \/ Join
  BY <1>8 DEF ReadInv, Announce, WaitForEmpty, Synced, CloseKick, Join
<1>9. CASE WaitForWork \/ CheckShutdown \/ FoundEmpty
  BY <1>9 DEF ReadInv, WaitForWork, CheckShutdown, FoundEmpty
<1>10. CASE UNCHANGED vars
  BY <1>10 DEF ReadInv, vars
<1>. QED
  BY <1>1, <1>2, <1>3, <1>4, <1>5, <1>6, <1>7, <1>8, <1>9, <1>10
     DEF Next, EECall, EEStep, VUStep

(* WaitVU begins the ring anew.                                            *)
LEMMA FreshRing ==
    ASSUME SafeInv, [Next]_vars, lapped, ~lapped'
    PROVE  RingInv' /\ m_ato_read_pos' = m_ato_write_pos'
<1>1. WaitForEmpty
  <2>1. \A k \in Packets : ~Begin(k)
    BY DEF Begin
  <2>2. ~(Open \/ WaitVU \/ Close \/ ReserveSpace \/ WaitOnSize \/ WaitOnSizeKick \/ WriteNull \/ Write)
    BY DEF Open, WaitVU, Close, ReserveSpace, WaitOnSize, WaitOnSizeKick, WriteNull, Write
  <2>3. ~(CommitWritePos \/ Announce \/ Synced \/ Reset \/ CloseKick \/ Join)
    BY DEF CommitWritePos, Announce, Synced, Reset, CloseKick, Join
  <2>4. ~(WaitForWork \/ CheckShutdown \/ FoundEmpty \/ Execute \/ CommitReadPos)
    BY DEF WaitForWork, CheckShutdown, FoundEmpty, Execute, CommitReadPos
  <2>5. ~(UNCHANGED vars)
    BY DEF vars
  <2>. QED  BY <2>1, <2>2, <2>3, <2>4, <2>5 DEF Next, EECall, EEStep, VUStep
<1>2. /\ epc = "wait_vu" /\ epc' = "synced" /\ semaEvent \in {"sleep", "dead"}
      /\ buffer' = [p \in Slots |-> free] /\ UNCHANGED <<reader, writer, vpc>>
  BY <1>1 DEF WaitForEmpty, Goto
<1>3. vpc = "wait" /\ semaEvent # "work"
  BY <1>2 DEF SafeInv, SyncInv
<1>4. m_ato_read_pos = m_ato_write_pos /\ m_write_pos = m_ato_write_pos
  BY <1>2, <1>3 DEF SafeInv, SyncInv, Published, Calm
<1>5. m_ato_read_pos' = m_write_pos' /\ m_ato_read_pos' = m_ato_write_pos'
  BY <1>2, <1>4 DEF reader, writer
<1>6. \A p \in Slots : buffer'[p] = free
  BY <1>2
<1>7. Layout'
  BY <1>5, <1>6, AllWords DEF Layout
<1>8. WriteInv' /\ ReadInv'
  BY <1>2, <1>3 DEF WriteInv, ReadInv
<1>. QED  BY <1>5, <1>7, <1>8 DEF RingInv

(* Only the end of a lap can be one too many.                              *)
LEMMA LapBegins ==
    ASSUME [Next]_vars, ~lapped, lapped'
    PROVE  epc = "null" /\ ~ReaderFollows
<1>1. CASE WriteNull
  BY <1>1 DEF WriteNull, Goto
<1>2. \A k \in Packets : ~Begin(k)
  BY DEF Begin
<1>3. ~(Open \/ WaitVU \/ Close \/ ReserveSpace \/ WaitOnSize \/ WaitOnSizeKick \/ Write)
  BY DEF Open, WaitVU, Close, ReserveSpace, WaitOnSize, WaitOnSizeKick, Write
<1>4. ~(CommitWritePos \/ Announce \/ WaitForEmpty \/ Synced \/ Reset \/ CloseKick \/ Join)
  BY DEF CommitWritePos, Announce, WaitForEmpty, Synced, Reset, CloseKick, Join
<1>5. ~(WaitForWork \/ CheckShutdown \/ FoundEmpty \/ Execute \/ CommitReadPos)
  BY DEF WaitForWork, CheckShutdown, FoundEmpty, Execute, CommitReadPos
<1>6. ~(UNCHANGED vars)
  BY DEF vars
<1>. QED  BY <1>1, <1>2, <1>3, <1>4, <1>5, <1>6 DEF Next, EECall, EEStep, VUStep

LEMMA AlwaysIInv == Spec => []IInv
<1>1. Init => IInv
  <2>1. Init => SafeInv
    BY InitSafe
  <2>2. Init => Layout
    BY AllWords DEF Init, Layout
  <2>3. Init => WriteInv /\ ReadInv
    BY DEF Init, WriteInv, ReadInv
  <2>. QED  BY <2>1, <2>2, <2>3 DEF IInv, RingInv
<1>2. IInv /\ [Next]_vars => IInv'
  <2>1. SUFFICES ASSUME IInv, [Next]_vars PROVE IInv'
    OBVIOUS
  <2>2. SafeInv'
    BY <2>1, NextSafe DEF IInv
  <2>3. ASSUME ~lapped, ~lapped' PROVE Layout' /\ WriteInv' /\ ReadInv'
    BY <2>1, <2>3, NextLayout, NextWriteInv, NextReadInv DEF IInv, SafeInv, RingInv
  <2>4. ASSUME lapped, ~lapped' PROVE RingInv'
    BY <2>1, <2>4, FreshRing DEF IInv
  <2>. QED  BY <2>2, <2>3, <2>4 DEF IInv, RingInv
<1>. QED  BY <1>1, <1>2, PTL DEF Spec

(* Whatever the sizes of the ring and its packets: every packet            *)
(* ExecuteRingBuffer reads is whole, and the positions do not look like an *)
(* empty ring while packets wait, unless the EE thread has gone back to    *)
(* slot 0 before the reader had left it, which the safety net of           *)
(* WaitOnSize and the null packet of ReserveSpace do not prevent; and then *)
(* only until the next WaitVU.                                             *)
THEOREM PacketsArrive == Spec => []PacketsIntact
<1>1. ASSUME IInv, ~lapped PROVE PacketsIntact
  <2>. USE <1>1 DEF IInv, SafeInv, RingInv
  <2>1. ASSUME vpc = "loop", m_ato_read_pos # m_ato_write_pos
        PROVE  buffer[m_read_pos] = MTVU_NULL_PACKET \/ \E k \in Packets : Intact(m_read_pos, k)
    <3>1. m_ato_read_pos # m_write_pos /\ m_read_pos = m_ato_read_pos /\ m_ato_read_pos \in Slots
      BY <2>1, NotEmpty DEF Published, Types
    <3>2. IsTag(m_read_pos)
      BY <3>1 DEF Layout
    <3>3. ASSUME NEW k \in Packets, buffer[m_read_pos] = <<k, 0>> PROVE Intact(m_read_pos, k)
      <4>1. \A i \in 0 .. Size(k) - 1 : buffer[m_read_pos + i] = <<k, i>>
        BY <3>1, <3>3, Occupied
      <4>2. m_read_pos + Size(k) \in Slots
        BY <3>1, <3>3, Occupied
      <4>3. m_read_pos + Size(k) <= buffer_size
        BY <4>2, Constants DEF Slots
      <4>. QED  BY <4>1, <4>3 DEF Intact
    <3>. QED  BY <3>2, <3>3 DEF IsTag
  <2>2. ASSUME m_ato_read_pos = m_ato_write_pos, epc \notin {"commit", "null_commit"}, NEW p \in Slots
        PROVE  buffer[p] = free
    <3>1. m_ato_read_pos = m_write_pos /\ m_write_pos \in Nat /\ p \in Nat
      BY <2>2, Numbers DEF Published, Types
    <3>2. ~(m_write_pos <= p /\ p < m_write_pos) /\ m_write_pos <= m_write_pos
      BY <3>1
    <3>. QED  BY <2>2, <3>1, <3>2 DEF Layout
  <2>. QED  BY <2>1, <2>2 DEF PacketsIntact
<1>2. IInv => PacketsIntact
  BY <1>1 DEF PacketsIntact
<1>. QED  BY <1>2, AlwaysIInv, PTL

-----------------------------------------------------------------------------
(* The ring as a queue.  A slot is known by its distance from the reader;  *)
(* the packets that are published are the tags in front of Used.           *)
Dist(p) == IF m_ato_read_pos <= p THEN p - m_ato_read_pos ELSE p - m_ato_read_pos + buffer_size

Used == Dist(m_ato_write_pos)

IsHead(p) == \E k \in Packets : buffer[p] = <<k, 0>>

QueueShape ==
    /\ IsFiniteSet(Heads) /\ Heads \subseteq Int
    /\ \A i \in Heads : \E p \in Slots : i = Dist(p)
    /\ \A p \in Slots : Dist(p) \in Heads <=> Dist(p) < Used /\ IsHead(p)
    /\ \A p \in Slots : Dist(p) \in Heads => Contents[Dist(p)] = buffer[p][1]

LEMMA Distance ==
    ASSUME Types
    PROVE  /\ \A p \in Slots : Dist(p) \in Slots /\ Dist(p) \in Int /\ 0 <= Dist(p)
           /\ \A p \in Slots, q \in Slots : Dist(p) = Dist(q) => p = q
           /\ Dist(m_ato_read_pos) = 0 /\ Used \in Slots /\ Used \in Int /\ 0 <= Used
<1>1. PICK r \in Slots, v \in Slots : r = m_ato_read_pos /\ v = m_ato_write_pos
  BY DEF Types
<1>2. buffer_size \in Nat /\ r \in Nat /\ r < buffer_size /\ \A p \in Slots : p \in Nat /\ p < buffer_size
  BY Constants, Numbers
<1>3. \A p : Dist(p) = IF r <= p THEN p - r ELSE p - r + buffer_size
  BY <1>1 DEF Dist
<1>4. ASSUME NEW p \in Slots PROVE Dist(p) \in Slots /\ Dist(p) \in Int /\ 0 <= Dist(p)
  BY <1>2, <1>3 DEF Slots
<1>5. ASSUME NEW p \in Slots, NEW q \in Slots, Dist(p) = Dist(q) PROVE p = q
  <2>1. p \in Nat /\ q \in Nat /\ p < buffer_size /\ q < buffer_size
    BY <1>2
  <2>. QED  BY <1>2, <1>3, <1>5, <2>1
<1>6. Dist(r) = 0
  BY <1>2, <1>3
<1>. QED  BY <1>1, <1>4, <1>5, <1>6 DEF Used

(* Ahead finds the slot at a distance.                                     *)
LEMMA AheadOf ==
    ASSUME Types
    PROVE  /\ Unread = Used
           /\ \A i \in Slots : Ahead(i) \in Slots /\ Dist(Ahead(i)) = i
           /\ \A p \in Slots : Ahead(Dist(p)) = p
<1>1. PICK r \in Nat, v \in Nat : r = m_ato_read_pos /\ v = m_ato_write_pos
  BY Numbers DEF Types
<1>2. buffer_size \in Nat /\ r < buffer_size /\ v < buffer_size /\ 0 < buffer_size
  BY <1>1, Constants, Numbers DEF Types
<1>3. Unread = Used
  <2>1. (v - r) % buffer_size = IF r <= v THEN v - r ELSE v - r + buffer_size
    BY <1>2, Remainder
  <2>. QED  BY <1>1, <2>1 DEF Unread, Used, Dist
<1>4. ASSUME NEW i \in Slots PROVE Ahead(i) \in Slots /\ Dist(Ahead(i)) = i
  <2>1. PICK a \in Int : a = r + i /\ 0 <= a /\ a < 2 * buffer_size /\ i \in Nat /\ i < buffer_size
    BY <1>2, <1>4, Numbers
  <2>2. a % buffer_size = IF a < buffer_size THEN a ELSE a - buffer_size
    <3>1. CASE a < buffer_size
      BY <1>2, <2>1, <3>1
    <3>2. CASE ~(a < buffer_size)
      <4>1. PICK b \in Nat : b = a - buffer_size /\ b < buffer_size
        BY <1>2, <2>1, <3>2
      <4>2. b % buffer_size = b /\ a = b + buffer_size
        BY <1>2, <2>1, <4>1
      <4>3. (b + buffer_size) % buffer_size = b % buffer_size
        BY <1>2, <4>1
      <4>. QED  BY <3>2, <4>1, <4>2, <4>3
    <3>. QED  BY <3>1, <3>2
  <2>3. Ahead(i) = a % buffer_size
    BY <1>1, <2>1, Zenon DEF Ahead
  <2>4. PICK b \in Int : b = Ahead(i) /\ b = IF a < buffer_size THEN a ELSE a - buffer_size
    BY <1>2, <2>1, <2>2, <2>3
  <2>5. b \in Slots /\ (IF r <= b THEN b - r ELSE b - r + buffer_size) = i
    BY <1>2, <2>1, <2>4 DEF Slots
  <2>. QED  BY <1>1, <2>4, <2>5 DEF Dist
<1>5. ASSUME NEW p \in Slots PROVE Ahead(Dist(p)) = p
  <2>1. Dist(p) \in Slots
    BY <1>5, Distance
  <2>2. Ahead(Dist(p)) \in Slots /\ Dist(Ahead(Dist(p))) = Dist(p)
    BY <1>4, <2>1
  <2>. QED  BY <1>5, <2>2, Distance
<1>. QED  BY <1>3, <1>4, <1>5

(* Every packet in the ring is whole, so its contents are its kind.        *)
LEMMA Shape ==
    ASSUME Types, Places, Fits, Published, Layout, WriteInv
    PROVE  QueueShape
<1>1. buffer_size \in Nat /\ Used \in Slots /\ Used \in Int /\ m_ato_read_pos \in Slots /\ Unread = Used
  BY Constants, Distance, AheadOf DEF Types
<1>2. 0 .. Unread - 1 \subseteq Slots
  BY <1>1 DEF Slots
<1>3. Heads \subseteq Slots
  BY <1>2 DEF Heads
<1>4. IsFiniteSet(Slots) /\ Slots \subseteq Int
  BY <1>1, FS_Interval DEF Slots
<1>5. IsFiniteSet(Heads)
  BY <1>3, <1>4, FS_Subset
<1>6. \A i \in Heads : \E p \in Slots : i = Dist(p)
  BY <1>3, AheadOf
<1>7. ASSUME NEW p \in Slots PROVE Dist(p) \in Heads <=> Dist(p) < Used /\ IsHead(p)
  <2>1. Dist(p) \in Int /\ 0 <= Dist(p) /\ Ahead(Dist(p)) = p
    BY <1>7, Distance, AheadOf
  <2>2. Dist(p) \in 0 .. Unread - 1 <=> Dist(p) < Used
    BY <1>1, <2>1
  <2>3. Dist(p) = 0 /\ Dist(p) < Used => IsTag(p)
    <3>1. SUFFICES ASSUME Dist(p) = 0, 0 < Used PROVE IsTag(p)
      BY Zenon
    <3>2. p = m_ato_read_pos
      BY <1>1, <1>7, <3>1, Distance
    <3>3. m_ato_read_pos # m_ato_write_pos
      BY <1>1, <3>1, Distance DEF Used
    <3>. QED  BY <3>2, <3>3, NotEmpty DEF Layout
  <2>. QED  BY <2>1, <2>2, <2>3 DEF Heads, IsTag, IsHead
<1>8. ASSUME NEW p \in Slots, Dist(p) \in Heads PROVE Contents[Dist(p)] = buffer[p][1]
  <2>1. Dist(p) \in Slots /\ Ahead(Dist(p)) = p
    BY <1>8, Distance, AheadOf
  <2>2. PICK k \in Packets : buffer[p] = <<k, 0>>
    BY <1>7, <1>8 DEF IsHead
  <2>3. Intact(p, k)
    <3>1. \A i \in 0 .. Size(k) - 1 : buffer[p + i] = <<k, i>>
      BY <2>2, Occupied
    <3>2. p + Size(k) \in Slots
      BY <2>2, Occupied
    <3>3. p + Size(k) <= buffer_size
      BY <3>2, Constants DEF Slots
    <3>. QED  BY <3>1, <3>3 DEF Intact
  <2>. QED  BY <2>1, <2>3 DEF Contents
<1>. QED  BY <1>3, <1>4, <1>5, <1>6, <1>7, <1>8 DEF QueueShape

(* Equal positions are the empty queue.                                    *)
LEMMA EmptyQueue ==
    ASSUME Types, m_ato_read_pos = m_ato_write_pos
    PROVE  Queue = <<>>
<1>1. Unread = 0
  BY Distance, AheadOf DEF Used
<1>2. Heads = {}
  BY <1>1 DEF Heads
<1>3. Cardinality(Heads) = 0
  BY <1>2, FS_EmptySet
<1>. QED  BY <1>3 DEF Queue, InOrder

LEMMA UnchangedQueue ==
    ASSUME UNCHANGED <<buffer, m_ato_read_pos, m_ato_write_pos>>
    PROVE  Queue' = Queue
<1>1. Unread' = Unread /\ \A i : Ahead(i)' = Ahead(i)
  BY DEF Unread, Ahead
<1>2. Heads' = Heads
  BY <1>1 DEF Heads
<1>3. \A r, k : Intact(r, k)' <=> Intact(r, k)
  BY DEF Intact
<1>4. Contents' = Contents
  BY <1>1, <1>3 DEF Contents
<1>. QED  BY <1>2, <1>4 DEF Queue

(* A step that leaves the published packets leaves the queue, whatever     *)
(* else is in the ring.                                                    *)
LEMMA KeepQueue ==
    ASSUME QueueShape, QueueShape', UNCHANGED m_ato_read_pos,
           \A p \in Slots : Dist(p) < Used' /\ IsHead(p)' <=> Dist(p) < Used /\ IsHead(p),
           \A p \in Slots : Dist(p) < Used /\ IsHead(p) => buffer'[p] = buffer[p]
    PROVE  Queue' = Queue
<1>1. \A p : Dist(p)' = Dist(p)
  BY DEF Dist
<1>2. ASSUME NEW p \in Slots PROVE Dist(p) \in Heads' <=> Dist(p) \in Heads
  <2>1. Dist(p) \in Heads <=> Dist(p) < Used /\ IsHead(p)
    BY <1>2 DEF QueueShape
  <2>2. Dist(p)' \in Heads' <=> Dist(p)' < Used' /\ IsHead(p)'
    BY <1>2 DEF QueueShape
  <2>. QED  BY <1>1, <1>2, <2>1, <2>2
<1>3. Heads' = Heads
  <2>1. \A i \in Heads : \E p \in Slots : i = Dist(p)
    BY DEF QueueShape
  <2>2. \A i \in Heads' : \E p \in Slots : i = Dist(p)
    BY <1>1 DEF QueueShape
  <2>. QED  BY <1>2, <2>1, <2>2
<1>4. ASSUME NEW i \in Heads PROVE Contents'[i] = Contents[i]
  <2>1. PICK p \in Slots : i = Dist(p)
    BY <1>4 DEF QueueShape
  <2>2. Dist(p)' = i /\ Dist(p)' \in Heads' /\ Dist(p) \in Heads
    BY <1>1, <1>3, <1>4, <2>1
  <2>3. Dist(p) < Used /\ IsHead(p)
    BY <2>2 DEF QueueShape
  <2>4. buffer'[p] = buffer[p]
    BY <2>3
  <2>5. Contents'[Dist(p)'] = buffer'[p][1] /\ Contents[Dist(p)] = buffer[p][1]
    BY <2>2 DEF QueueShape
  <2>. QED  BY <2>1, <2>2, <2>4, <2>5
<1>5. IsFiniteSet(Heads) /\ Heads \subseteq Int
  BY DEF QueueShape
<1>6. InOrder(Heads, Contents') = InOrder(Heads, Contents)
  BY <1>4, <1>5, SameContents
<1>. QED  BY <1>3, <1>6 DEF Queue

(* What is written but not published is not in it.                         *)
LEMMA WriteNullQueue ==
    ASSUME Types, Published, WriteNull, QueueShape, QueueShape'
    PROVE  Queue' = Queue
<1>1. PICK v \in Slots : v = m_ato_write_pos /\ v = m_write_pos
  BY DEF WriteNull, Goto, Published, Types
<1>2. UNCHANGED <<m_ato_read_pos, m_ato_write_pos>> /\ \A p \in Slots : p # v => buffer'[p] = buffer[p]
  BY <1>1 DEF WriteNull, reader, Types
<1>3. Used' = Used /\ Used = Dist(v) /\ Used \in Int
  BY <1>1, <1>2, Distance DEF Used, Dist
<1>4. \A p \in Slots : Dist(p) < Used => buffer'[p] = buffer[p]
  BY <1>2, <1>3
<1>5. \A p \in Slots : Dist(p) < Used => (IsHead(p)' <=> IsHead(p))
  BY <1>4 DEF IsHead
<1>. QED  BY <1>2, <1>3, <1>4, <1>5, KeepQueue

LEMMA WriteQueue ==
    ASSUME Types, Places, Fits, Published, Layout, WriteInv, Write, QueueShape, QueueShape'
    PROVE  Queue' = Queue
<1>1. PICK r \in Nat, v \in Nat, n \in Nat :
        r = m_ato_read_pos /\ v = m_ato_write_pos /\ v = m_write_pos /\ n = Size(packet)
  BY Numbers, Constants DEF Write, Goto, Published, Types, Places
<1>2. r <= v \/ r > v + n
  BY <1>1 DEF Write, Goto, WriteInv
<1>3. UNCHANGED <<m_ato_read_pos, m_ato_write_pos>>
  BY DEF Write, reader
<1>4. Used' = Used /\ Used = Dist(v)
  BY <1>1, <1>3 DEF Used, Dist
<1>5. ASSUME NEW p \in Slots, Dist(p) < Used PROVE buffer'[p] = buffer[p]
  <2>1. p \in Nat /\ buffer_size \in Nat
    BY Numbers, Constants
  <2>2. p \notin v .. v + n - 1
    BY <1>1, <1>2, <1>4, <1>5, <2>1 DEF Dist
  <2>. QED  BY <1>1, <1>2, <1>5, <2>2, WriteEffect
<1>6. \A p \in Slots : Dist(p) < Used => (IsHead(p)' <=> IsHead(p))
  BY <1>5 DEF IsHead
<1>. QED  BY <1>3, <1>4, <1>5, <1>6, KeepQueue

(* The null packet that ends a lap is none of the packets.                 *)
LEMMA CommitNullQueue ==
    ASSUME Types, Fits, Layout, WriteInv, CommitWritePos, epc = "null_commit", QueueShape, QueueShape'
    PROVE  Queue' = Queue
<1>1. PICK r \in Nat, v \in Slots : r = m_ato_read_pos /\ v = m_ato_write_pos
  BY Numbers DEF Types
<1>2. /\ UNCHANGED <<buffer, m_ato_read_pos>> /\ m_ato_write_pos' = 0
      /\ m_write_pos = 0 /\ buffer[v] = MTVU_NULL_PACKET
  BY <1>1 DEF CommitWritePos, reader, Fits, WriteInv
<1>3. 0 < r /\ r <= v /\ \A q \in Slots : q > v => buffer[q] = free
  BY <1>1, <1>2 DEF Layout, NullAt
<1>4. /\ v \in Nat /\ v < buffer_size /\ buffer_size \in Nat /\ \A p \in Slots : p \in Nat /\ p < buffer_size
  BY Numbers, Constants
<1>5. Used = v - r /\ Used' = buffer_size - r
  <2>1. Used' = 0 - r + buffer_size
    BY <1>1, <1>2, <1>3 DEF Used, Dist
  <2>2. Used = v - r
    BY <1>1, <1>3 DEF Used, Dist
  <2>. QED  BY <1>4, <2>1, <2>2
<1>6. ASSUME NEW p \in Slots PROVE IsHead(p)' <=> IsHead(p)
  BY <1>2 DEF IsHead
<1>7. ASSUME NEW p \in Slots, IsHead(p) PROVE Dist(p) < Used' <=> Dist(p) < Used
  <2>1. p < v
    <3>1. p # v /\ ~(p > v)
      BY <1>2, <1>3, <1>7, AllWords DEF IsHead
    <3>. QED  BY <1>4, <3>1
  <2>2. Dist(p) = IF r <= p THEN p - r ELSE p - r + buffer_size
    BY <1>1 DEF Dist
  <2>3. r <= p
    <3>1. buffer[p] # free
      BY <1>7, AllWords DEF IsHead
    <3>2. m_write_pos < m_ato_read_pos
      BY <1>1, <1>2, <1>3
    <3>3. m_ato_read_pos <= p \/ p < 0
      BY <1>1, <1>2, <1>3, <3>1, <3>2 DEF Layout
    <3>. QED  BY <1>1, <1>4, <3>3
  <2>. QED  BY <1>3, <1>4, <1>5, <2>1, <2>2, <2>3
<1>. QED  BY <1>2, <1>6, <1>7, KeepQueue

(* CommitWritePos adds the packet at the end ...                           *)
LEMMA CommitQueue ==
    ASSUME Types, Places, Fits, Published, Layout, WriteInv, CommitWritePos, epc = "commit",
           QueueShape, QueueShape'
    PROVE  Queue' = Append(Queue, packet)
<1>1. PICK r \in Nat, v \in Slots, n \in Nat :
        r = m_ato_read_pos /\ v = m_ato_write_pos /\ n = Size(packet) /\ n > 0
  BY Numbers, Constants DEF Types, Places
<1>2. /\ UNCHANGED <<buffer, m_ato_read_pos>> /\ m_ato_write_pos' = v + n
      /\ m_write_pos = v + n /\ buffer[v] = <<packet, 0>> /\ packet \in Packets
  BY <1>1 DEF CommitWritePos, reader, Published, WriteInv, Places
<1>3. \A i \in 0 .. n - 1 : v + i \in Slots /\ buffer[v + i] = <<packet, i>>
  BY <1>1, <1>2, Occupied
<1>4. /\ v \in Nat /\ v + n \in Nat /\ v + n < buffer_size /\ buffer_size \in Nat
      /\ \A p \in Slots : p \in Nat /\ p < buffer_size
  BY <1>1, <1>2, Numbers, Constants DEF Types
<1>5. r <= v \/ r > v + n
  <2>1. buffer[v] # free
    BY <1>2, AllWords
  <2>2. m_ato_read_pos <= m_write_pos => m_ato_read_pos <= v
    BY <2>1 DEF Layout
  <2>. QED  BY <1>1, <1>2, <1>4, <2>2
<1>6. Used' = Used + n /\ Used = Dist(v) /\ Used \in Int
  <2>1. Used = IF r <= v THEN v - r ELSE v - r + buffer_size
    BY <1>1 DEF Used, Dist
  <2>2. Used' = IF r <= v + n THEN (v + n) - r ELSE (v + n) - r + buffer_size
    BY <1>1, <1>2 DEF Used, Dist
  <2>3. Used = Dist(v)
    BY <1>1 DEF Used
  <2>. QED  BY <1>1, <1>4, <1>5, <2>1, <2>2, <2>3
<1>7. (\A p : Dist(p)' = Dist(p)) /\ \A p : IsHead(p)' <=> IsHead(p)
  BY <1>2 DEF Dist, IsHead
<1>8. ASSUME NEW p \in Slots
      PROVE  Dist(p) < Used' /\ IsHead(p) <=> Dist(p) = Used \/ (Dist(p) < Used /\ IsHead(p))
  <2>1. Dist(p) = IF r <= p THEN p - r ELSE p - r + buffer_size
    BY <1>1 DEF Dist
  <2>2. Used = IF r <= v THEN v - r ELSE v - r + buffer_size
    BY <1>1 DEF Used, Dist
  <2>3. Dist(p) = Used => p = v
    BY <1>6, Distance
  <2>4. IsHead(v)
    BY <1>2 DEF IsHead
  <2>5. ASSUME Used < Dist(p), Dist(p) < Used + n PROVE ~IsHead(p)
    <3>1. p - v \in 0 .. n - 1 /\ p - v > 0 /\ v + (p - v) = p
      <4>1. p \in Nat /\ p < buffer_size
        BY <1>4
      <4>2. CASE r <= v
        BY <1>1, <1>4, <2>1, <2>2, <2>5, <4>1, <4>2
      <4>3. CASE r > v + n
        BY <1>1, <1>4, <2>1, <2>2, <2>5, <4>1, <4>3
      <4>. QED  BY <1>5, <4>2, <4>3
    <3>2. buffer[p] = <<packet, p - v>>
      BY <1>3, <3>1
    <3>3. ASSUME NEW k \in Packets, buffer[p] = <<k, 0>> PROVE FALSE
      <4>1. p - v = 0
        BY <3>2, <3>3
      <4>. QED  BY <3>1, <4>1
    <3>. QED  BY <3>3 DEF IsHead
  <2>6. Dist(p) \in Int
    BY Distance
  <2>7. Dist(p) < Used + n <=> Dist(p) < Used \/ Dist(p) = Used \/ (Used < Dist(p) /\ Dist(p) < Used + n)
    BY <1>1, <1>6, <2>6
  <2>. QED  BY <1>6, <2>3, <2>4, <2>5, <2>7
<1>9. ASSUME NEW p \in Slots PROVE Dist(p) \in Heads' <=> Dist(p) = Used \/ Dist(p) \in Heads
  <2>1. Dist(p) \in Heads <=> Dist(p) < Used /\ IsHead(p)
    BY <1>9 DEF QueueShape
  <2>2. Dist(p)' \in Heads' <=> Dist(p)' < Used' /\ IsHead(p)'
    BY <1>9 DEF QueueShape
  <2>. QED  BY <1>7, <1>8, <1>9, <2>1, <2>2
<1>10. \A i \in Heads : i \in Int /\ \E p \in Slots : i = Dist(p)
  BY DEF QueueShape
<1>11. \A i \in Heads' : \E p \in Slots : i = Dist(p)
  BY <1>7 DEF QueueShape
<1>12. Heads' = Heads \cup {Used}
  BY <1>6, <1>9, <1>10, <1>11
<1>13. ASSUME NEW i \in Heads PROVE i < Used /\ Contents'[i] = Contents[i]
  <2>1. PICK p \in Slots : i = Dist(p)
    BY <1>10
  <2>2. Dist(p)' = i /\ Dist(p)' \in Heads' /\ Dist(p) \in Heads
    BY <1>7, <1>12, <1>13, <2>1
  <2>3. Contents'[Dist(p)'] = buffer'[p][1] /\ Contents[Dist(p)] = buffer[p][1] /\ Dist(p) < Used
    BY <2>2 DEF QueueShape
  <2>. QED  BY <1>2, <2>1, <2>2, <2>3
<1>14. Contents'[Used] = packet
  <2>1. Dist(v)' = Used /\ Dist(v)' \in Heads'
    BY <1>6, <1>7, <1>12
  <2>2. Contents'[Dist(v)'] = buffer'[v][1]
    BY <2>1 DEF QueueShape
  <2>. QED  BY <1>2, <2>1, <2>2
<1>15. IsFiniteSet(Heads) /\ Heads \subseteq Int
  BY DEF QueueShape
<1>16. InOrder(Heads \cup {Used}, Contents') = Append(InOrder(Heads, Contents'), Contents'[Used])
  BY <1>6, <1>13, <1>15, OrderAppend
<1>17. InOrder(Heads, Contents') = InOrder(Heads, Contents)
  BY <1>13, <1>15, SameContents
<1>. QED  BY <1>12, <1>14, <1>16, <1>17 DEF Queue

(* ... and CommitReadPos takes what it read away: what is left of the      *)
(* queue, R, is found from the new position.                               *)
LEMMA ShiftQueue ==
    ASSUME QueueShape, QueueShape', NEW STATE R, R \subseteq Heads, NEW d \in Int,
           \A p \in Slots : Dist(p)' \in Heads' <=> Dist(p) \in R,
           \A p \in Slots : Dist(p) \in R => Dist(p)' = Dist(p) - d /\ buffer'[p] = buffer[p]
    PROVE  Queue' = InOrder(R, Contents)
<1>1. \A i \in R : i \in Int /\ i \in Heads /\ \E p \in Slots : i = Dist(p)
  BY DEF QueueShape
<1>2. \A i \in Heads' : \E p \in Slots : i = Dist(p)'
  BY DEF QueueShape
<1>3. Heads' = {i - d : i \in R}
  <2>1. ASSUME NEW i \in Heads' PROVE i \in {j - d : j \in R}
    <3>1. PICK p \in Slots : i = Dist(p)'
      BY <1>2, <2>1
    <3>. QED  BY <2>1, <3>1
  <2>2. ASSUME NEW i \in R PROVE i - d \in Heads'
    <3>1. PICK p \in Slots : i = Dist(p)
      BY <1>1, <2>2
    <3>. QED  BY <2>2, <3>1
  <2>. QED  BY <2>1, <2>2
<1>4. ASSUME NEW i \in R PROVE Contents[i] = Contents'[i - d]
  <2>1. PICK p \in Slots : i = Dist(p)
    BY <1>1, <1>4
  <2>2. Dist(p)' = i - d /\ buffer'[p] = buffer[p] /\ Dist(p)' \in Heads' /\ Dist(p) \in Heads
    BY <1>1, <1>4, <2>1
  <2>3. Contents'[Dist(p)'] = buffer'[p][1] /\ Contents[Dist(p)] = buffer[p][1]
    BY <2>2 DEF QueueShape
  <2>. QED  BY <2>1, <2>2, <2>3
<1>5. IsFiniteSet(R) /\ R \subseteq Int
  <2>1. IsFiniteSet(Heads)
    BY DEF QueueShape
  <2>. QED  BY <1>1, <2>1, FS_Subset
<1>6. Shifted(R, Contents, Heads', Contents', d)
  BY <1>3, <1>4, <1>5 DEF Shifted
<1>7. InOrder(Heads', Contents') = InOrder(R, Contents)
  BY <1>6, OrderShift
<1>. QED  BY <1>7 DEF Queue

(* Past the null packet the VU thread finds the same queue, from slot 0.   *)
LEMMA ReadNullQueue ==
    ASSUME Types, Fits, Published, Places, Layout, WriteInv, ReadInv, CommitReadPos,
           buffer[m_ato_read_pos] = MTVU_NULL_PACKET, QueueShape, QueueShape'
    PROVE  Queue' = Queue
<1>1. PICK r \in Slots, v \in Slots, w \in Slots : r = m_ato_read_pos /\ v = m_ato_write_pos /\ w = m_write_pos
  BY DEF Types
<1>2. /\ buffer[r] = MTVU_NULL_PACKET /\ m_ato_read_pos' = 0 /\ w < r
      /\ buffer'[r] = free /\ \A p \in Slots : p # r => buffer'[p] = buffer[p]
  <2>1. buffer[r] = MTVU_NULL_PACKET
    BY <1>1
  <2>2. \A k \in Packets : buffer[r] # <<k, 0>>
    BY <2>1, AllWords
  <2>. QED  BY <1>1, <2>2, ReadEffect
<1>3. r # v /\ m_ato_write_pos' = v /\ \A q \in Slots : q > r => buffer[q] = free
  BY <1>1, <1>2 DEF CommitReadPos, ReadInv, writer, Layout, NullAt
<1>4. /\ r \in Nat /\ v \in Nat /\ w \in Nat /\ buffer_size \in Nat /\ r < buffer_size
      /\ \A p \in Slots : p \in Nat /\ p < buffer_size
  BY Numbers, Constants
<1>5. v < r
  <2>1. CASE epc = "null_commit"
    <3>1. buffer[v] = MTVU_NULL_PACKET
      BY <1>1, <2>1 DEF WriteInv
    <3>2. r <= v
      BY <1>1, <3>1 DEF Layout, NullAt
    <3>. QED  BY <1>3, <1>4, <3>1, <3>2, AllWords
  <2>2. CASE epc = "commit"
    <3>1. PICK n \in Nat : n = Size(packet)
      BY Constants DEF Places
    <3>2. w = v + n
      BY <1>1, <2>2, <3>1 DEF Published
    <3>. QED  BY <1>2, <1>4, <3>1, <3>2
  <2>3. CASE epc \notin {"null_commit", "commit"}
    BY <1>1, <1>2, <2>3 DEF Published
  <2>. QED  BY <2>1, <2>2, <2>3
<1>6. /\ \A p : Dist(p) = IF r <= p THEN p - r ELSE p - r + buffer_size
      /\ \A p : Dist(p)' = IF 0 <= p THEN p - 0 ELSE p - 0 + buffer_size
      /\ Used = Dist(v) /\ Used' = Dist(v)'
  BY <1>1, <1>2, <1>3 DEF Dist, Used
<1>7. Used = v - r + buffer_size /\ Used' = v
  BY <1>4, <1>5, <1>6
<1>8. ASSUME NEW p \in Slots PROVE Dist(p)' = p
  BY <1>4, <1>6
<1>9. ASSUME NEW p \in Slots, IsHead(p) \/ IsHead(p)'
      PROVE  p < r /\ Dist(p) = p - r + buffer_size /\ buffer'[p] = buffer[p] /\ (IsHead(p)' <=> IsHead(p))
  <2>1. p # r
    BY <1>2, <1>9, AllWords DEF IsHead
  <2>2. buffer'[p] = buffer[p]
    BY <1>2, <2>1
  <2>3. IsHead(p)' <=> IsHead(p)
    BY <2>2 DEF IsHead
  <2>4. ~(p > r)
    BY <1>3, <1>9, <2>3, AllWords DEF IsHead
  <2>5. p < r /\ ~(r <= p)
    BY <1>4, <2>1, <2>4
  <2>6. Dist(p) = p - r + buffer_size
    BY <1>6, <2>5
  <2>. QED  BY <2>2, <2>3, <2>5, <2>6
<1>10. ASSUME NEW p \in Slots PROVE Dist(p)' \in Heads' <=> Dist(p) \in Heads
  <2>1. Dist(p) \in Heads <=> Dist(p) < Used /\ IsHead(p)
    BY <1>10 DEF QueueShape
  <2>2. Dist(p)' \in Heads' <=> Dist(p)' < Used' /\ IsHead(p)'
    BY <1>10 DEF QueueShape
  <2>3. p - r + buffer_size < v - r + buffer_size <=> p < v
    BY <1>4, <1>10
  <2>. QED  BY <1>7, <1>8, <1>9, <2>1, <2>2, <2>3
<1>11. ASSUME NEW p \in Slots, Dist(p) \in Heads
       PROVE  Dist(p)' = Dist(p) - (buffer_size - r) /\ buffer'[p] = buffer[p]
  <2>1. IsHead(p)
    BY <1>11 DEF QueueShape
  <2>2. p = (p - r + buffer_size) - (buffer_size - r)
    BY <1>4, <1>11
  <2>. QED  BY <1>8, <1>9, <2>1, <2>2
<1>12. PICK d \in Int : d = buffer_size - r
  BY <1>4
<1>. QED  BY <1>10, <1>11, <1>12, ShiftQueue DEF Queue

LEMMA ReadPacketQueue ==
    ASSUME Types, Fits, Published, Places, Layout, WriteInv, ReadInv, CommitReadPos,
           buffer[m_ato_read_pos] # MTVU_NULL_PACKET, QueueShape, QueueShape'
    PROVE  Queue # <<>> /\ Queue' = Tail(Queue)
<1>. DEFINE R == Heads \ {0}
<1>1. PICK r \in Slots, v \in Slots, w \in Slots : r = m_ato_read_pos /\ v = m_ato_write_pos /\ w = m_write_pos
  BY DEF Types
<1>2. PICK k \in Packets :
        /\ buffer[r] = <<k, 0>> /\ m_ato_read_pos' = r + Size(k) /\ r + Size(k) \in Slots
        /\ r < w => r + Size(k) <= w
        /\ \A p \in Slots : buffer'[p] = IF p \in r .. r + Size(k) - 1 THEN free ELSE buffer[p]
  BY <1>1, ReadEffect
<1>3. PICK n \in Nat : n = Size(k) /\ n > 0
  BY Constants
<1>4. r # v /\ m_ato_write_pos' = v
  BY <1>1 DEF CommitReadPos, ReadInv, writer
<1>5. /\ r \in Nat /\ v \in Nat /\ w \in Nat /\ buffer_size \in Nat /\ r + n < buffer_size
      /\ v < buffer_size /\ \A p \in Slots : p \in Nat /\ p < buffer_size
  BY <1>2, <1>3, Numbers, Constants
<1>6. ASSUME NEW p \in Slots, IsHead(p), p \in r .. r + n - 1 PROVE p = r
  <2>1. p - r \in 0 .. n - 1 /\ r + (p - r) = p
    BY <1>5, <1>6
  <2>2. buffer[p] = <<k, p - r>>
    BY <1>2, <1>3, <2>1, Occupied
  <2>3. PICK j \in Packets : <<k, p - r>> = <<j, 0>>
    BY <1>6, <2>2 DEF IsHead
  <2>4. p - r = 0
    BY <2>3
  <2>. QED  BY <1>5, <1>6, <2>4
<1>7. v < r \/ r + n <= v
  <2>1. CASE epc = "commit"
    <3>1. IsHead(v)
      BY <1>1, <2>1 DEF WriteInv, IsHead, Places
    <3>. QED  BY <1>4, <1>5, <1>6, <3>1
  <2>2. CASE epc = "null_commit"
    <3>1. buffer[v] = MTVU_NULL_PACKET
      BY <1>1, <2>2 DEF WriteInv
    <3>2. SUFFICES ASSUME v \in r .. r + n - 1 PROVE FALSE
      BY <1>5
    <3>3. v - r \in 0 .. n - 1 /\ r + (v - r) = v
      BY <1>5, <3>2
    <3>4. buffer[v] = <<k, v - r>>
      BY <1>2, <1>3, <3>3, Occupied
    <3>. QED  BY <3>1, <3>4, AllWords
  <2>3. CASE epc \notin {"null_commit", "commit"}
    <3>1. v = w
      BY <1>1, <2>3 DEF Published
    <3>. QED  BY <1>2, <1>3, <1>4, <1>5, <3>1
  <2>. QED  BY <2>1, <2>2, <2>3
<1>8. /\ \A p : Dist(p) = IF r <= p THEN p - r ELSE p - r + buffer_size
      /\ \A p : Dist(p)' = IF r + n <= p THEN p - (r + n) ELSE p - (r + n) + buffer_size
      /\ Used = Dist(v) /\ Used' = Dist(v)'
  BY <1>1, <1>2, <1>3, <1>4 DEF Dist, Used
<1>9. Used \in Int /\ Used' = Used - n /\ n <= Used
  BY <1>5, <1>7, <1>8
<1>10. ASSUME NEW p \in Slots
       PROVE  /\ Dist(p) \in Int /\ 0 <= Dist(p) /\ (Dist(p) < n <=> p \in r .. r + n - 1)
              /\ ~(p \in r .. r + n - 1) => Dist(p)' = Dist(p) - n
  <2>1. p \in Nat /\ p < buffer_size
    BY <1>5
  <2>. QED  BY <1>3, <1>5, <1>8, <2>1
<1>11. Dist(r) = 0 /\ IsHead(r) /\ 0 < Used
  BY <1>2, <1>3, <1>5, <1>8, <1>9 DEF IsHead
<1>12. 0 \in Heads
  BY <1>11 DEF QueueShape
<1>13. ASSUME NEW p \in Slots
       PROVE  /\ Dist(p)' \in Heads' <=> Dist(p) \in R
              /\ Dist(p) \in R => Dist(p)' = Dist(p) - n /\ buffer'[p] = buffer[p] /\ 0 < Dist(p)
  <2>1. Dist(p) \in Heads <=> Dist(p) < Used /\ IsHead(p)
    BY <1>13 DEF QueueShape
  <2>2. Dist(p)' \in Heads' <=> Dist(p)' < Used' /\ IsHead(p)'
    BY <1>13 DEF QueueShape
  <2>3. CASE p \in r .. r + n - 1
    <3>1. ~IsHead(p)'
      <4>1. buffer'[p] = free
        BY <1>2, <1>3, <2>3
      <4>. QED  BY <4>1, AllWords DEF IsHead
    <3>2. ~(Dist(p) \in R)
      BY <1>6, <1>11, <2>1, <2>3
    <3>. QED  BY <2>2, <3>1, <3>2
  <2>4. CASE ~(p \in r .. r + n - 1)
    <3>1. buffer'[p] = buffer[p]
      BY <1>2, <1>3, <2>4
    <3>2. IsHead(p)' <=> IsHead(p)
      BY <3>1 DEF IsHead
    <3>3. Dist(p) \in Int /\ 0 <= Dist(p) /\ ~(Dist(p) < n) /\ Dist(p)' = Dist(p) - n
      BY <1>10, <2>4
    <3>4. Dist(p) # 0 /\ 0 < Dist(p) /\ (Dist(p) - n < Used - n <=> Dist(p) < Used)
      BY <1>3, <1>9, <3>3
    <3>. QED  BY <1>9, <2>1, <2>2, <3>1, <3>2, <3>3, <3>4
  <2>. QED  BY <2>3, <2>4
<1>14. R \subseteq Heads /\ Heads = R \cup {0} /\ n \in Int
  BY <1>12
<1>15. \A i \in R : 0 < i
  <2>1. \A i \in R : \E p \in Slots : i = Dist(p)
    BY DEF QueueShape
  <2>. QED  BY <1>13, <2>1
<1>16. IsFiniteSet(R) /\ R \subseteq Int
  BY FS_Subset, <1>14 DEF QueueShape
<1>. HIDE DEF R
<1>17. Queue' = InOrder(R, Contents)
  BY <1>13, <1>14, ShiftQueue
<1>18. Preceded(R, 0, Heads)
  BY <1>14, <1>15, <1>16 DEF Preceded
<1>19. InOrder(Heads, Contents) # <<>> /\ InOrder(R, Contents) = Tail(InOrder(Heads, Contents))
  BY <1>18, OrderTail
<1>. QED  BY <1>17, <1>19 DEF Queue

(* The ring between the EE thread and the VU thread is the queue of the    *)
(* packets it holds: what CommitWritePos publishes is added whole at the   *)
(* end, CommitReadPos takes the first away, a null packet is none, and a   *)
(* Reset drops nothing.  A writer that begins a lap before the reader      *)
(* follows it drops the queue, which is empty until WaitVU returns.        *)
THEOREM VURingIsQueue == Spec => ChannelSpec
<1>1. Init => Promised = <<>>
  <2>1. Init => Types /\ m_ato_read_pos = m_ato_write_pos
    BY InitSafe DEF Init, SafeInv
  <2>. QED  BY <2>1, EmptyQueue DEF Promised
<1>2. ASSUME IInv, IInv', ~lapped, ~lapped', [Next]_vars
      PROVE  [Channel!Next]_Promised
  <2>. USE DEF reader, writer, Goto
  <2>0. Promised = Queue /\ Promised' = Queue'
    BY <1>2 DEF Promised
  <2>1. QueueShape /\ QueueShape'
    <3>1. (Types /\ Places /\ Fits /\ Published /\ Layout /\ WriteInv => QueueShape)'
      BY Shape, PTL
    <3>. QED  BY <1>2, <3>1, Shape DEF IInv, SafeInv, RingInv
  <2>2. Types /\ Places /\ Fits /\ Published /\ SyncInv /\ Layout /\ WriteInv /\ ReadInv
    BY <1>2 DEF IInv, SafeInv, RingInv
  <2>3. CASE WriteNull \/ Write
    BY <2>0, <2>1, <2>2, <2>3, WriteNullQueue, WriteQueue
  <2>4. CASE CommitWritePos
    <3>1. CASE epc = "null_commit"
      BY <2>0, <2>1, <2>2, <2>4, <3>1, CommitNullQueue
    <3>2. CASE epc = "commit"
      <4>1. Queue' = Append(Queue, packet) /\ packet \in Packets
        BY <2>1, <2>2, <2>4, <3>2, CommitQueue DEF Places
      <4>. QED  BY <2>0, <4>1 DEF Channel!Next, Channel!Send
    <3>. QED  BY <2>4, <3>1, <3>2 DEF CommitWritePos
  <2>5. CASE CommitReadPos
    <3>1. CASE buffer[m_ato_read_pos] = MTVU_NULL_PACKET
      BY <2>0, <2>1, <2>2, <2>5, <3>1, ReadNullQueue
    <3>2. CASE buffer[m_ato_read_pos] # MTVU_NULL_PACKET
      BY <2>0, <2>1, <2>2, <2>5, <3>2, ReadPacketQueue DEF Channel!Next, Channel!Take
    <3>. QED  BY <3>1, <3>2
  <2>6. CASE Reset
    <3>1. m_ato_read_pos = m_ato_write_pos
      BY <2>2, <2>6 DEF Reset, SyncInv, Calm
    <3>2. Queue = <<>>
      BY <2>2, <3>1, EmptyQueue
    <3>3. (Types /\ m_ato_read_pos = m_ato_write_pos => Queue = <<>>)'
      BY EmptyQueue, PTL
    <3>4. Types' /\ m_ato_read_pos' = m_ato_write_pos'
      BY <1>2, <2>6 DEF Reset, IInv, SafeInv
    <3>. QED  BY <2>0, <3>2, <3>3, <3>4
  <2>7. CASE UNCHANGED <<buffer, m_ato_read_pos, m_ato_write_pos>>
    BY <2>0, <2>7, UnchangedQueue
  <2>8. Next /\ ~(WriteNull \/ Write \/ CommitWritePos \/ CommitReadPos \/ Reset)
          => UNCHANGED <<buffer, m_ato_read_pos, m_ato_write_pos>>
    <3>1. (\E k \in Packets : Begin(k)) \/ Open \/ WaitVU \/ Close
            => UNCHANGED <<buffer, m_ato_read_pos, m_ato_write_pos>>
      BY DEF Begin, Open, WaitVU, Close
    <3>2. ReserveSpace \/ WaitOnSize \/ WaitOnSizeKick \/ Announce
            => UNCHANGED <<buffer, m_ato_read_pos, m_ato_write_pos>>
      BY DEF ReserveSpace, WaitOnSize, WaitOnSizeKick, Announce
    <3>3. WaitForEmpty \/ Synced \/ CloseKick \/ Join
            => UNCHANGED <<buffer, m_ato_read_pos, m_ato_write_pos>>
      BY <1>2 DEF WaitForEmpty, Synced, CloseKick, Join
    <3>4. WaitForWork \/ CheckShutdown \/ FoundEmpty \/ Execute
            => UNCHANGED <<buffer, m_ato_read_pos, m_ato_write_pos>>
      BY DEF WaitForWork, CheckShutdown, FoundEmpty, Execute
    <3>. QED
      BY <3>1, <3>2, <3>3, <3>4, Zenon DEF Next, EECall, EEStep, VUStep
  <2>9. UNCHANGED vars => UNCHANGED <<buffer, m_ato_read_pos, m_ato_write_pos>>
    BY DEF vars
  <2>. QED
    BY <1>2, <2>0, <2>3, <2>4, <2>5, <2>6, <2>7, <2>8, <2>9, Zenon
<1>3. ASSUME IInv, IInv', [Next]_vars PROVE [Channel!Next]_Promised
  <2>1. CASE ~lapped /\ ~lapped'
    BY <1>2, <1>3, <2>1
  <2>2. CASE lapped /\ lapped'
    BY <2>2 DEF Promised
  <2>3. CASE lapped /\ ~lapped'
    <3>1. m_ato_read_pos' = m_ato_write_pos' /\ Types'
      BY <1>3, <2>3, FreshRing DEF IInv, SafeInv
    <3>2. (Types /\ m_ato_read_pos = m_ato_write_pos => Queue = <<>>)'
      BY EmptyQueue, PTL
    <3>3. Promised' = <<>> /\ Promised = <<>>
      BY <2>3, <3>1, <3>2 DEF Promised
    <3>. QED  BY <3>3
  <2>4. CASE ~lapped /\ lapped'
    <3>1. epc = "null" /\ ~ReaderFollows
      BY <1>3, <2>4, LapBegins
    <3>2. Promised' = <<>>
      BY <2>4 DEF Promised
    <3>. QED  BY <3>1, <3>2 DEF Channel!Next, Channel!Clear
  <2>. QED  BY <2>1, <2>2, <2>3, <2>4
<1>. QED
  BY <1>1, <1>3, AlwaysIInv, PTL DEF Spec, ChannelSpec, Channel!Spec, Channel!Init

-----------------------------------------------------------------------------
(* The interrupts a program on the VU thread raises, module                *)
(* MTVUInterrupts: the hand-over to the EE thread, for labels of any       *)
(* width.                                                                  *)

(* The EE thread handles flags it has read, and is at one of them.         *)
HandlesRead ==
    /\ ee_pc = "run" => interrupts = {}
    /\ ee_pc \in {"signal", "sig_clear"} => "signal" \in interrupts

(* The flag of SIGNAL is cleared by nobody but the part of Get_MTVUChanges *)
(* that handles it, and set by nobody but the VU thread: so a VU thread    *)
(* that has not found it set does not find the EE thread in that part.     *)
SignalInv ==
    /\ "signal" \in interrupts => "signal" \in mtvuInterrupts
    /\ vu_pc = "sig_store" /\ ~warned => "signal" \notin mtvuInterrupts
    /\ ee_pc = "sig_clear" => ~unread
    /\ SignalFlagged

LabelInv == LabelsPreserved /\ LabelFlagged

InterruptInv == InterruptTypeOK /\ HandlesRead /\ SignalInv /\ LabelInv

-----------------------------------------------------------------------------
(* FirstOf names one of the flags it is given, or there is none.           *)
LEMMA FirstOfIsFirst ==
    ASSUME NEW flags, flags \subseteq Flags
    PROVE  /\ flags = {} => FirstOf(flags) = "run"
           /\ flags # {} => FirstOf(flags) \in flags
<1> DEFINE todo == {i \in 1 .. 5 : Parts[i] \in flags}
<1>1. \A i \in 1 .. 5 : Parts[i] \in Flags
  BY DEF Parts, Flags
<1>2. CASE flags = {}
  BY <1>2 DEF FirstOf
<1>3. CASE flags # {}
  <2>1. \E i \in todo : \A j \in todo : i <= j
    <3>1. todo # {}
      <4>1. PICK f \in flags : f \in Flags
        BY <1>3
      <4>2. \E i \in 1 .. 5 : Parts[i] = f
        <5>1. /\ Parts[1] = "signal" /\ Parts[2] = "finish" /\ Parts[3] = "label"
              /\ Parts[4] = "ebit" /\ Parts[5] = "tbit"
          BY DEF Parts
        <5> QED
          BY <4>1, <5>1 DEF Flags
      <4> QED
        BY <4>1, <4>2
    <3>2. CASE 1 \in todo
      BY <3>2
    <3>3. CASE 1 \notin todo /\ 2 \in todo
      BY <3>3
    <3>4. CASE 1 \notin todo /\ 2 \notin todo /\ 3 \in todo
      BY <3>4
    <3>5. CASE 1 \notin todo /\ 2 \notin todo /\ 3 \notin todo /\ 4 \in todo
      BY <3>5
    <3>6. CASE 1 \notin todo /\ 2 \notin todo /\ 3 \notin todo /\ 4 \notin todo
      BY <3>1, <3>6
    <3> QED
      BY <3>2, <3>3, <3>4, <3>5, <3>6
  <2> DEFINE first == CHOOSE i \in todo : \A j \in todo : i <= j
  <2>2. first \in todo
    BY <2>1
  <2>3. FirstOf(flags) = Parts[first]
    BY <2>2 DEF FirstOf
  <2> QED
    BY <2>2, <2>3
<1> QED
  BY <1>2, <1>3

(* Override applied to a register or to a label gives one again.           *)
LEMMA OverrideType ==
    ASSUME NEW m \in Labels
    PROVE  /\ \A o \in [Bits -> {"0", "1"}] : Override(o, m) \in [Bits -> {"0", "1"}]
           /\ \A o \in Labels : Override(o, m) \in Labels
BY DEF Override, Labels

(* Labels may be merged before they are applied, bit by bit: "It's okay to *)
(* coalesce label updates".                                                *)
LEMMA OverrideCoalesces ==
    ASSUME NEW o \in [Bits -> {"0", "1"}], NEW l \in Labels, NEW m \in Labels, NEW b \in Bits
    PROVE  Override(o, Override(l, m))[b] = Override(Override(o, l), m)[b]
BY DEF Override, Labels

(* What a label does to a bit: it depends on nothing but that bit.         *)
LEMMA OverrideBit ==
    ASSUME NEW o, NEW m, NEW b \in Bits
    PROVE  Override(o, m)[b] = IF b \in Written(m) THEN m[b] ELSE o[b]
BY DEF Override, Written

(* No label changes nothing, and zero clears the register.                 *)
LEMMA OverrideNone ==
    /\ noLabel \in Labels /\ Written(noLabel) = {}
    /\ zero \in Labels /\ zero \in [Bits -> {"0", "1"}]
BY DEF noLabel, zero, Labels, Written

(* The initial states satisfy the inductive invariant.                     *)
LEMMA InitInterruptInv == InterruptInit => InterruptInv
<1> SUFFICES ASSUME InterruptInit PROVE InterruptInv
  OBVIOUS
<1>1. LBLID \in [Bits -> {"0", "1"}] /\ noLabel \in Labels
  BY OverrideNone DEF InterruptInit
<1>2. InterruptTypeOK
  BY <1>1 DEF InterruptInit, InterruptTypeOK
<1>3. LabelsPreserved
  BY OverrideNone, OverrideBit DEF InterruptInit, LabelsPreserved
<1>4. HandlesRead /\ SignalInv /\ LabelFlagged
  BY DEF InterruptInit, HandlesRead, SignalInv, SignalFlagged, LabelFlagged
<1> QED
  BY <1>2, <1>3, <1>4 DEF InterruptInv, LabelInv

(* Every step preserves the types.                                         *)
LEMMA NextInterruptTypes == InterruptTypeOK /\ [InterruptNext]_interruptVars => InterruptTypeOK'
<1> SUFFICES ASSUME InterruptTypeOK, [InterruptNext]_interruptVars PROVE InterruptTypeOK'
  OBVIOUS
<1> USE DEF InterruptTypeOK
<1>0. interrupts \subseteq Flags /\ mtvuInterrupts \subseteq Flags
  OBVIOUS
<1>f. \A flags : flags \subseteq Flags => FirstOf(flags) \in Flags \cup {"run"}
  BY FirstOfIsFirst
<1>1. ASSUME NEW f \in {"finish", "ebit", "tbit"}, RaiseFlag(f) PROVE InterruptTypeOK'
  BY <1>1 DEF RaiseFlag, Flags, registers, ee, vu, ghosts
<1>2. CASE SignalCheck
  BY <1>2 DEF SignalCheck, atomics, registers, ee
<1>3. ASSUME NEW l \in Labels, LabelBegin(l) PROVE InterruptTypeOK'
  BY <1>3, OverrideNone DEF LabelBegin, atomics, registers, ee, ghosts
<1>4. CASE SignalStore
  BY <1>4 DEF SignalStore, atomics, registers, ee
<1>5. CASE LabelExchange
  <2>1. noLabel \in Labels
    BY DEF noLabel, Labels
  <2>2. gsLabel' \in Labels /\ value' \in Labels /\ existing' \in Labels
    BY <1>5, <2>1, OverrideType DEF LabelExchange
  <2>3. labels' \in [Bits -> {"0", "1"}] /\ overtaken' \subseteq Bits /\ orphan' \in BOOLEAN
    BY <1>5, OverrideType DEF LabelExchange
  <2>4. vu_pc' \in {"lbl_cas", "lbl_flag"}
    BY <1>5 DEF LabelExchange
  <2> QED
    BY <1>5, <2>2, <2>3, <2>4 DEF LabelExchange, registers, ee
<1>6. CASE SetFlag
  BY <1>6 DEF SetFlag, Flags, registers, ee, ghosts
<1>7. CASE PathSignal \/ AckSignal
  BY <1>7 DEF PathSignal, AckSignal, atomics, ee, vu, ghosts
<1>e. ASSUME NEW l \in Labels, EEWrites(l)
      PROVE  LBLID' \in [Bits -> {"0", "1"}] /\ labels' \in [Bits -> {"0", "1"}] /\ overtaken' \subseteq Bits
  BY <1>e, OverrideType DEF EEWrites, Written
<1>8. CASE CSRReset \/ ResetInterrupts \/ \E l \in Labels : PathLabel(l)
  <2>1. \E l \in Labels : EEWrites(l)
    BY <1>8, OverrideNone DEF PathLabel, CSRReset, ResetInterrupts
  <2>2. LBLID' \in [Bits -> {"0", "1"}] /\ labels' \in [Bits -> {"0", "1"}] /\ overtaken' \subseteq Bits
    BY <1>e, <2>1
  <2>3. gsLabel' = gsLabel /\ value' = value /\ existing' = existing
    BY <1>8 DEF PathLabel, CSRReset, ResetInterrupts, atomics, vu
  <2> QED
    BY <1>8, <2>2, <2>3 DEF PathLabel, CSRReset, ResetInterrupts, atomics, ee, vu
<1>9. CASE GetChanges
  BY <1>9, <1>f DEF GetChanges, atomics, registers, vu, ghosts
<1>10. CASE SignalLoad
  BY <1>10 DEF SignalLoad, atomics, registers, vu
<1>11. CASE SignalClear
  BY <1>11, <1>f DEF SignalClear, PartDone, vu, ghosts
<1>12. CASE LabelTake
  BY <1>12, <1>f, OverrideType, OverrideNone DEF LabelTake, PartDone, registers, vu, ghosts
<1>13. ASSUME NEW f \in {"finish", "ebit", "tbit"}, FlagChange(f) PROVE InterruptTypeOK'
  BY <1>13, <1>f DEF FlagChange, PartDone, registers, vu, ghosts
<1>14. CASE UNCHANGED interruptVars
  BY <1>14 DEF interruptVars, atomics, registers, ee, vu, ghosts
<1> QED
  BY <1>1, <1>2, <1>3, <1>4, <1>5, <1>6, <1>7, <1>8, <1>9, <1>10, <1>11, <1>12, <1>13, <1>14
  DEF InterruptNext, VUCall, VUInterruptStep, EEInterruptCall, EEInterruptStep

-----------------------------------------------------------------------------
(* Where FirstOf sends the EE thread is a flag still to be handled.        *)
LEMMA FirstOfPlace ==
    ASSUME NEW flags, flags \subseteq Flags
    PROVE  /\ FirstOf(flags) = "run" => flags = {}
           /\ FirstOf(flags) = "signal" => "signal" \in flags
           /\ FirstOf(flags) \notin {"sig_clear", "lbl_take"}
BY FirstOfIsFirst DEF Flags

(* Every step keeps the EE thread at a flag it has read.                   *)
LEMMA NextHandlesRead == InterruptInv /\ [InterruptNext]_interruptVars => HandlesRead'
<1> SUFFICES ASSUME InterruptInv, [InterruptNext]_interruptVars PROVE HandlesRead'
  OBVIOUS
<1>0. InterruptTypeOK /\ HandlesRead
  BY DEF InterruptInv
<1> USE DEF HandlesRead
<1>1. CASE UNCHANGED ee
  BY <1>0, <1>1 DEF ee
<1>2. CASE GetChanges
  BY <1>0, <1>2, FirstOfPlace DEF GetChanges, InterruptTypeOK
<1>3. CASE SignalLoad
  BY <1>0, <1>3 DEF SignalLoad
<1>4. ASSUME NEW f, NEW here, PartDone(f, here) PROVE HandlesRead'
  <2>1. interrupts \ {f} \subseteq Flags
    BY <1>0 DEF InterruptTypeOK
  <2> QED
    BY <1>4, <2>1, FirstOfPlace DEF PartDone
<1>5. CASE LabelTake
  BY <1>0, <1>4, <1>5 DEF LabelTake
<1>6. CASE SignalClear \/ \E f \in {"finish", "ebit", "tbit"} : FlagChange(f)
  BY <1>4, <1>6 DEF SignalClear, FlagChange
<1>7. CASE VUCall \/ VUInterruptStep \/ EEInterruptCall \/ UNCHANGED interruptVars
  BY <1>1, <1>7 DEF VUCall, VUInterruptStep, EEInterruptCall, RaiseFlag, SignalCheck, LabelBegin,
       SignalStore,
     LabelExchange, SetFlag, PathSignal, AckSignal, PathLabel, CSRReset, ResetInterrupts, interruptVars
<1> QED
  BY <1>2, <1>3, <1>5, <1>6, <1>7 DEF InterruptNext, EEInterruptStep

(* Every step keeps an unread signal flagged, whichever threads meet.      *)
LEMMA NextSignalInv == InterruptInv /\ [InterruptNext]_interruptVars => SignalInv'
<1> SUFFICES ASSUME InterruptInv, [InterruptNext]_interruptVars PROVE SignalInv'
  OBVIOUS
<1>0. InterruptTypeOK /\ HandlesRead /\ SignalInv
  BY DEF InterruptInv
<1>t. {unread, warned} \subseteq BOOLEAN
  BY <1>0 DEF InterruptTypeOK
<1> USE DEF SignalInv, SignalFlagged
<1>1. ASSUME NEW f \in {"finish", "ebit", "tbit"}, RaiseFlag(f) PROVE SignalInv'
  BY <1>0, <1>1 DEF RaiseFlag, ee, vu, ghosts
<1>2. CASE SignalCheck
  BY <1>0, <1>2 DEF SignalCheck, atomics, ee
<1>3. ASSUME NEW l, LabelBegin(l) PROVE SignalInv'
  BY <1>0, <1>3 DEF LabelBegin, atomics, ee, ghosts
<1>4. CASE SignalStore
  \* The EE thread is not between its load and its clearing of the flag
  \* when a signal that was not reported is stored.
  <2>1. warned \/ ee_pc # "sig_clear"
    BY <1>0, <1>4 DEF SignalStore, HandlesRead
  <2> QED
    BY <1>0, <1>t, <1>4, <2>1 DEF SignalStore, atomics, ee
<1>5. CASE LabelExchange
  BY <1>0, <1>5 DEF LabelExchange, ee
<1>6. CASE SetFlag
  BY <1>0, <1>6 DEF SetFlag, ee, ghosts
<1>7. CASE PathSignal \/ AckSignal
  BY <1>0, <1>7 DEF PathSignal, AckSignal, atomics, ee, vu, ghosts
<1>8. CASE ResetInterrupts
  BY <1>0, <1>8 DEF ResetInterrupts, ee, vu, HandlesRead
<1>15. CASE CSRReset \/ \E l \in Labels : PathLabel(l)
  BY <1>0, <1>15 DEF PathLabel, CSRReset, atomics, ee, vu
<1>9. CASE GetChanges
  <2>1. ee_pc' # "sig_clear"
    BY <1>0, <1>9, FirstOfPlace DEF GetChanges, InterruptTypeOK
  <2> QED
    BY <1>0, <1>9, <2>1 DEF GetChanges, atomics, vu, ghosts
<1>10. CASE SignalLoad
  BY <1>0, <1>10 DEF SignalLoad, atomics, vu
<1>p. ASSUME NEW f, NEW here, PartDone(f, here) PROVE ee_pc' # "sig_clear"
  <2>1. interrupts \ {f} \subseteq Flags
    BY <1>0 DEF InterruptTypeOK
  <2> QED
    BY <1>p, <2>1, FirstOfPlace DEF PartDone
<1>11. CASE SignalClear
  <2>1. ee_pc' # "sig_clear" /\ ~unread
    BY <1>0, <1>p, <1>11 DEF SignalClear, PartDone
  <2> QED
    BY <1>0, <1>11, <2>1 DEF SignalClear, PartDone, vu, ghosts
<1>12. CASE LabelTake
  <2>1. ee_pc' # "sig_clear"
    BY <1>p, <1>12 DEF LabelTake
  <2> QED
    BY <1>0, <1>12, <2>1 DEF LabelTake, PartDone, vu, ghosts
<1>13. ASSUME NEW f \in {"finish", "ebit", "tbit"}, FlagChange(f) PROVE SignalInv'
  <2>1. ee_pc' # "sig_clear"
    BY <1>p, <1>13 DEF FlagChange
  <2> QED
    BY <1>0, <1>13, <2>1 DEF FlagChange, PartDone, vu, ghosts
<1>14. CASE UNCHANGED interruptVars
  BY <1>0, <1>14 DEF interruptVars, atomics, ee, vu, ghosts
<1> QED
  BY <1>1, <1>2, <1>3, <1>4, <1>5, <1>6, <1>7, <1>8, <1>9, <1>10, <1>11, <1>12, <1>13, <1>14, <1>15
  DEF InterruptNext, VUCall, VUInterruptStep, EEInterruptCall, EEInterruptStep

(* Every step keeps the labels, applied and pending, what was raised.      *)
LEMMA NextLabelsPreserved == InterruptInv /\ [InterruptNext]_interruptVars => LabelsPreserved'
<1> SUFFICES ASSUME InterruptInv, [InterruptNext]_interruptVars PROVE LabelsPreserved'
  OBVIOUS
<1>0. InterruptTypeOK /\ LabelsPreserved
  BY DEF InterruptInv, LabelInv
<1>t. gsLabel \in Labels /\ value \in Labels /\ LBLID \in [Bits -> {"0", "1"}]
  BY <1>0 DEF InterruptTypeOK
<1>1. CASE UNCHANGED <<gsLabel, LBLID, labels, overtaken>>
  BY <1>0, <1>1 DEF LabelsPreserved
<1>2. CASE LabelExchange
  <2>1. CASE UNCHANGED <<gsLabel, labels, overtaken>>
    BY <1>1, <1>2, <2>1 DEF LabelExchange, registers
  <2>2. CASE /\ gsLabel' = Override(gsLabel, value) /\ labels' = Override(labels, value)
             /\ overtaken' = overtaken \ Written(value)
    <3> SUFFICES ASSUME NEW b \in Bits, b \notin overtaken' PROVE Override(LBLID', gsLabel')[b] = labels'[b]
      BY DEF LabelsPreserved
    <3>1. Override(LBLID', gsLabel')[b] = Override(Override(LBLID, gsLabel), value)[b]
      BY <1>2, <1>t, <2>2, OverrideCoalesces DEF LabelExchange, registers
    <3>2. b \in Written(value) \/ Override(LBLID, gsLabel)[b] = labels[b]
      BY <1>0, <2>2 DEF LabelsPreserved
    <3> QED
      BY <2>2, <3>1, <3>2, OverrideBit
  <2> QED
    BY <1>2, <2>1, <2>2 DEF LabelExchange
<1>3. CASE LabelTake
  <2>0. UNCHANGED <<labels, overtaken>>
    BY <1>3 DEF LabelTake, ghosts
  <2>1. CASE UNCHANGED <<gsLabel, LBLID>>
    BY <1>1, <2>0, <2>1
  <2>2. CASE LBLID' = Override(LBLID, gsLabel) /\ gsLabel' = noLabel
    <3> SUFFICES ASSUME NEW b \in Bits, b \notin overtaken PROVE Override(LBLID', gsLabel')[b] = labels[b]
      BY <2>0 DEF LabelsPreserved
    <3>1. Override(LBLID', gsLabel')[b] = Override(LBLID, gsLabel)[b]
      BY <2>2, OverrideNone, OverrideBit
    <3> QED
      BY <1>0, <3>1 DEF LabelsPreserved
  <2> QED
    BY <1>3, <2>1, <2>2 DEF LabelTake, registers
<1>4. ASSUME NEW l \in Labels, EEWrites(l), gsLabel' = gsLabel PROVE LabelsPreserved'
  <2> SUFFICES ASSUME NEW b \in Bits, b \notin overtaken' PROVE Override(LBLID', gsLabel)[b] = labels'[b]
    BY <1>4 DEF LabelsPreserved
  <2>0. /\ LBLID' = Override(LBLID, l) /\ labels' = Override(labels, l)
        /\ b \in Written(l) => b \notin Written(gsLabel)
        /\ b \notin Written(l) => b \notin overtaken
    BY <1>4 DEF EEWrites
  <2>1. CASE b \in Written(l)
    BY <2>0, <2>1, OverrideBit
  <2>2. CASE b \notin Written(l)
    <3>1. Override(LBLID, gsLabel)[b] = labels[b]
      BY <1>0, <2>0, <2>2 DEF LabelsPreserved
    <3>2. LBLID'[b] = LBLID[b] /\ labels'[b] = labels[b]
      BY <2>0, <2>2, OverrideBit
    <3> QED
      BY <3>1, <3>2, OverrideBit
  <2> QED
    BY <2>1, <2>2
<1>5. CASE CSRReset \/ ResetInterrupts \/ \E l \in Labels : PathLabel(l)
  BY <1>4, <1>5, OverrideNone DEF PathLabel, CSRReset, ResetInterrupts, atomics
<1>6. CASE VUCall \/ SignalStore \/ SetFlag \/ PathSignal \/ AckSignal \/ UNCHANGED interruptVars
  BY <1>1, <1>6 DEF VUCall, RaiseFlag, SignalCheck, LabelBegin, SignalStore, SetFlag,
     PathSignal, AckSignal, interruptVars, atomics, registers, ghosts
<1>7. CASE GetChanges \/ SignalLoad \/ SignalClear \/ \E f \in {"finish", "ebit",
     "tbit"} : FlagChange(f)
  BY <1>1, <1>7 DEF GetChanges, SignalLoad, SignalClear, FlagChange, atomics,
       registers, ghosts
<1> QED
  BY <1>2, <1>3, <1>5, <1>6, <1>7 DEF InterruptNext, VUInterruptStep, EEInterruptCall, EEInterruptStep

(* Every step keeps a pending label flagged.                               *)
LEMMA NextLabelFlagged == InterruptInv /\ [InterruptNext]_interruptVars => LabelFlagged'
<1> SUFFICES ASSUME InterruptInv, [InterruptNext]_interruptVars PROVE LabelFlagged'
  OBVIOUS
<1>0. LabelFlagged
  BY DEF InterruptInv, LabelInv
<1> USE DEF LabelFlagged
<1>1. ASSUME NEW f \in {"finish", "ebit", "tbit"}, RaiseFlag(f) PROVE LabelFlagged'
  BY <1>0, <1>1 DEF RaiseFlag, ee, vu, ghosts, noLabel
<1>2. CASE SignalCheck
  BY <1>0, <1>2 DEF SignalCheck, atomics, ee, ghosts
<1>3. ASSUME NEW l, LabelBegin(l) PROVE LabelFlagged'
  BY <1>0, <1>3 DEF LabelBegin, atomics, ee, ghosts
<1>4. CASE SignalStore
  BY <1>0, <1>4 DEF SignalStore, atomics, ee, ghosts
<1>5. CASE LabelExchange
  BY <1>0, <1>5 DEF LabelExchange, ee
<1>6. CASE SetFlag
  BY <1>0, <1>6 DEF SetFlag, ee, ghosts
<1>7. CASE PathSignal \/ AckSignal
  BY <1>0, <1>7 DEF PathSignal, AckSignal, atomics, ee, vu, ghosts
<1>8. CASE ResetInterrupts
  BY <1>8 DEF ResetInterrupts
<1>15. CASE CSRReset \/ \E l \in Labels : PathLabel(l)
  BY <1>0, <1>15 DEF PathLabel, CSRReset, atomics, ee, vu
<1>9. CASE GetChanges
  BY <1>0, <1>9 DEF GetChanges, atomics, vu, ghosts
<1>10. CASE SignalLoad
  BY <1>0, <1>10 DEF SignalLoad, atomics, vu, ghosts
<1>11. CASE SignalClear
  BY <1>0, <1>11 DEF SignalClear, PartDone, vu, ghosts
<1>12. CASE LabelTake
  BY <1>0, <1>12 DEF LabelTake, vu, ghosts
<1>13. ASSUME NEW f \in {"finish", "ebit", "tbit"}, FlagChange(f) PROVE LabelFlagged'
  BY <1>0, <1>13 DEF FlagChange, PartDone, vu, ghosts
<1>14. CASE UNCHANGED interruptVars
  BY <1>0, <1>14 DEF interruptVars, atomics, ee, vu, ghosts
<1> QED
  BY <1>1, <1>2, <1>3, <1>4, <1>5, <1>6, <1>7, <1>8, <1>9, <1>10, <1>11, <1>12, <1>13, <1>14, <1>15
  DEF InterruptNext, VUCall, VUInterruptStep, EEInterruptCall, EEInterruptStep

(* The inductive invariant holds in every reachable state.                 *)
LEMMA AlwaysInterruptInv == InterruptSpec => []InterruptInv
<1>1. InterruptInv /\ [InterruptNext]_interruptVars => InterruptInv'
  BY NextInterruptTypes, NextHandlesRead, NextSignalInv, NextLabelsPreserved,
       NextLabelFlagged DEF InterruptInv, LabelInv
<1> QED
  BY InitInterruptInv, <1>1, PTL DEF InterruptSpec

-----------------------------------------------------------------------------
(* The variables keep their types, for every width of LBLID.               *)
THEOREM InterruptTypeCorrect == InterruptSpec => []InterruptTypeOK
<1>1. InterruptInv => InterruptTypeOK
  BY DEF InterruptInv
<1> QED
  BY <1>1, AlwaysInterruptInv, PTL

(* No label is lost and none is applied twice: at every moment of the      *)
(* compare-exchange of the VU thread and of the exchange of the EE thread, *)
(* LBLID with the pending label is what the labels of all three paths and  *)
(* the resets give one by one, but for the bits the EE thread wrote while  *)
(* an older label of the VU was pending for them.                          *)
THEOREM LabelsAreNotLost == InterruptSpec => []LabelsPreserved
<1>1. InterruptInv => LabelsPreserved
  BY DEF InterruptInv, LabelInv
<1> QED
  BY <1>1, AlwaysInterruptInv, PTL

(* A pending label does not stay behind with its flag unset, and a signal  *)
(* nobody reported as a double stays flagged until it is loaded.           *)
THEOREM PendingIsFlagged == InterruptSpec => []PendingFlagged
<1>1. InterruptInv => PendingFlagged
  BY DEF InterruptInv, LabelInv, SignalInv, PendingFlagged
<1> QED
  BY <1>1, AlwaysInterruptInv, PTL

(* A signal the EE has not loaded is overwritten only after a report.      *)
THEOREM OverwritesAreReported == InterruptSpec => OverwriteReported
<1>1. InterruptInv /\ [InterruptNext]_interruptVars
        => [vu_pc = "sig_store" /\ vu_pc' = "sig_flag" => (unread => warned)]_interruptVars
  <2> SUFFICES ASSUME InterruptInv, vu_pc = "sig_store", unread PROVE warned
    BY DEF InterruptInv, InterruptTypeOK
  <2> QED
    BY DEF InterruptInv, SignalInv, SignalFlagged
<1> QED
  BY <1>1, AlwaysInterruptInv, PTL DEF InterruptSpec, OverwriteReported

=============================================================================
