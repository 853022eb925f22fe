---------------------------- MODULE AudioOutput ----------------------------
(***************************************************************************)
(* The way of the sound from the SPU2 to the frontend: the ring of frames  *)
(* in AudioStream, written by the CPU thread a chunk at a time, and        *)
(* OutputAudio, which hands over one video frame's worth per call on the   *)
(* frontend's thread.                                                      *)
(*                                                                         *)
(* One step is one access to m_rpos or m_wpos, or one copy.  A thread's    *)
(* load of the position it alone writes is no step.  A frame of sound is   *)
(* its number in the order of the SPU2's output.  The stream of the        *)
(* libretro core neither stretches nor expands, and it is full volume.     *)
(* s_audio_owed is a double; here it counts in parts of a frame, Unit of   *)
(* them to the frame, so that the fractions of 48000 / 59.94 are kept.     *)
(* Who may replace the stream, and when, is in module LibretroHost.        *)
(***************************************************************************)
EXTENDS Integers

CONSTANTS
    m_buffer_size,              \* frames of the ring
    CHUNK_SIZE,                 \* frames of a chunk
    ToFill,                     \* frames ReadFrames waits for after an underrun
    Unit, quantum,              \* parts of a frame; parts owed per emulated frame
    MAX_AUDIO_FRAMES_PER_RUN,
    MaxChunks, MaxCalls         \* bounds: chunks written and calls of OutputAudio

ASSUME SizeAssumption ==
    /\ {m_buffer_size, CHUNK_SIZE, ToFill, Unit, quantum, MAX_AUDIO_FRAMES_PER_RUN} \subseteq Nat \ {0}
    /\ CHUNK_SIZE < m_buffer_size
    /\ {MaxChunks, MaxCalls} \subseteq Nat

VARIABLES
    m_buffer, m_rpos, m_wpos, m_filling,   \* AudioStream
    cpc, seen,                             \* the CPU thread: place, the m_rpos it loaded
    fpc, wanted, frames, frames_to_read,   \* the frontend's thread in OutputAudio
    s_audio_owed, s_audio_frames_output,   \* its statics
    produced,   \* ghost: frames the SPU2 has put out
    lost,       \* ghost: frames of dropped chunks and of an emptied ring
    handed,     \* ghost: frames of sound handed over
    last,       \* ghost: the last of them
    calls,      \* ghost: calls of OutputAudio
    short,      \* ghost: audio owed was given up, so that the calls and the frames need not agree
    gap,        \* ghost: silence was handed over after the first sound
    crossed     \* ghost: EmptyBuffer's store came in the middle of a read, or after one its load missed

ring   == <<m_buffer, m_rpos, m_wpos>>
cpu    == <<cpc, seen>>
pull   == <<fpc, wanted, frames, frames_to_read, m_filling>>
owed   == <<s_audio_owed, s_audio_frames_output>>
ghosts == <<produced, lost, handed, last, calls, short, gap, crossed>>

vars == <<ring, cpu, pull, owed, ghosts>>

Slots == 0 .. m_buffer_size - 1

(* A position that has run past the end of the ring by less than its size. *)
Wrapped(p) == IF p >= m_buffer_size THEN p - m_buffer_size ELSE p

MinOf(a, b) == IF a < b THEN a ELSE b

(* GetBufferedFramesRelaxed: what is between the two positions.            *)
Between(rpos, wpos) == Wrapped(wpos + m_buffer_size - rpos)

Buffered == Between(m_rpos, m_wpos)

Init ==
    /\ m_buffer = [p \in Slots |-> 0] /\ m_rpos = 0 /\ m_wpos = 0 /\ m_filling = FALSE
    /\ cpc = "run" /\ seen = 0
    /\ fpc = "run" /\ wanted = 0 /\ frames = 0 /\ frames_to_read = 0
    /\ s_audio_owed = 0 /\ s_audio_frames_output = 0
    /\ produced = 0 /\ lost = 0 /\ handed = 0 /\ last = 0 /\ calls = 0
    /\ short = FALSE /\ gap = FALSE /\ crossed = FALSE

-----------------------------------------------------------------------------
(* The CPU thread.                                                         *)

(* Mutant: a chunk may fill the ring, which then looks empty.              *)
WriteChunkFull ==
    /\ cpc = "run" /\ produced < MaxChunks * CHUNK_SIZE
    /\ \/ /\ m_buffer_size - Buffered < CHUNK_SIZE
          /\ produced' = produced + CHUNK_SIZE /\ lost' = lost + CHUNK_SIZE
          /\ UNCHANGED cpc
       \/ /\ m_buffer_size - Buffered >= CHUNK_SIZE
          /\ cpc' = "copy"
          /\ UNCHANGED <<produced, lost>>
    /\ UNCHANGED <<ring, seen, pull, owed, handed, last, calls, short, gap, crossed>>

(* Mutant: a chunk is written over the oldest frames when there is no room.*)
WriteChunkOver ==
    /\ cpc = "run" /\ produced < MaxChunks * CHUNK_SIZE
    /\ cpc' = "copy"
    /\ UNCHANGED <<ring, seen, pull, owed, ghosts>>

(* InternalWriteFrames: a chunk that would fill the ring is dropped.       *)
WriteChunk ==
    /\ cpc = "run" /\ produced < MaxChunks * CHUNK_SIZE
    /\ \/ /\ m_buffer_size - Buffered <= CHUNK_SIZE
          /\ produced' = produced + CHUNK_SIZE /\ lost' = lost + CHUNK_SIZE
          /\ UNCHANGED cpc
       \/ /\ m_buffer_size - Buffered > CHUNK_SIZE
          /\ cpc' = "copy"
          /\ UNCHANGED <<produced, lost>>
    /\ UNCHANGED <<ring, seen, pull, owed, handed, last, calls, short, gap, crossed>>

(* The slots the CPU thread is about to write, or has not yet published.   *)
Writing == IF cpc \in {"copy", "store"} THEN {Wrapped(m_wpos + i) : i \in 0 .. CHUNK_SIZE - 1} ELSE {}

(* Mutant: the part of a chunk behind the end of the ring is not copied.   *)
WriteCopyToEnd ==
    /\ cpc = "copy" /\ cpc' = "store"
    /\ m_buffer' = [p \in Slots |-> IF p \in Writing /\ p >= m_wpos THEN produced + p - m_wpos + 1 ELSE m_buffer[p]]
    /\ UNCHANGED <<m_rpos, m_wpos, seen, pull, owed, ghosts>>

WriteCopy ==
    /\ cpc = "copy" /\ cpc' = "store"
    /\ m_buffer' = [p \in Slots |-> IF p \in Writing THEN produced + Between(m_wpos, p) + 1 ELSE m_buffer[p]]
    /\ UNCHANGED <<m_rpos, m_wpos, seen, pull, owed, ghosts>>

(* Mutant: the end of the ring is not taken for its start.                 *)
WriteStoreAtEnd ==
    /\ cpc = "store" /\ cpc' = "run"
    /\ m_wpos' = IF m_wpos + CHUNK_SIZE > m_buffer_size THEN m_wpos + CHUNK_SIZE - m_buffer_size
                 ELSE m_wpos + CHUNK_SIZE
    /\ produced' = produced + CHUNK_SIZE
    /\ UNCHANGED <<m_buffer, m_rpos, seen, pull, owed, lost, handed, last, calls, short, gap, crossed>>

WriteStore ==
    /\ cpc = "store" /\ cpc' = "run"
    /\ m_wpos' = Wrapped(m_wpos + CHUNK_SIZE)
    /\ produced' = produced + CHUNK_SIZE
    /\ UNCHANGED <<m_buffer, m_rpos, seen, pull, owed, lost, handed, last, calls, short, gap, crossed>>

(* SPU2::OnTargetSpeedChanged empties the ring: the load of m_rpos, and    *)
(* the store to m_wpos.  A core option that changes the limiter brings the *)
(* CPU thread here beside OutputAudio, without s_audio_stream_mutex.       *)
EmptyLoad ==
    /\ cpc = "run" /\ cpc' = "empty"
    /\ seen' = m_rpos
    /\ UNCHANGED <<ring, pull, owed, ghosts>>

EmptyStore ==
    /\ cpc = "empty" /\ cpc' = "run"
    /\ m_wpos' = seen
    /\ lost' = lost + Buffered
    /\ seen' = 0
    /\ crossed' = (crossed \/ seen # m_rpos \/ fpc \in {"read", "copy", "store"})
    /\ UNCHANGED <<m_buffer, m_rpos, pull, owed, produced, handed, last, calls, short, gap>>

-----------------------------------------------------------------------------
(* The frontend's thread: OutputAudio.                                     *)

(* Mutant: what a short frame left over is forgotten.                      *)
OutputAudioForgets(full) ==
    /\ fpc = "run" /\ calls < MaxCalls
    /\ calls' = calls + 1
    /\ s_audio_owed' = quantum
    /\ IF full THEN UNCHANGED <<fpc, wanted>>
       ELSE wanted' = MinOf(quantum \div Unit, MAX_AUDIO_FRAMES_PER_RUN) /\ fpc' = "pull"
    /\ short' = (short \/ s_audio_owed > quantum \/ full)
    /\ UNCHANGED <<ring, cpu, frames, frames_to_read, m_filling, s_audio_frames_output,
                   produced, lost, handed, last, gap, crossed>>

(* What is owed: one frame's worth more, on top of one at most.  With the  *)
(* frontend's buffer full nothing is handed over.                          *)
OutputAudio(full) ==
    /\ fpc = "run" /\ calls < MaxCalls
    /\ calls' = calls + 1
    /\ LET due == MinOf(s_audio_owed, quantum) + quantum
       IN  IF full
           THEN /\ s_audio_owed' = MinOf(due, quantum)
                /\ UNCHANGED <<fpc, wanted>>
           ELSE /\ s_audio_owed' = due
                /\ wanted' = MinOf(due \div Unit, MAX_AUDIO_FRAMES_PER_RUN)
                /\ fpc' = "pull"
    /\ short' = (short \/ s_audio_owed > quantum \/ full)
    /\ UNCHANGED <<ring, cpu, frames, frames_to_read, m_filling, s_audio_frames_output,
                   produced, lost, handed, last, gap, crossed>>

(* PullFrames asks for no more than is buffered.  When nothing is, silence *)
(* keeps the frontend fed, but only until the game's first sound, and not  *)
(* between two frames of one retro_run.                                    *)
PullFrames(pad_when_empty) ==
    /\ fpc = "pull"
    /\ LET n == MinOf(Buffered, wanted)
       IN  IF n = 0
           THEN /\ fpc' = "run" /\ wanted' = 0
                /\ gap' = (gap \/ (pad_when_empty /\ s_audio_frames_output = 0 /\ handed > 0))
                /\ UNCHANGED frames
           ELSE /\ fpc' = "read" /\ frames' = n
                /\ UNCHANGED <<wanted, gap>>
    /\ UNCHANGED <<ring, cpu, frames_to_read, m_filling, owed, produced, lost, handed, last, calls, short, crossed>>

(* ReadFrames counts again.  It would stretch what there is over an        *)
(* underrun, and go on with silence until ToFill frames are buffered.      *)
ReadFrames ==
    /\ fpc = "read" /\ fpc' = "copy"
    /\ LET waits == m_filling /\ Buffered < ToFill
           n     == IF waits THEN 0 ELSE MinOf(Buffered, frames)
       IN  /\ frames_to_read' = n
           /\ m_filling' = (waits \/ Buffered < frames)
           /\ gap' = (gap \/ (n < frames /\ handed > 0))
    /\ UNCHANGED <<ring, cpu, wanted, frames, owed, produced, lost, handed, last, calls, short, crossed>>

(* The slots the frontend's thread copies from.                            *)
Reading == IF fpc \in {"copy", "store"} THEN {Wrapped(m_rpos + i) : i \in 0 .. frames_to_read - 1} ELSE {}

ReadCopy ==
    /\ fpc = "copy" /\ fpc' = "store"
    /\ last' = IF frames_to_read = 0 THEN last ELSE m_buffer[Wrapped(m_rpos + frames_to_read - 1)]
    /\ UNCHANGED <<ring, cpu, wanted, frames, frames_to_read, m_filling, owed,
                   produced, lost, handed, calls, short, gap, crossed>>

(* The frames go back to the CPU thread, and to the frontend.              *)
ReadStore ==
    /\ fpc = "store" /\ fpc' = "run"
    /\ m_rpos' = Wrapped(m_rpos + frames_to_read)
    /\ s_audio_owed' = s_audio_owed - frames * Unit
    /\ s_audio_frames_output' = s_audio_frames_output + frames
    /\ handed' = handed + frames_to_read
    /\ wanted' = 0 /\ frames' = 0 /\ frames_to_read' = 0
    /\ UNCHANGED <<m_buffer, m_wpos, cpu, m_filling, produced, lost, last, calls, short, gap, crossed>>

(* retro_load_game, and the new stream of the boot.                        *)
LoadGame ==
    /\ cpc = "run" /\ fpc = "run"
    /\ m_buffer' = [p \in Slots |-> 0] /\ m_rpos' = 0 /\ m_wpos' = 0 /\ m_filling' = FALSE
    /\ s_audio_owed' = 0 /\ s_audio_frames_output' = 0
    /\ produced' = 0 /\ lost' = 0 /\ handed' = 0 /\ last' = 0 /\ calls' = 0
    /\ short' = FALSE /\ gap' = FALSE /\ crossed' = FALSE
    /\ UNCHANGED <<cpu, fpc, wanted, frames, frames_to_read>>

Next ==
    \/ WriteChunk \/ WriteCopy \/ WriteStore \/ EmptyLoad \/ EmptyStore
    \/ \E full \in BOOLEAN : OutputAudio(full)
    \/ \E pad_when_empty \in BOOLEAN : PullFrames(pad_when_empty)
    \/ ReadFrames \/ ReadCopy \/ ReadStore
    \/ LoadGame

Spec == Init /\ [][Next]_vars

-----------------------------------------------------------------------------
(* The types.                                                              *)
TypeOK ==
    /\ m_buffer \in [Slots -> Nat] /\ m_rpos \in Slots /\ m_wpos \in Slots /\ seen \in Slots
    /\ cpc \in {"run", "copy", "store", "empty"}
    /\ fpc \in {"run", "pull", "read", "copy", "store"}
    /\ {wanted, frames, frames_to_read, s_audio_owed, s_audio_frames_output} \subseteq Nat
    /\ {produced, lost, handed, last, calls} \subseteq Nat
    /\ {m_filling, short, gap, crossed} \subseteq BOOLEAN

(* The two threads never touch the same slot: the chunk the CPU thread     *)
(* writes lies outside the frames OutputAudio copies, whenever each looked *)
(* at the other's position.  Nothing but a crossed EmptyBuffer breaks it.  *)
SlotsDisjoint == ~crossed => Writing \cap Reading = {}

(* "What is not handed over stays in the stream for the next frame": every *)
(* frame the SPU2 put out was handed over once, or was dropped as a whole  *)
(* chunk or with an emptied ring, or is still in the ring; an EmptyBuffer  *)
(* that keeps clear of the reads takes exactly what is in it.              *)
FramesAccounted == ~crossed => produced = handed + lost + Buffered

(* Once the game has sounded there is no silence, neither a padded one nor *)
(* one of ReadFrames' underruns.                                           *)
SoundUnbroken == ~gap /\ ~m_filling

(* The frames in the ring are in the order of the SPU2's output, and newer *)
(* than every frame handed over.                                           *)
RingInOrder ==
    /\ \A i, j \in 0 .. Buffered - 1 :
          i < j => m_buffer[Wrapped(m_rpos + i)] < m_buffer[Wrapped(m_rpos + j)]
    /\ fpc # "store" /\ Buffered > 0 => last < m_buffer[m_rpos]

(* Nothing is played twice or out of order, and no silence comes between,  *)
(* until an EmptyBuffer crosses a read: only its position can bring played *)
(* frames back into the ring.                                              *)
FramesInOrder == ~crossed => RingInOrder /\ SoundUnbroken

(* The frontend never gets more sound than the calls were worth, and as    *)
(* long as nothing owed was given up it is exactly that, with the fraction *)
(* of a frame carried over: the rate does not drift, not even when         *)
(* EmptyBuffer runs beside OutputAudio.                                    *)
RateKept ==
    /\ s_audio_owed + s_audio_frames_output * Unit <= calls * quantum
    /\ ~short => s_audio_owed + s_audio_frames_output * Unit = calls * quantum

=============================================================================
