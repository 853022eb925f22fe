------------------------- MODULE AudioOutputProofs -------------------------
(***************************************************************************)
(* Proofs about module AudioOutput, for every size of the ring and of a    *)
(* chunk, every frame rate and any number of chunks and calls: the rate is *)
(* kept whatever the CPU thread does, and until an EmptyBuffer crosses a   *)
(* read the two threads never meet in a slot, the frames are accounted for *)
(* and in order, and no silence comes between.                             *)
(***************************************************************************)
EXTENDS AudioOutput, TLAPS

(* The constants one by one.                                               *)
LEMMA Constants ==
    /\ m_buffer_size \in Nat /\ CHUNK_SIZE \in Nat /\ CHUNK_SIZE > 0 /\ CHUNK_SIZE < m_buffer_size
    /\ Unit \in Nat /\ Unit > 0 /\ quantum \in Nat /\ quantum > 0
    /\ MAX_AUDIO_FRAMES_PER_RUN \in Nat /\ MAX_AUDIO_FRAMES_PER_RUN > 0
    /\ ToFill \in Nat
    /\ MaxChunks \in Nat /\ MaxCalls \in Nat
BY SizeAssumption

-----------------------------------------------------------------------------
(* The arithmetic of the ring: GetBufferedFramesRelaxed and the wrapping   *)
(* of a position.                                                          *)

LEMMA BetweenInRange ==
    ASSUME NEW r \in Slots, NEW w \in Slots
    PROVE  /\ Between(r, w) \in Nat /\ Between(r, w) < m_buffer_size
           /\ Between(r, r) = 0
           /\ Between(r, w) = 0 => r = w
BY Constants DEF Between, Wrapped, Slots

LEMMA WrappedInRange ==
    ASSUME NEW r \in Slots, NEW n \in Nat, n < m_buffer_size
    PROVE  Wrapped(r + n) \in Slots /\ Between(r, Wrapped(r + n)) = n
BY Constants DEF Between, Wrapped, Slots

(* Every slot is so far ahead of a position.                               *)
LEMMA SlotAhead ==
    ASSUME NEW r \in Slots, NEW p \in Slots
    PROVE  Wrapped(r + Between(r, p)) = p
BY Constants DEF Between, Wrapped, Slots

(* A position that moves on comes nearer to what was ahead of it, and      *)
(* leaves the rest a lap behind.                                           *)
LEMMA Shift ==
    ASSUME NEW r \in Slots, NEW p \in Slots, NEW n \in Nat, n < m_buffer_size
    PROVE  Between(Wrapped(r + n), p) = IF Between(r, p) >= n THEN Between(r, p) - n
                                        ELSE Between(r, p) - n + m_buffer_size
BY Constants DEF Between, Wrapped, Slots

(* The position at the other end does the same.                            *)
LEMMA Extend ==
    ASSUME NEW r \in Slots, NEW w \in Slots, NEW n \in Nat, Between(r, w) + n < m_buffer_size
    PROVE  Wrapped(w + n) \in Slots /\ Between(r, Wrapped(w + n)) = Between(r, w) + n
BY Constants DEF Between, Wrapped, Slots

-----------------------------------------------------------------------------
(* What the reader keeps to whatever happens to the ring.                  *)
ReadInv ==
    /\ fpc \in {"read", "copy", "store"} => frames > 0 /\ frames <= wanted
    /\ fpc \in {"copy", "store"} => frames_to_read < m_buffer_size

(* What holds at the places of the two threads: the writer found room, and *)
(* only reading makes more; the reader found its frames, and only it takes *)
(* them away.                                                              *)
PlaceInv ==
    /\ cpc \in {"copy", "store"} => Buffered + CHUNK_SIZE < m_buffer_size
    /\ fpc \in {"read", "copy", "store"} => frames <= Buffered
    /\ fpc \in {"copy", "store"} => frames_to_read = frames
    /\ s_audio_frames_output = handed

Accounted == produced = handed + lost + Buffered

(* What is wanted is owed.                                                 *)
OwedInv ==
    /\ fpc # "run" => wanted * Unit <= s_audio_owed
    /\ RateKept

(* The frames of the ring, by how far ahead of the reader they are; of a   *)
(* chunk that is copied but not yet published, by how far ahead of the     *)
(* writer.                                                                 *)
OrderInv ==
    /\ last <= produced
    /\ \A p \in Slots : Between(m_rpos, p) < Buffered => m_buffer[p] <= produced
    /\ \A p, q \in Slots :
          Between(m_rpos, p) < Between(m_rpos, q) /\ Between(m_rpos, q) < Buffered => m_buffer[p] < m_buffer[q]
    /\ cpc = "store" => \A p \in Slots :
          Between(m_wpos, p) < CHUNK_SIZE => m_buffer[p] = produced + Between(m_wpos, p) + 1
    /\ fpc # "store" => \A p \in Slots : Between(m_rpos, p) < Buffered => last < m_buffer[p]
    /\ fpc = "store" => last = m_buffer[Wrapped(m_rpos + frames_to_read - 1)]

(* What does not depend on the ring, and what a crossed EmptyBuffer breaks.*)
Own   == TypeOK /\ ReadInv /\ OwedInv
Clean == PlaceInv /\ Accounted /\ SoundUnbroken /\ OrderInv

(* An invariant: nothing but EmptyBuffer's store puts an end to Clean.     *)
IInv == Own /\ (~crossed => Clean)

-----------------------------------------------------------------------------
(* Multiplication, for the account of parts of a frame.                    *)

LEMMA Distributes ==
    ASSUME NEW a \in Int, NEW b \in Int, NEW c \in Int
    PROVE  (a + b) * c = a * c + b * c
OBVIOUS

LEMMA ProductInNat ==
    ASSUME NEW a \in Nat, NEW b \in Nat
    PROVE  a * b \in Nat
OBVIOUS

LEMMA Monotone ==
    ASSUME NEW a \in Nat, NEW b \in Nat, NEW c \in Nat, a <= b
    PROVE  a * c <= b * c
<1>1. b = a + (b - a) /\ b - a \in Nat
  OBVIOUS
<1>2. b * c = a * c + (b - a) * c
  BY <1>1, Distributes
<1>3. a * c \in Nat /\ (b - a) * c \in Nat /\ b * c \in Nat
  BY <1>1, ProductInNat
<1>. QED  BY <1>2, <1>3

LEMMA QuotientBounded ==
    ASSUME NEW a \in Nat
    PROVE  a \div Unit \in Nat /\ (a \div Unit) * Unit <= a
BY Constants

-----------------------------------------------------------------------------
(* What the types say of the positions, as the lemmas above want it.       *)
LEMMA Typed ==
    ASSUME TypeOK
    PROVE  /\ m_rpos \in Slots /\ m_wpos \in Slots /\ seen \in Slots
           /\ Buffered \in Nat /\ Buffered < m_buffer_size
           /\ wanted \in Nat /\ frames \in Nat /\ frames_to_read \in Nat
           /\ s_audio_owed \in Nat /\ s_audio_frames_output \in Nat
           /\ produced \in Nat /\ lost \in Nat /\ handed \in Nat /\ last \in Nat /\ calls \in Nat
           /\ m_filling \in BOOLEAN /\ short \in BOOLEAN /\ gap \in BOOLEAN /\ crossed \in BOOLEAN
BY BetweenInRange DEF TypeOK, Buffered

LEMMA MinIsOne ==
    ASSUME NEW a \in Int, NEW b \in Int
    PROVE  MinOf(a, b) \in {a, b} /\ MinOf(a, b) <= a /\ MinOf(a, b) <= b
BY DEF MinOf

(* What is handed over, at the end of a read, was owed.                    *)
LEMMA ReadIsOwed ==
    ASSUME Own, fpc = "store"
    PROVE  frames * Unit \in Nat /\ frames * Unit <= s_audio_owed
<1>1. frames * Unit \in Nat /\ wanted * Unit \in Nat
  BY Typed, Constants, ProductInNat DEF Own
<1>2. frames * Unit <= wanted * Unit
  BY Typed, Constants, Monotone DEF Own, ReadInv
<1>. QED  BY <1>1, <1>2, Typed DEF Own, OwedInv

(* The amount wanted is owed once it is computed.                          *)
LEMMA WantedIsOwed ==
    ASSUME NEW due \in Nat
    PROVE  LET w == MinOf(due \div Unit, MAX_AUDIO_FRAMES_PER_RUN) IN w \in Nat /\ w * Unit <= due
<1>. DEFINE q == due \div Unit
<1>. DEFINE w == MinOf(q, MAX_AUDIO_FRAMES_PER_RUN)
<1>1. q \in Nat /\ q * Unit <= due /\ q * Unit \in Nat
  BY QuotientBounded, ProductInNat, Constants
<1>. HIDE DEF q
<1>2. w \in Nat /\ w <= q
  BY <1>1, Constants, MinIsOne
<1>. HIDE DEF w
<1>3. w * Unit <= q * Unit /\ w * Unit \in Nat
  BY <1>1, <1>2, Monotone, ProductInNat, Constants
<1>. QED  BY <1>1, <1>2, <1>3 DEF w, q

-----------------------------------------------------------------------------
(* Types and places.                                                       *)
LEMMA NextTypeOK ==
    ASSUME Own, [Next]_vars
    PROVE  TypeOK'
<1>. USE Constants, Typed DEF Own
<1>1. CASE WriteChunk
  <2>1. produced' \in Nat /\ lost' \in Nat /\ cpc' \in {"run", "copy"}
    BY <1>1 DEF WriteChunk
  <2>. QED  BY <1>1, <2>1 DEF WriteChunk, TypeOK, ring, pull, owed
<1>2. CASE WriteCopy
  <2>1. \A p \in Slots : Between(m_wpos, p) \in Nat
    BY BetweenInRange
  <2>2. m_buffer' \in [Slots -> Nat]
    BY <1>2, <2>1 DEF WriteCopy, TypeOK
  <2>. QED  BY <1>2, <2>2 DEF WriteCopy, TypeOK, pull, owed, ghosts
<1>3. CASE WriteStore
  <2>1. Wrapped(m_wpos + CHUNK_SIZE) \in Slots
    BY WrappedInRange
  <2>. QED  BY <1>3, <2>1 DEF WriteStore, TypeOK, pull, owed
<1>4. CASE EmptyLoad
  BY <1>4 DEF EmptyLoad, TypeOK, ring, pull, owed, ghosts
<1>5. CASE EmptyStore
  <2>1. 0 \in Slots
    BY DEF Slots
  <2>. QED  BY <1>5, <2>1 DEF EmptyStore, TypeOK, pull, owed
<1>6. ASSUME NEW full \in BOOLEAN, OutputAudio(full) PROVE TypeOK'
  <2>. DEFINE due == MinOf(s_audio_owed, quantum) + quantum
  <2>1. due \in Nat
    BY MinIsOne
  <2>. HIDE DEF due
  <2>2. MinOf(due, quantum) \in Nat /\ MinOf(due \div Unit, MAX_AUDIO_FRAMES_PER_RUN) \in Nat
    <3>1. MinOf(due, quantum) \in Nat
      BY <2>1, MinIsOne
    <3>. QED  BY <2>1, <3>1, WantedIsOwed
  <2>3. s_audio_owed' \in Nat /\ wanted' \in Nat /\ fpc' \in {"run", "pull"} /\ short' \in BOOLEAN
    BY <1>6, <2>1, <2>2 DEF OutputAudio, due
  <2>. QED  BY <1>6, <2>3 DEF OutputAudio, TypeOK, ring, cpu
<1>7. ASSUME NEW pad_when_empty \in BOOLEAN, PullFrames(pad_when_empty) PROVE TypeOK'
  <2>1. MinOf(Buffered, wanted) \in Nat
    BY MinIsOne
  <2>2. frames' \in Nat /\ wanted' \in Nat /\ fpc' \in {"run", "read"} /\ gap' \in BOOLEAN
    BY <1>7, <2>1 DEF PullFrames
  <2>. QED  BY <1>7, <2>2 DEF PullFrames, TypeOK, ring, cpu, owed
<1>8. CASE ReadFrames
  <2>1. MinOf(Buffered, frames) \in Nat
    BY MinIsOne
  <2>2. frames_to_read' \in Nat /\ m_filling' \in BOOLEAN /\ gap' \in BOOLEAN
    BY <1>8, <2>1 DEF ReadFrames
  <2>. QED  BY <1>8, <2>2 DEF ReadFrames, TypeOK, ring, cpu, owed
<1>9. CASE ReadCopy
  <2>1. frames_to_read = 0 \/ Wrapped(m_rpos + frames_to_read - 1) \in Slots
    <3>1. CASE frames_to_read > 0
      <4>1. frames_to_read - 1 \in Nat /\ frames_to_read - 1 < m_buffer_size
        BY <1>9, <3>1 DEF ReadCopy, ReadInv
      <4>2. Wrapped(m_rpos + (frames_to_read - 1)) \in Slots
        BY <4>1, WrappedInRange
      <4>. QED  BY <4>2 DEF Slots
    <3>. QED  BY <3>1
  <2>2. last' \in Nat
    BY <1>9, <2>1 DEF ReadCopy, TypeOK
  <2>. QED  BY <1>9, <2>2 DEF ReadCopy, TypeOK, ring, cpu, owed
<1>10. CASE ReadStore
  <2>1. frames_to_read < m_buffer_size
    BY <1>10 DEF ReadStore, ReadInv
  <2>2. Wrapped(m_rpos + frames_to_read) \in Slots
    BY <2>1, WrappedInRange
  <2>3. s_audio_owed - frames * Unit \in Nat
    BY <1>10, ReadIsOwed DEF ReadStore
  <2>. QED  BY <1>10, <2>2, <2>3 DEF ReadStore, TypeOK, cpu
<1>11. CASE LoadGame
  <2>1. 0 \in Slots
    BY DEF Slots
  <2>2. m_buffer' \in [Slots -> Nat]
    BY <1>11 DEF LoadGame
  <2>. QED  BY <1>11, <2>1, <2>2 DEF LoadGame, TypeOK, cpu
<1>12. CASE UNCHANGED vars
  BY <1>12 DEF vars, ring, cpu, pull, owed, ghosts, TypeOK
<1>. QED
  BY <1>1, <1>2, <1>3, <1>4, <1>5, <1>6, <1>7, <1>8, <1>9, <1>10, <1>11, <1>12 DEF Next

LEMMA NextReadInv ==
    ASSUME Own, [Next]_vars
    PROVE  ReadInv'
<1>. USE Constants, Typed DEF Own
<1>1. CASE WriteChunk
  BY <1>1 DEF WriteChunk, ReadInv, pull
<1>2. CASE WriteCopy
  BY <1>2 DEF WriteCopy, ReadInv, pull
<1>3. CASE WriteStore
  BY <1>3 DEF WriteStore, ReadInv, pull
<1>4. CASE EmptyLoad
  BY <1>4 DEF EmptyLoad, ReadInv, pull
<1>5. CASE EmptyStore
  BY <1>5 DEF EmptyStore, ReadInv, pull
<1>6. ASSUME NEW full \in BOOLEAN, OutputAudio(full) PROVE ReadInv'
  <2>1. fpc' \in {"run", "pull"}
    BY <1>6 DEF OutputAudio
  <2>. QED  BY <2>1 DEF ReadInv
<1>7. ASSUME NEW pad_when_empty \in BOOLEAN, PullFrames(pad_when_empty) PROVE ReadInv'
  <2>. DEFINE n == MinOf(Buffered, wanted)
  <2>1. n \in Nat /\ n <= wanted
    BY MinIsOne
  <2>. HIDE DEF n
  <2>2. \/ fpc' = "run"
        \/ fpc' = "read" /\ frames' = n /\ n > 0 /\ wanted' = wanted
    BY <1>7, <2>1 DEF PullFrames, n
  <2>. QED  BY <2>1, <2>2 DEF ReadInv
<1>8. CASE ReadFrames
  <2>1. MinOf(Buffered, frames) < m_buffer_size
    BY MinIsOne
  <2>2. frames_to_read' < m_buffer_size
    BY <1>8, <2>1 DEF ReadFrames
  <2>. QED  BY <1>8, <2>2 DEF ReadFrames, ReadInv
<1>9. CASE ReadCopy
  BY <1>9 DEF ReadCopy, ReadInv
<1>10. CASE ReadStore
  BY <1>10 DEF ReadStore, ReadInv
<1>11. CASE LoadGame
  BY <1>11 DEF LoadGame, ReadInv
<1>12. CASE UNCHANGED vars
  BY <1>12 DEF vars, pull, ReadInv
<1>. QED
  BY <1>1, <1>2, <1>3, <1>4, <1>5, <1>6, <1>7, <1>8, <1>9, <1>10, <1>11, <1>12 DEF Next

(* How much is buffered after a step that moves a position.                *)
LEMMA WriteGrows ==
    ASSUME Own, Clean, WriteStore
    PROVE  Buffered' = Buffered + CHUNK_SIZE
<1>1. Buffered + CHUNK_SIZE < m_buffer_size
  BY DEF Own, Clean, PlaceInv, WriteStore
<1>2. Between(m_rpos, Wrapped(m_wpos + CHUNK_SIZE)) = Between(m_rpos, m_wpos) + CHUNK_SIZE
  BY <1>1, Typed, Constants, Extend DEF Own, Clean, Buffered
<1>. QED  BY <1>2 DEF WriteStore, Buffered

LEMMA ReadShrinks ==
    ASSUME Own, Clean, ReadStore
    PROVE  Buffered' = Buffered - frames_to_read
<1>1. frames_to_read \in Nat /\ frames_to_read <= Buffered /\ Buffered \in Nat /\ Buffered < m_buffer_size
  BY Typed DEF Own, Clean, PlaceInv, ReadStore
<1>2. Between(Wrapped(m_rpos + frames_to_read), m_wpos) = Between(m_rpos, m_wpos) - frames_to_read
  BY <1>1, Typed, Constants, Shift DEF Own, Clean, Buffered
<1>. QED  BY <1>2 DEF ReadStore, Buffered

LEMMA EmptyEmpties ==
    ASSUME Own, EmptyStore, ~crossed'
    PROVE  Buffered' = 0 /\ fpc \in {"run", "pull"} /\ fpc' = fpc
BY Typed, BetweenInRange DEF Own, EmptyStore, Buffered, TypeOK, pull

LEMMA RestEqual ==
    ASSUME UNCHANGED <<m_rpos, m_wpos>>
    PROVE  Buffered' = Buffered
BY DEF Buffered

LEMMA NextPlaceInv ==
    ASSUME Own, Clean, ~crossed', [Next]_vars
    PROVE  PlaceInv'
<1>. USE Constants, Typed DEF Own, Clean
<1>1. CASE WriteChunk
  BY <1>1, RestEqual DEF WriteChunk, PlaceInv, ring, pull, owed
<1>2. CASE WriteCopy
  BY <1>2, RestEqual DEF WriteCopy, PlaceInv, pull, owed, ghosts
<1>3. CASE WriteStore
  BY <1>3, WriteGrows DEF WriteStore, PlaceInv, pull, owed
<1>4. CASE EmptyLoad
  BY <1>4, RestEqual DEF EmptyLoad, PlaceInv, ring, pull, owed, ghosts
<1>5. CASE EmptyStore
  BY <1>5, EmptyEmpties DEF EmptyStore, PlaceInv, pull, owed
<1>6. ASSUME NEW full \in BOOLEAN, OutputAudio(full) PROVE PlaceInv'
  <2>1. fpc' \in {"run", "pull"}
    BY <1>6 DEF OutputAudio
  <2>. QED  BY <1>6, <2>1, RestEqual DEF OutputAudio, PlaceInv, ring, cpu
<1>7. ASSUME NEW pad_when_empty \in BOOLEAN, PullFrames(pad_when_empty) PROVE PlaceInv'
  <2>. DEFINE n == MinOf(Buffered, wanted)
  <2>1. n \in Nat /\ n <= Buffered /\ n <= wanted
    BY MinIsOne
  <2>. HIDE DEF n
  <2>2. \/ fpc' = "run"
        \/ fpc' = "read" /\ frames' = n /\ n > 0 /\ wanted' = wanted
    BY <1>7, <2>1 DEF PullFrames, n
  <2>3. fpc = "pull"
    BY <1>7 DEF PullFrames
  <2>. QED  BY <1>7, <2>1, <2>2, <2>3, RestEqual DEF PullFrames, PlaceInv, ring, cpu, owed
<1>8. CASE ReadFrames
  <2>1. frames_to_read' = frames
    BY <1>8 DEF ReadFrames, ReadInv, PlaceInv, SoundUnbroken, MinOf
  <2>. QED  BY <1>8, <2>1, RestEqual DEF ReadFrames, ReadInv, PlaceInv, ring, cpu, owed
<1>9. CASE ReadCopy
  BY <1>9, RestEqual DEF ReadCopy, ReadInv, PlaceInv, ring, cpu, owed
<1>10. CASE ReadStore
  <2>1. Buffered' = Buffered - frames_to_read
    BY <1>10, ReadShrinks
  <2>2. cpc' = cpc /\ fpc' = "run"
    BY <1>10 DEF ReadStore, ReadInv, PlaceInv, cpu
  <2>3. s_audio_frames_output' = handed'
    BY <1>10 DEF ReadStore, ReadInv, PlaceInv
  <2>4. cpc' \in {"copy", "store"} => Buffered' + CHUNK_SIZE < m_buffer_size
    <3>1. cpc \in {"copy", "store"} => Buffered + CHUNK_SIZE < m_buffer_size
      BY DEF PlaceInv
    <3>2. Buffered \in Int
      OBVIOUS
    <3>3. Buffered + CHUNK_SIZE < m_buffer_size => Buffered' + CHUNK_SIZE < m_buffer_size
      BY <2>1, <3>2
    <3>. QED  BY <2>2, <3>1, <3>3
  <2>. QED  BY <2>2, <2>3, <2>4 DEF PlaceInv
<1>11. CASE LoadGame
  BY <1>11 DEF LoadGame, PlaceInv, cpu
<1>12. CASE UNCHANGED vars
  BY <1>12, RestEqual DEF vars, ring, cpu, pull, owed, ghosts, PlaceInv
<1>. QED
  BY <1>1, <1>2, <1>3, <1>4, <1>5, <1>6, <1>7, <1>8, <1>9, <1>10, <1>11, <1>12 DEF Next

(* Every frame is in one place, and silence never comes between.           *)
LEMMA NextAccounted ==
    ASSUME Own, Clean, ~crossed', [Next]_vars
    PROVE  Accounted' /\ SoundUnbroken'
<1>. USE Constants, Typed DEF Own, Clean
<1>1. CASE WriteChunk
  BY <1>1, RestEqual DEF WriteChunk, Accounted, SoundUnbroken, ring, pull
<1>2. CASE WriteCopy
  BY <1>2, RestEqual DEF WriteCopy, Accounted, SoundUnbroken, pull, ghosts
<1>3. CASE WriteStore
  BY <1>3, WriteGrows DEF WriteStore, Accounted, SoundUnbroken, pull
<1>4. CASE EmptyLoad
  BY <1>4, RestEqual DEF EmptyLoad, Accounted, SoundUnbroken, ring, pull, ghosts
<1>5. CASE EmptyStore
  BY <1>5, EmptyEmpties DEF EmptyStore, Accounted, SoundUnbroken, pull
<1>6. ASSUME NEW full \in BOOLEAN, OutputAudio(full) PROVE Accounted' /\ SoundUnbroken'
  BY <1>6, RestEqual DEF OutputAudio, Accounted, SoundUnbroken, ring
<1>7. ASSUME NEW pad_when_empty \in BOOLEAN, PullFrames(pad_when_empty) PROVE Accounted' /\ SoundUnbroken'
  <2>1. ~gap'
    BY <1>7 DEF PullFrames, PlaceInv, SoundUnbroken
  <2>. QED  BY <1>7, <2>1, RestEqual DEF PullFrames, Accounted, SoundUnbroken, ring
<1>8. CASE ReadFrames
  <2>1. ~gap' /\ ~m_filling'
    BY <1>8 DEF ReadFrames, ReadInv, PlaceInv, SoundUnbroken, MinOf
  <2>. QED  BY <1>8, <2>1, RestEqual DEF ReadFrames, Accounted, SoundUnbroken, ring
<1>9. CASE ReadCopy
  BY <1>9, RestEqual DEF ReadCopy, Accounted, SoundUnbroken, ring
<1>10. CASE ReadStore
  BY <1>10, ReadShrinks DEF ReadStore, Accounted, SoundUnbroken
<1>11. CASE LoadGame
  <2>1. Between(0, 0) = 0
    BY BetweenInRange DEF Slots
  <2>. QED  BY <1>11, <2>1 DEF LoadGame, Accounted, SoundUnbroken, Buffered
<1>12. CASE UNCHANGED vars
  BY <1>12, RestEqual DEF vars, ring, pull, ghosts, Accounted, SoundUnbroken
<1>. QED
  BY <1>1, <1>2, <1>3, <1>4, <1>5, <1>6, <1>7, <1>8, <1>9, <1>10, <1>11, <1>12 DEF Next

(* The account of what is owed.                                            *)
LEMMA NextOwedInv ==
    ASSUME Own, [Next]_vars
    PROVE  OwedInv'
<1>. USE Constants, Typed DEF Own
<1>1. CASE WriteChunk
  BY <1>1 DEF WriteChunk, OwedInv, RateKept, pull, owed
<1>2. CASE WriteCopy
  BY <1>2 DEF WriteCopy, OwedInv, RateKept, pull, owed, ghosts
<1>3. CASE WriteStore
  BY <1>3 DEF WriteStore, OwedInv, RateKept, pull, owed
<1>4. CASE EmptyLoad
  BY <1>4 DEF EmptyLoad, OwedInv, RateKept, pull, owed, ghosts
<1>5. CASE EmptyStore
  BY <1>5 DEF EmptyStore, OwedInv, RateKept, pull, owed
<1>6. ASSUME NEW full \in BOOLEAN, OutputAudio(full) PROVE OwedInv'
  <2>. DEFINE due == MinOf(s_audio_owed, quantum) + quantum
  <2>1. /\ due \in Nat /\ due <= s_audio_owed + quantum
        /\ s_audio_owed <= quantum => due = s_audio_owed + quantum
    BY DEF MinOf
  <2>. HIDE DEF due
  <2>2. MinOf(due, quantum) \in Nat /\ MinOf(due, quantum) <= due
    BY <2>1, MinIsOne
  <2>3. (calls + 1) * quantum = calls * quantum + quantum
    BY Distributes
  <2>4. /\ calls * quantum \in Nat /\ s_audio_frames_output * Unit \in Nat
        /\ s_audio_frames_output' = s_audio_frames_output /\ calls' = calls + 1
    BY <1>6, ProductInNat DEF OutputAudio
  <2>5. /\ s_audio_owed' \in Nat /\ s_audio_owed' <= due
        /\ ~short' => ~short /\ s_audio_owed' = due /\ s_audio_owed <= quantum
    <3>1. ~short' => ~short /\ ~(s_audio_owed > quantum) /\ ~full
      BY <1>6, Zenon DEF OutputAudio
    <3>2. s_audio_owed' = IF full THEN MinOf(due, quantum) ELSE due
      BY <1>6 DEF OutputAudio, due
    <3>3. CASE full
      BY <3>1, <3>2, <3>3, <2>1, <2>2
    <3>4. CASE ~full
      <4>1. s_audio_owed' = due
        BY <3>2, <3>4
      <4>2. ~short' => ~short /\ s_audio_owed <= quantum
        BY <3>1
      <4>. QED  BY <2>1, <4>1, <4>2
    <3>. QED  BY <3>3, <3>4
  <2>6. RateKept'
    BY <2>1, <2>3, <2>4, <2>5 DEF OwedInv, RateKept
  <2>7. fpc' # "run" => wanted' * Unit <= s_audio_owed'
    BY <1>6, <2>1, WantedIsOwed DEF OutputAudio, due
  <2>. QED  BY <2>6, <2>7 DEF OwedInv
<1>7. ASSUME NEW pad_when_empty \in BOOLEAN, PullFrames(pad_when_empty) PROVE OwedInv'
  <2>1. fpc' # "run" => wanted' = wanted
    BY <1>7 DEF PullFrames
  <2>. QED  BY <1>7, <2>1 DEF PullFrames, OwedInv, RateKept, owed
<1>8. CASE ReadFrames
  BY <1>8 DEF ReadFrames, OwedInv, RateKept, owed
<1>9. CASE ReadCopy
  BY <1>9 DEF ReadCopy, OwedInv, RateKept, owed
<1>10. CASE ReadStore
  <2>1. (s_audio_frames_output + frames) * Unit = s_audio_frames_output * Unit + frames * Unit
    BY Distributes
  <2>2. s_audio_frames_output * Unit \in Nat /\ frames * Unit \in Nat /\ calls * quantum \in Nat
    BY ProductInNat
  <2>3. /\ s_audio_frames_output' = s_audio_frames_output + frames /\ s_audio_owed' = s_audio_owed - frames * Unit
        /\ calls' = calls /\ short' = short /\ fpc' = "run"
    BY <1>10 DEF ReadStore
  <2>. QED  BY <2>1, <2>2, <2>3 DEF OwedInv, RateKept
<1>11. CASE LoadGame
  BY <1>11 DEF LoadGame, OwedInv, RateKept
<1>12. CASE UNCHANGED vars
  BY <1>12 DEF vars, pull, owed, ghosts, OwedInv, RateKept
<1>. QED
  BY <1>1, <1>2, <1>3, <1>4, <1>5, <1>6, <1>7, <1>8, <1>9, <1>10, <1>11, <1>12 DEF Next

-----------------------------------------------------------------------------
(* The order of the frames.                                                *)

(* The slots from the writer on, seen from the reader.                     *)
LEMMA FromWriter ==
    ASSUME TypeOK, NEW p \in Slots
    PROVE  /\ Between(m_rpos, p) \in Nat /\ Between(m_rpos, p) < m_buffer_size
           /\ Between(m_wpos, p) \in Nat /\ Between(m_wpos, p) < m_buffer_size
           /\ Between(m_wpos, p) = IF Between(m_rpos, p) >= Buffered THEN Between(m_rpos, p) - Buffered
                                   ELSE Between(m_rpos, p) - Buffered + m_buffer_size
<1>1. m_wpos = Wrapped(m_rpos + Buffered)
  BY Typed, SlotAhead DEF Buffered
<1>2. Between(Wrapped(m_rpos + Buffered), p) =
        IF Between(m_rpos, p) >= Buffered THEN Between(m_rpos, p) - Buffered
        ELSE Between(m_rpos, p) - Buffered + m_buffer_size
  BY Typed, Shift
<1>. QED  BY <1>1, <1>2, Typed, BetweenInRange

LEMMA WritingIsAhead ==
    ASSUME TypeOK, cpc \in {"copy", "store"}, NEW p \in Slots
    PROVE  p \in Writing <=> Between(m_wpos, p) < CHUNK_SIZE
<1>1. ASSUME p \in Writing PROVE Between(m_wpos, p) < CHUNK_SIZE
  <2>1. PICK i \in 0 .. CHUNK_SIZE - 1 : p = Wrapped(m_wpos + i)
    BY <1>1 DEF Writing
  <2>2. Between(m_wpos, Wrapped(m_wpos + i)) = i
    BY Typed, Constants, WrappedInRange
  <2>. QED  BY <2>1, <2>2, Constants
<1>2. ASSUME Between(m_wpos, p) < CHUNK_SIZE PROVE p \in Writing
  <2>1. Between(m_wpos, p) \in 0 .. CHUNK_SIZE - 1
    BY <1>2, Typed, Constants, BetweenInRange
  <2>2. p = Wrapped(m_wpos + Between(m_wpos, p))
    BY Typed, SlotAhead
  <2>. QED  BY <2>1, <2>2 DEF Writing
<1>. QED  BY <1>1, <1>2

(* The last slot of a read is one of the buffered ones.                    *)
LEMMA LastOfRead ==
    ASSUME TypeOK, ReadInv, PlaceInv, fpc \in {"copy", "store"}
    PROVE  LET q == Wrapped(m_rpos + frames_to_read - 1)
           IN  q \in Slots /\ Between(m_rpos, q) = frames_to_read - 1 /\ Between(m_rpos, q) < Buffered
<1>1. frames_to_read - 1 \in Nat /\ frames_to_read - 1 < Buffered
  BY Typed DEF ReadInv, PlaceInv
<1>2. m_rpos + frames_to_read - 1 = m_rpos + (frames_to_read - 1)
  BY Typed, Constants DEF Slots
<1>3. LET q == Wrapped(m_rpos + (frames_to_read - 1)) IN q \in Slots /\ Between(m_rpos, q) = frames_to_read - 1
  BY <1>1, Typed, Constants, WrappedInRange
<1>. QED  BY <1>1, <1>2, <1>3

LEMMA NextOrderInv ==
    ASSUME Own, Clean, ~crossed', [Next]_vars
    PROVE  OrderInv'
<1>. USE Constants, Typed DEF Own, Clean
<1>0. ASSUME UNCHANGED ring, last' = last,
             produced' >= produced, produced' \in Nat,
             frames_to_read' = frames_to_read \/ fpc' # "store",
             (cpc' = cpc /\ produced' = produced) \/ cpc' # "store",
             fpc' = fpc \/ (fpc # "store" /\ fpc' # "store")
      PROVE  OrderInv'
  <2>1. UNCHANGED <<m_buffer, m_rpos, m_wpos>> /\ Buffered' = Buffered
    BY <1>0, RestEqual DEF ring
  <2>2. \A p \in Slots : m_buffer[p] \in Nat
    BY DEF TypeOK
  <2>. QED  BY <1>0, <2>1, <2>2 DEF OrderInv
<1>1. CASE WriteChunk
  BY <1>0, <1>1 DEF WriteChunk, pull
<1>2. CASE WriteCopy
  <2>1. UNCHANGED <<m_rpos, m_wpos, produced, last, fpc, frames_to_read>> /\ Buffered' = Buffered
    BY <1>2, RestEqual DEF WriteCopy, pull, ghosts
  <2>2. Buffered + CHUNK_SIZE < m_buffer_size
    BY <1>2 DEF WriteCopy, PlaceInv
  <2>3. \A p \in Slots : m_buffer'[p] = IF Between(m_wpos, p) < CHUNK_SIZE
                                        THEN produced + Between(m_wpos, p) + 1 ELSE m_buffer[p]
    BY <1>2, WritingIsAhead DEF WriteCopy
  <2>4. \A p \in Slots : Between(m_rpos, p) < Buffered => m_buffer'[p] = m_buffer[p]
    BY <2>2, <2>3, FromWriter
  <2>5. fpc = "store" => m_buffer'[Wrapped(m_rpos + frames_to_read - 1)]
                           = m_buffer[Wrapped(m_rpos + frames_to_read - 1)]
    BY <2>4, LastOfRead
  <2>6. \A p \in Slots : Between(m_wpos, p) < CHUNK_SIZE => m_buffer'[p] = produced + Between(m_wpos, p) + 1
    BY <2>3
  <2>. QED  BY <2>1, <2>4, <2>5, <2>6, FromWriter DEF OrderInv
<1>3. CASE WriteStore
  <2>1. UNCHANGED <<m_buffer, m_rpos, last, fpc, frames_to_read>> /\ produced' = produced + CHUNK_SIZE /\ cpc' = "run"
    BY <1>3 DEF WriteStore, pull
  <2>2. Buffered' = Buffered + CHUNK_SIZE
    BY <1>3, WriteGrows
  <2>3. \A p \in Slots : Between(m_wpos, p) < CHUNK_SIZE => m_buffer[p] = produced + Between(m_wpos, p) + 1
    BY <1>3 DEF WriteStore, OrderInv
  <2>4. \A p \in Slots : Between(m_rpos, p) < Buffered + CHUNK_SIZE =>
            \/ Between(m_rpos, p) < Buffered
            \/ /\ Between(m_rpos, p) >= Buffered
               /\ m_buffer[p] = produced + (Between(m_rpos, p) - Buffered) + 1
    BY <2>3, FromWriter
  <2>5. \A p \in Slots : m_buffer[p] \in Nat /\ Between(m_rpos, p) \in Nat
    BY FromWriter DEF TypeOK
  <2>6. \A p \in Slots : Between(m_rpos, p) < Buffered' => m_buffer[p] <= produced'
    BY <2>1, <2>2, <2>4, <2>5 DEF OrderInv
  <2>7. \A p, q \in Slots :
          Between(m_rpos, p) < Between(m_rpos, q) /\ Between(m_rpos, q) < Buffered' => m_buffer[p] < m_buffer[q]
    <3>. SUFFICES ASSUME NEW p \in Slots, NEW q \in Slots,
                         Between(m_rpos, p) < Between(m_rpos, q), Between(m_rpos, q) < Buffered + CHUNK_SIZE
                  PROVE  m_buffer[p] < m_buffer[q]
      BY <2>2
    <3>1. CASE Between(m_rpos, q) < Buffered
      BY <3>1 DEF OrderInv
    <3>2. CASE Between(m_rpos, q) >= Buffered /\ Between(m_rpos, p) < Buffered
      <4>1. m_buffer[p] <= produced
        BY <3>2 DEF OrderInv
      <4>. QED  BY <3>2, <4>1, <2>4, <2>5
    <3>3. CASE Between(m_rpos, p) >= Buffered
      BY <3>3, <2>4, <2>5
    <3>. QED  BY <3>1, <3>2, <3>3, <2>5
  <2>8. fpc # "store" => \A p \in Slots : Between(m_rpos, p) < Buffered' => last < m_buffer[p]
    BY <2>2, <2>4, <2>5 DEF OrderInv
  <2>9. last <= produced'
    BY <2>1 DEF OrderInv
  <2>. QED  BY <2>1, <2>6, <2>7, <2>8, <2>9 DEF OrderInv
<1>4. CASE EmptyLoad
  BY <1>0, <1>4 DEF EmptyLoad, pull, ghosts
<1>5. CASE EmptyStore
  <2>1. UNCHANGED <<m_buffer, m_rpos, last, produced>> /\ cpc' = "run" /\ fpc' # "store" /\ Buffered' = 0
    BY <1>5, EmptyEmpties DEF EmptyStore
  <2>. QED  BY <2>1, FromWriter DEF OrderInv
<1>6. ASSUME NEW full \in BOOLEAN, OutputAudio(full) PROVE OrderInv'
  <2>1. fpc = "run" /\ fpc' \in {"run", "pull"}
    BY <1>6 DEF OutputAudio
  <2>. QED  BY <1>0, <1>6, <2>1 DEF OutputAudio, cpu
<1>7. ASSUME NEW pad_when_empty \in BOOLEAN, PullFrames(pad_when_empty) PROVE OrderInv'
  <2>1. fpc = "pull" /\ fpc' \in {"run", "read"}
    BY <1>7 DEF PullFrames
  <2>. QED  BY <1>0, <1>7, <2>1 DEF PullFrames, cpu
<1>8. CASE ReadFrames
  BY <1>0, <1>8 DEF ReadFrames, cpu
<1>9. CASE ReadCopy
  <2>. DEFINE q == Wrapped(m_rpos + frames_to_read - 1)
  <2>1. UNCHANGED <<m_buffer, m_rpos, m_wpos, cpc, produced, frames_to_read>> /\ Buffered' = Buffered
    BY <1>9, RestEqual DEF ReadCopy, ring, cpu
  <2>2. fpc' = "store" /\ last' = m_buffer[q]
    BY <1>9 DEF ReadCopy, ReadInv, PlaceInv
  <2>3. q \in Slots /\ Between(m_rpos, q) < Buffered
    BY <1>9, LastOfRead DEF ReadCopy
  <2>4. last' <= produced
    BY <2>2, <2>3 DEF OrderInv
  <2>. QED  BY <2>1, <2>2, <2>4 DEF OrderInv
<1>10. CASE ReadStore
  <2>. DEFINE q == Wrapped(m_rpos + frames_to_read - 1)
  <2>1. UNCHANGED <<m_buffer, m_wpos, cpc, produced, last>> /\ fpc' = "run"
    BY <1>10 DEF ReadStore, cpu
  <2>2. m_rpos' = Wrapped(m_rpos + frames_to_read) /\ Buffered' = Buffered - frames_to_read
    BY <1>10, ReadShrinks DEF ReadStore
  <2>3. frames_to_read <= Buffered /\ frames_to_read > 0
    BY <1>10 DEF ReadStore, ReadInv, PlaceInv
  <2>4. \A p \in Slots : Between(m_rpos', p) = IF Between(m_rpos, p) >= frames_to_read
                                               THEN Between(m_rpos, p) - frames_to_read
                                               ELSE Between(m_rpos, p) - frames_to_read + m_buffer_size
    BY <2>2, <2>3, Shift
  <2>5. \A p \in Slots : Between(m_rpos', p) < Buffered' =>
            Between(m_rpos, p) = Between(m_rpos', p) + frames_to_read /\ Between(m_rpos, p) < Buffered
    BY <2>2, <2>3, <2>4, FromWriter
  <2>6. q \in Slots /\ Between(m_rpos, q) = frames_to_read - 1 /\ last = m_buffer[q]
    BY <1>10, LastOfRead DEF ReadStore, OrderInv
  <2>7. \A p \in Slots : m_buffer[p] \in Nat /\ Between(m_rpos, p) \in Nat
    BY FromWriter DEF TypeOK
  <2>8. \A p \in Slots : Between(m_rpos', p) < Buffered' => m_buffer[p] <= produced
    BY <2>5 DEF OrderInv
  <2>9. \A p, s \in Slots :
          Between(m_rpos', p) < Between(m_rpos', s) /\ Between(m_rpos', s) < Buffered' => m_buffer[p] < m_buffer[s]
    <3>. SUFFICES ASSUME NEW p \in Slots, NEW s \in Slots,
                         Between(m_rpos', p) < Between(m_rpos', s), Between(m_rpos', s) < Buffered'
                  PROVE  m_buffer[p] < m_buffer[s]
      OBVIOUS
    <3>1. Between(m_rpos', p) < Buffered'
      BY <2>2, <2>4, <2>7
    <3>2. Between(m_rpos, p) < Between(m_rpos, s) /\ Between(m_rpos, s) < Buffered
      BY <3>1, <2>4, <2>5, <2>7
    <3>. QED  BY <3>2 DEF OrderInv
  <2>10. \A p \in Slots : Between(m_rpos', p) < Buffered' => last < m_buffer[p]
    <3>. SUFFICES ASSUME NEW p \in Slots, Between(m_rpos', p) < Buffered'
                  PROVE  m_buffer[q] < m_buffer[p]
      BY <2>6
    <3>1. Between(m_rpos, p) >= frames_to_read /\ Between(m_rpos, p) < Buffered
      BY <2>4, <2>5, <2>7
    <3>2. Between(m_rpos, q) < Between(m_rpos, p)
      BY <3>1, <2>6, <2>7
    <3>. QED  BY <3>1, <3>2, <2>6 DEF OrderInv
  <2>. QED  BY <2>1, <2>8, <2>9, <2>10 DEF OrderInv
<1>11. CASE LoadGame
  <2>0. 0 \in Slots
    BY DEF Slots
  <2>1. Between(0, 0) = 0 /\ \A p \in Slots : Between(0, p) \in Nat
    BY <2>0, BetweenInRange
  <2>2. /\ m_rpos' = 0 /\ Buffered' = 0 /\ last' = 0 /\ produced' = 0 /\ fpc' = "run" /\ cpc' = "run"
    BY <1>11, <2>1 DEF LoadGame, Buffered, cpu
  <2>. QED  BY <2>1, <2>2 DEF OrderInv
<1>12. CASE UNCHANGED vars
  BY <1>0, <1>12 DEF vars, cpu, pull, ghosts
<1>. QED
  BY <1>1, <1>2, <1>3, <1>4, <1>5, <1>6, <1>7, <1>8, <1>9, <1>10, <1>11, <1>12 DEF Next

-----------------------------------------------------------------------------
LEMMA InitIInv == Init => IInv
<1>. SUFFICES ASSUME Init PROVE IInv
  OBVIOUS
<1>1. 0 \in Slots /\ Between(0, 0) = 0 /\ \A p \in Slots : Between(0, p) \in Nat
  BY BetweenInRange, Constants DEF Slots
<1>2. Buffered = 0
  BY <1>1 DEF Init, Buffered
<1>3. TypeOK
  BY <1>1 DEF Init, TypeOK
<1>4. ReadInv /\ PlaceInv /\ Accounted /\ SoundUnbroken
  BY <1>2 DEF Init, ReadInv, PlaceInv, Accounted, SoundUnbroken
<1>5. OwedInv
  BY Constants DEF Init, OwedInv, RateKept
<1>6. OrderInv
  BY <1>1, <1>2 DEF Init, OrderInv
<1>. QED  BY <1>3, <1>4, <1>5, <1>6 DEF IInv, Own, Clean

(* A new game starts clean, whatever went before.                          *)
LEMMA LoadIsClean ==
    ASSUME LoadGame
    PROVE  Clean'
<1>1. 0 \in Slots /\ Between(0, 0) = 0 /\ \A p \in Slots : Between(0, p) \in Nat
  BY BetweenInRange, Constants DEF Slots
<1>2. /\ m_rpos' = 0 /\ m_wpos' = 0 /\ Buffered' = 0 /\ cpc' = "run" /\ fpc' = "run"
      /\ last' = 0 /\ produced' = 0 /\ handed' = 0 /\ lost' = 0 /\ s_audio_frames_output' = 0
      /\ ~gap' /\ ~m_filling'
  BY <1>1 DEF LoadGame, Buffered, cpu
<1>3. PlaceInv' /\ Accounted' /\ SoundUnbroken'
  BY <1>2 DEF PlaceInv, Accounted, SoundUnbroken
<1>4. OrderInv'
  BY <1>1, <1>2 DEF OrderInv
<1>. QED  BY <1>3, <1>4 DEF Clean

LEMMA CrossedStays ==
    ASSUME Own, [Next]_vars, ~LoadGame
    PROVE  crossed => crossed'
BY DEF Own, TypeOK, Next, vars, ring, cpu, pull, owed, ghosts, WriteChunk, WriteCopy, WriteStore, EmptyLoad,
       EmptyStore, OutputAudio, PullFrames, ReadFrames, ReadCopy, ReadStore

LEMMA NextIInv ==
    ASSUME IInv, [Next]_vars
    PROVE  IInv'
<1>1. Own'
  BY NextTypeOK, NextReadInv, NextOwedInv DEF IInv, Own
<1>2. ASSUME ~crossed' PROVE Clean'
  <2>1. CASE LoadGame
    BY <2>1, LoadIsClean
  <2>2. CASE ~LoadGame
    <3>1. Own /\ Clean
      BY <1>2, <2>2, CrossedStays DEF IInv
    <3>. QED  BY <1>2, <3>1, NextPlaceInv, NextAccounted, NextOrderInv DEF Clean
  <2>. QED  BY <2>1, <2>2
<1>. QED  BY <1>1, <1>2 DEF IInv

LEMMA IInvHolds == Spec => []IInv
<1>1. IInv /\ [Next]_vars => IInv'
  BY NextIInv
<1>. QED  BY InitIInv, <1>1, PTL DEF Spec

(* The slots a chunk is copied into and those a read is copied from: how   *)
(* far each is ahead of the reader tells them apart.                       *)
LEMMA CopiesDisjoint == IInv => SlotsDisjoint
<1>. SUFFICES ASSUME IInv, ~crossed, NEW p \in Writing, p \in Reading PROVE FALSE
  BY DEF SlotsDisjoint
<1>. USE Constants, Typed DEF IInv, Own, Clean
<1>1. cpc \in {"copy", "store"} /\ fpc \in {"copy", "store"}
  BY DEF Writing, Reading
<1>2. frames_to_read <= Buffered /\ Buffered + CHUNK_SIZE < m_buffer_size
  BY <1>1 DEF PlaceInv
<1>3. PICK j \in 0 .. frames_to_read - 1 : p = Wrapped(m_rpos + j)
  BY <1>1 DEF Reading
<1>4. p \in Slots /\ Between(m_rpos, p) = j
  BY <1>2, <1>3, WrappedInRange
<1>5. Between(m_wpos, p) < CHUNK_SIZE
  BY <1>1, <1>4, WritingIsAhead
<1>. QED  BY <1>2, <1>4, <1>5, FromWriter

LEMMA OrderFollows == IInv => FramesInOrder
<1>. SUFFICES ASSUME IInv, ~crossed PROVE RingInOrder /\ SoundUnbroken
  BY DEF FramesInOrder
<1>. USE Constants, Typed DEF IInv, Own, Clean
<1>1. ASSUME NEW i \in 0 .. Buffered - 1, NEW j \in 0 .. Buffered - 1, i < j
      PROVE  m_buffer[Wrapped(m_rpos + i)] < m_buffer[Wrapped(m_rpos + j)]
  <2>1. /\ Wrapped(m_rpos + i) \in Slots /\ Between(m_rpos, Wrapped(m_rpos + i)) = i
        /\ Wrapped(m_rpos + j) \in Slots /\ Between(m_rpos, Wrapped(m_rpos + j)) = j
    BY WrappedInRange
  <2>. QED  BY <1>1, <2>1 DEF OrderInv
<1>2. fpc # "store" /\ Buffered > 0 => last < m_buffer[m_rpos]
  BY BetweenInRange DEF OrderInv
<1>3. SoundUnbroken
  OBVIOUS
<1>. QED  BY <1>1, <1>2, <1>3 DEF RingInOrder

-----------------------------------------------------------------------------
(* The types of AudioStream's positions and of OutputAudio's statics:      *)
(* m_rpos and m_wpos stay inside the ring, and what is owed never goes     *)
(* below nothing.                                                          *)
THEOREM TypeCorrect == Spec => []TypeOK
<1>1. IInv => TypeOK
  BY DEF IInv, Own
<1>. QED  BY IInvHolds, <1>1, PTL

(* InternalWriteFrames and ReadFrames share no lock and never touch the    *)
(* same slot, for every size of the ring and of a chunk, unless an         *)
(* EmptyBuffer has crossed a read.                                         *)
THEOREM NoSlotShared == Spec => []SlotsDisjoint
BY IInvHolds, CopiesDisjoint, PTL

(* Every frame of the SPU2 was handed over by OutputAudio, was dropped by  *)
(* InternalWriteFrames or EmptyBuffer, or is in the ring, unless an        *)
(* EmptyBuffer has crossed a read.                                         *)
THEOREM NoFrameLost == Spec => []FramesAccounted
<1>1. IInv => FramesAccounted
  BY DEF IInv, Clean, Accounted, FramesAccounted
<1>. QED  BY IInvHolds, <1>1, PTL

(* OutputAudio hands the frames over in the order of the SPU2's output,    *)
(* and none of them twice: the store of an EmptyBuffer that crosses a read *)
(* is the one step of the CPU thread that can bring a played frame back.   *)
THEOREM NoFrameReplayed == Spec => []FramesInOrder
BY IInvHolds, OrderFollows, PTL

(* OutputAudio's account: for every ratio of the sample rate to the frame  *)
(* rate, the fractions of a frame are carried over and the rate is kept,   *)
(* whatever EmptyBuffer does to the ring meanwhile.                        *)
THEOREM NoDrift == Spec => []RateKept
<1>1. IInv => RateKept
  BY DEF IInv, Own, OwedInv
<1>. QED  BY IInvHolds, <1>1, PTL

=============================================================================
