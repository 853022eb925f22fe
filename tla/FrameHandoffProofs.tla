------------------------- MODULE FrameHandoffProofs -------------------------
(***************************************************************************)
(* Proofs about module FrameHandoff, for any number of back buffers, any   *)
(* vsync queue and any number of duplicates, whenever the device is        *)
(* rebuilt and the frontend's context replaced: every fence has one owner, *)
(* and the frame retro_run blits is not drawn into, unless the GS thread   *)
(* was a round of buffers behind when it was taken, which with three more  *)
(* buffers than vsyncs the queue takes without waiting it never is.        *)
(***************************************************************************)
EXTENDS FrameHandoff, FiniteSetTheorems, FunctionTheorems, TLAPS

(* The constants one by one.                                               *)
LEMMA Constants ==
    /\ kLibretroBackbuffers \in Nat /\ kLibretroBackbuffers > 1
    /\ VsyncQueueSize \in Nat /\ MaxSkipped \in Nat /\ MaxCredit \in Nat
BY BufferAssumption

Commands == {"vsync", "reopen", "abandon"}

-----------------------------------------------------------------------------
(* The vsyncs among commands: how many, as commands come and go.           *)

VsyncsIn(r) == {i \in 1 .. Len(r) : r[i] = "vsync"}

(* What the ring is after a command was added ...                          *)
LEMMA Added ==
    ASSUME NEW r \in Seq(Commands), NEW c \in Commands
    PROVE  /\ Append(r, c) \in Seq(Commands) /\ Len(Append(r, c)) = Len(r) + 1 /\ Len(r) \in Nat
           /\ \A i \in 1 .. Len(r) : Append(r, c)[i] = r[i]
           /\ Append(r, c)[Len(r) + 1] = c
OBVIOUS

(* ... and after the first one was done.                                   *)
LEMMA Removed ==
    ASSUME NEW r \in Seq(Commands), r # <<>>
    PROVE  /\ Tail(r) \in Seq(Commands) /\ Len(Tail(r)) = Len(r) - 1 /\ Len(r) \in Nat /\ Len(r) > 0
           /\ \A i \in 1 .. Len(r) - 1 : Tail(r)[i] = r[i + 1]
           /\ \A i \in 1 .. Len(r) : 1 < i => i - 1 \in 1 .. Len(r) - 1 /\ Tail(r)[i - 1] = r[i]
OBVIOUS

LEMMA VsyncsFinite ==
    ASSUME NEW r \in Seq(Commands)
    PROVE  IsFiniteSet(VsyncsIn(r)) /\ Cardinality(VsyncsIn(r)) \in Nat
<1>1. IsFiniteSet(1 .. Len(r))
  BY FS_Interval
<1>2. VsyncsIn(r) \subseteq 1 .. Len(r)
  BY DEF VsyncsIn
<1>. QED  BY <1>1, <1>2, FS_Subset, FS_CardinalityType

LEMMA VsyncsNone ==
    ASSUME NEW r \in Seq(Commands), \A i \in 1 .. Len(r) : r[i] # "vsync"
    PROVE  Cardinality(VsyncsIn(r)) = 0
<1>1. VsyncsIn(r) = {}
  BY DEF VsyncsIn
<1>. QED  BY <1>1, FS_EmptySet

LEMMA VsyncsAppend ==
    ASSUME NEW r \in Seq(Commands), NEW c \in Commands
    PROVE  Cardinality(VsyncsIn(Append(r, c)))
             = Cardinality(VsyncsIn(r)) + (IF c = "vsync" THEN 1 ELSE 0)
<1>1. VsyncsIn(Append(r, c)) = IF c = "vsync" THEN VsyncsIn(r) \cup {Len(r) + 1} ELSE VsyncsIn(r)
  BY DEF VsyncsIn
<1>2. Len(r) + 1 \notin VsyncsIn(r)
  BY DEF VsyncsIn
<1>3. IsFiniteSet(VsyncsIn(r)) /\ Cardinality(VsyncsIn(r)) \in Nat
  BY VsyncsFinite
<1>4. Cardinality(VsyncsIn(r) \cup {Len(r) + 1}) = Cardinality(VsyncsIn(r)) + 1
  BY <1>2, <1>3, FS_AddElement
<1>. QED  BY <1>1, <1>3, <1>4

LEMMA VsyncsTail ==
    ASSUME NEW r \in Seq(Commands), r # <<>>
    PROVE  Cardinality(VsyncsIn(Tail(r)))
             = Cardinality(VsyncsIn(r)) - (IF r[1] = "vsync" THEN 1 ELSE 0)
<1>. DEFINE rest == VsyncsIn(r) \ {1}
            f == [i \in VsyncsIn(Tail(r)) |-> i + 1]
<1>1. Tail(r) \in Seq(Commands) /\ Len(Tail(r)) = Len(r) - 1 /\ \A i \in 1 .. Len(r) - 1 : Tail(r)[i] = r[i + 1]
  OBVIOUS
<1>2. f \in [VsyncsIn(Tail(r)) -> rest]
  BY <1>1 DEF VsyncsIn
<1>3. \A a, b \in VsyncsIn(Tail(r)) : f[a] = f[b] => a = b
  BY <1>1 DEF VsyncsIn
<1>4. \A t \in rest : \E s \in VsyncsIn(Tail(r)) : f[s] = t
  <2>. TAKE t \in rest
  <2>1. t - 1 \in VsyncsIn(Tail(r)) /\ f[t - 1] = t
    BY <1>1 DEF VsyncsIn
  <2>. QED  BY <2>1
<1>5. f \in Bijection(VsyncsIn(Tail(r)), rest)
  BY <1>2, <1>3, <1>4 DEF Bijection, Injection, Surjection, IsInjective
<1>6. Cardinality(rest) = Cardinality(VsyncsIn(Tail(r)))
  <2>1. ExistsBijection(VsyncsIn(Tail(r)), rest)
    BY <1>5 DEF ExistsBijection
  <2>2. IsFiniteSet(VsyncsIn(Tail(r)))
    BY <1>1, VsyncsFinite
  <2>. QED  BY <2>1, <2>2, FS_Bijection
<1>7. Cardinality(rest) = IF 1 \in VsyncsIn(r) THEN Cardinality(VsyncsIn(r)) - 1 ELSE Cardinality(VsyncsIn(r))
  BY VsyncsFinite, FS_RemoveElement
<1>8. 1 \in VsyncsIn(r) <=> r[1] = "vsync"
  BY DEF VsyncsIn
<1>. QED  BY <1>6, <1>7, <1>8, VsyncsFinite

-----------------------------------------------------------------------------
Count == GetCurrentVsyncQueueSize

(* The types.                                                              *)
Flags ==
    /\ s_run_token \in BOOLEAN /\ s_frame_ready \in BOOLEAN /\ s_VsyncSignalListener \in BOOLEAN
    /\ unconsumed \in BOOLEAN /\ s_gl_needs_reopen \in BOOLEAN /\ behind \in BOOLEAN /\ fence_lost \in BOOLEAN

Places ==
    /\ cpc \in {"run", "blocked", "pump", "park"}
    /\ gpc \in {"loop", "valve", "draw", "publish", "done"}
    /\ fpc \in {"out", "reopen_wait", "destroy_wait", "no_context", "token", "frame_wait", "gs_wait", "decide",
                "present", "blit"}
    /\ device \in {"shared", "orphaned", "released"}

Values ==
    /\ m_libretro_bb \subseteq Buffers /\ m_libretro_bb_idx \in Buffers
    /\ run \in 0 .. MaxSkipped /\ duplicates \in 0 .. MaxCredit

(* The vsync that is being presented is still in the ring.                 *)
RingInv ==
    /\ ring \in Seq(Commands)
    /\ gpc \in {"draw", "publish", "done"} => ring # <<>> /\ ring[1] = "vsync"

(* The vsyncs in the ring.  A CPU thread that does not wait has found room *)
(* or was let go after a vsync was done, and the safety valve lets at most *)
(* one go that need not be.                                                *)
QueueInv ==
    /\ s_VsyncSignalListener => cpc = "blocked"
    /\ Count <= VsyncQueueSize + 2
    /\ cpc # "blocked" \/ ~s_VsyncSignalListener => Count <= VsyncQueueSize + 1
    /\ gpc = "valve" => \/ Count <= VsyncQueueSize
                        \/ Count = VsyncQueueSize + 1 /\ cpc = "blocked" /\ s_VsyncSignalListener

(* The frames, and where a thread has one of its own.                      *)
FrameInv ==
    /\ frame \in Frames /\ s_frame \in Frames /\ held \in Frames
    /\ gpc # "publish" => frame = noFrame
    /\ fpc # "blit" => held = noFrame

(* The owners of the fences.                                               *)
Published == IF unconsumed THEN s_frame.fence ELSE none

FenceInv ==
    /\ fences \subseteq Fences
    /\ ~fence_lost =>
        /\ fences = {frame.fence, Published, held.fence} \ {none}
        /\ frame.fence # none => frame.fence # Published /\ frame.fence # held.fence
        /\ Published # none => Published # held.fence

(* The textures of the frames of the device there is.                      *)
AliveInv ==
    /\ gpc = "publish" /\ frame.current => frame.alive
    /\ unconsumed /\ s_frame.current => s_frame.alive
    /\ fpc = "blit" /\ ~behind /\ held.current => held.alive

(* How many buffers ago t had its turn when it is i's turn: 1 is the last  *)
(* one, the number of buffers is i itself.                                 *)
Ago(i, t) == IF i > t THEN i - t ELSE i - t + kLibretroBackbuffers

(* The frames the GS thread may still begin or end drawing before the CPU  *)
(* thread needs the mutex.                                                 *)
Draws == Count + (IF cpc = "run" THEN 1 ELSE 0) - (IF gpc \in {"publish", "done"} THEN 1 ELSE 0)

BufferInv ==
    /\ gpc = "publish" /\ frame.current =>
          frame.texture \in Buffers /\ Ago(m_libretro_bb_idx, frame.texture) = 1
    /\ unconsumed /\ s_frame.current =>
          /\ s_frame.texture \in Buffers
          /\ Ago(m_libretro_bb_idx, s_frame.texture) = IF gpc = "publish" THEN 2 ELSE 1
    /\ fpc = "blit" /\ ~behind /\ held.current =>
          /\ held.texture \in Buffers
          /\ Ago(m_libretro_bb_idx, held.texture) + Draws <= kLibretroBackbuffers

-----------------------------------------------------------------------------
(* The types.                                                              *)
LEMMA NextFlags ==
    ASSUME Flags, [Next]_vars
    PROVE  Flags'
<1>. USE DEF Flags, cpu, queue, gs, handoff, frontend
<1>1. CASE PostVsyncStart \/ VsyncWait \/ SignalFrame \/ TakeToken \/ ApplySettings \/ FoundEmpty
  BY <1>1 DEF PostVsyncStart, VsyncWait, SignalFrame, TakeToken, ApplySettings, FoundEmpty
<1>2. CASE VsyncValve \/ SkipFrame \/ BeginPresent \/ EndPresent \/ PublishFrame \/ Presented
  BY <1>2 DEF VsyncValve, SkipFrame, VsyncDone, AtHead, BeginPresent, EndPresent, PublishFrame,
          Presented
<1>3. CASE AbandonContext \/ Reopen \/ CallWait \/ PostToken \/ FrameWait \/ GSWait
  BY <1>3 DEF AbandonContext, AtHead, Reopen, CallWait, PostToken, FrameWait, GSWait
<1>4. CASE ConsumeFrame
  <2>1. behind' = (ToCome >= kLibretroBackbuffers) \/ behind' = behind
    BY <1>4 DEF ConsumeFrame
  <2>2. behind' \in BOOLEAN
    <3>1. (ToCome >= kLibretroBackbuffers) \in BOOLEAN
      OBVIOUS
    <3>. QED  BY <2>1, <3>1
  <2>3. unconsumed' = FALSE \/ unconsumed' = unconsumed
    BY <1>4 DEF ConsumeFrame
  <2>. QED  BY <1>4, <2>2, <2>3 DEF ConsumeFrame
<1>5. CASE Decide \/ Blit \/ RetroRun \/ OnGLContextDestroy \/ OnGLContextReset
  BY <1>5 DEF Decide, Blit, RetroRun, OnGLContextDestroy, OnGLContextReset
<1>6. CASE Unload
  BY <1>6 DEF Unload
<1>7. CASE UNCHANGED vars
  BY <1>7 DEF vars
<1>. QED
  BY <1>1, <1>2, <1>3, <1>4, <1>5, <1>6, <1>7
     DEF Next, CPUStep, GSStep, FrontendStep, FrontendCall

(* The places.                                                             *)
LEMMA NextPlaces ==
    ASSUME Places, [Next]_vars
    PROVE  Places'
<1>. USE DEF Places, cpu, queue, gs, handoff, frontend
<1>1. CASE PostVsyncStart \/ VsyncWait \/ SignalFrame \/ TakeToken \/ ApplySettings \/ FoundEmpty
  BY <1>1 DEF PostVsyncStart, VsyncWait, SignalFrame, TakeToken, ApplySettings, FoundEmpty
<1>2. CASE VsyncValve \/ SkipFrame \/ BeginPresent \/ EndPresent \/ PublishFrame \/ Presented
  BY <1>2 DEF VsyncValve, SkipFrame, VsyncDone, AtHead, BeginPresent, EndPresent, PublishFrame,
          Presented
<1>3. CASE AbandonContext \/ Reopen \/ CallWait \/ PostToken \/ FrameWait \/ GSWait
  BY <1>3 DEF AbandonContext, AtHead, Reopen, CallWait, PostToken, FrameWait, GSWait
<1>4. CASE Decide \/ ConsumeFrame \/ Blit \/ RetroRun \/ OnGLContextDestroy \/ OnGLContextReset
  BY <1>4 DEF Decide, ConsumeFrame, Blit, RetroRun, OnGLContextDestroy, OnGLContextReset
<1>5. CASE Unload
  BY <1>5 DEF Unload
<1>6. CASE UNCHANGED vars
  BY <1>6 DEF vars
<1>. QED
  BY <1>1, <1>2, <1>3, <1>4, <1>5, <1>6
     DEF Next, CPUStep, GSStep, FrontendStep, FrontendCall

(* The numbers.                                                            *)
LEMMA NextValues ==
    ASSUME Values, [Next]_vars
    PROVE  Values'
<1>0. 0 \in Buffers /\ 0 \in 0 .. MaxSkipped /\ 0 \in 0 .. MaxCredit
  BY Constants DEF Buffers
<1>. USE DEF Values, cpu, queue, gs, handoff, frontend
<1>1. CASE SkipFrame
  BY <1>1, Constants DEF SkipFrame
<1>2. CASE EndPresent
  <2>1. NextBuffer \in Buffers
    BY Constants DEF NextBuffer, Values, Buffers
  <2>. QED  BY <1>2, <2>1 DEF EndPresent
<1>3. CASE Decide
  BY <1>3, Constants DEF Decide
<1>4. CASE PostVsyncStart \/ VsyncWait \/ SignalFrame \/ TakeToken \/ ApplySettings
  BY <1>4, <1>0 DEF PostVsyncStart, VsyncWait, SignalFrame, TakeToken, ApplySettings
<1>5. CASE FoundEmpty \/ VsyncValve \/ BeginPresent \/ PublishFrame \/ Presented
  BY <1>5, <1>0 DEF FoundEmpty, VsyncValve, BeginPresent, AtHead, PublishFrame, Presented, VsyncDone
<1>6. CASE AbandonContext \/ Reopen \/ CallWait \/ PostToken \/ FrameWait
  BY <1>6, <1>0 DEF AbandonContext, AtHead, Reopen, CallWait, PostToken, FrameWait
<1>7. CASE GSWait \/ ConsumeFrame \/ Blit \/ RetroRun \/ OnGLContextDestroy
  BY <1>7, <1>0 DEF GSWait, ConsumeFrame, Blit, RetroRun, OnGLContextDestroy
<1>8. CASE OnGLContextReset \/ Unload
  BY <1>8, <1>0 DEF OnGLContextReset, Unload
<1>9. CASE UNCHANGED vars
  BY <1>9, <1>0 DEF vars
<1>. QED
  BY <1>1, <1>2, <1>3, <1>4, <1>5, <1>6, <1>7, <1>8, <1>9
     DEF Next, CPUStep, GSStep, FrontendStep, FrontendCall

(* The ring.                                                               *)
LEMMA NextRingInv ==
    ASSUME RingInv, [Next]_vars
    PROVE  RingInv'
<1>0. {"vsync", "reopen", "abandon"} \subseteq Commands
  BY DEF Commands
<1>. USE DEF RingInv, cpu, queue, gs, handoff, frontend
<1>1. CASE PostVsyncStart
  BY <1>1, Added, Removed, <1>0 DEF PostVsyncStart
<1>2. CASE ApplySettings
  BY <1>2, Added, Removed, <1>0 DEF ApplySettings
<1>3. CASE SkipFrame
  BY <1>3, Added, Removed, <1>0 DEF SkipFrame, VsyncDone, AtHead
<1>4. CASE Presented
  BY <1>4, Added, Removed, <1>0 DEF Presented, VsyncDone
<1>5. CASE AbandonContext
  BY <1>5, Added, Removed, <1>0 DEF AbandonContext, AtHead
<1>6. CASE Reopen
  BY <1>6, Added, Removed, <1>0 DEF Reopen, AtHead
<1>7. CASE RetroRun
  BY <1>7, Added, Removed, <1>0 DEF RetroRun
<1>8. CASE OnGLContextDestroy
  BY <1>8, Added, Removed, <1>0 DEF OnGLContextDestroy
<1>9. CASE Unload
  BY <1>9, Added, Removed, <1>0 DEF Unload
<1>10. CASE VsyncWait \/ SignalFrame \/ TakeToken \/ FoundEmpty \/ VsyncValve \/ BeginPresent
  BY <1>10, Added, Removed, <1>0 DEF VsyncWait, SignalFrame, TakeToken, FoundEmpty, VsyncValve, BeginPresent, AtHead
<1>11. CASE EndPresent \/ PublishFrame \/ CallWait \/ PostToken \/ FrameWait \/ GSWait
  BY <1>11, Added, Removed, <1>0 DEF EndPresent, PublishFrame, CallWait, PostToken, FrameWait, GSWait
<1>12. CASE Decide \/ ConsumeFrame \/ Blit \/ OnGLContextReset
  BY <1>12, Added, Removed, <1>0 DEF Decide, ConsumeFrame, Blit, OnGLContextReset
<1>13. CASE UNCHANGED vars
  BY <1>13, Added, Removed, <1>0 DEF vars
<1>. QED
  BY <1>1, <1>2, <1>3, <1>4, <1>5, <1>6, <1>7, <1>8, <1>9, <1>10, <1>11, <1>12, <1>13
     DEF Next, CPUStep, GSStep, FrontendStep, FrontendCall

(* The vsyncs queued, as the ring changes.                                 *)
LEMMA CountSteps ==
    ASSUME RingInv
    PROVE  /\ Count \in Nat
           /\ (\A i \in 1 .. Len(ring) : ring[i] # "vsync") => Count = 0
           /\ ring = <<>> => Count = 0
           /\ ring # <<>> /\ ring[1] = "vsync" => Count > 0
           /\ ring' = ring => Count' = Count
           /\ \A c \in Commands : ring' = Append(ring, c) => Count' = Count + (IF c = "vsync" THEN 1 ELSE 0)
           /\ ring # <<>> /\ ring' = Tail(ring) => Count' = Count - (IF ring[1] = "vsync" THEN 1 ELSE 0)
           /\ ring' = <<>> => Count' = 0
<1>1. Count = Cardinality(VsyncsIn(ring)) /\ Count' = Cardinality(VsyncsIn(ring'))
  BY DEF Count, GetCurrentVsyncQueueSize, VsyncsIn
<1>2. ring \in Seq(Commands)
  BY DEF RingInv
<1>3. <<>> \in Seq(Commands) /\ \A i \in 1 .. Len(<<>>) : <<>>[i] # "vsync"
  OBVIOUS
<1>4. ASSUME ring # <<>>, ring[1] = "vsync" PROVE Count > 0
  <2>1. Cardinality(VsyncsIn(Tail(ring))) = Cardinality(VsyncsIn(ring)) - 1
    BY <1>2, <1>4, VsyncsTail
  <2>2. Cardinality(VsyncsIn(Tail(ring))) \in Nat /\ Cardinality(VsyncsIn(ring)) \in Nat
    BY <1>2, <1>4, Removed, VsyncsFinite
  <2>. QED  BY <1>1, <2>1, <2>2
<1>5. Count \in Nat
  BY <1>1, <1>2, VsyncsFinite
<1>6. (\A i \in 1 .. Len(ring) : ring[i] # "vsync") => Count = 0
  BY <1>1, <1>2, VsyncsNone
<1>7. Cardinality(VsyncsIn(<<>>)) = 0
  BY <1>3, VsyncsNone
<1>8. \A c \in Commands : ring' = Append(ring, c) => Count' = Count + (IF c = "vsync" THEN 1 ELSE 0)
  BY <1>1, <1>2, VsyncsAppend
<1>9. ring # <<>> /\ ring' = Tail(ring) => Count' = Count - (IF ring[1] = "vsync" THEN 1 ELSE 0)
  BY <1>1, <1>2, VsyncsTail
<1>. QED  BY <1>1, <1>4, <1>5, <1>6, <1>7, <1>8, <1>9

(* The vsyncs queued are bounded.                                          *)
LEMMA NextQueueInv ==
    ASSUME Flags, RingInv, QueueInv, [Next]_vars
    PROVE  QueueInv'
<1>0. {"vsync", "reopen", "abandon"} \subseteq Commands
  BY DEF Commands
<1>. USE DEF QueueInv, cpu, queue, gs, handoff, frontend
<1>1. CASE PostVsyncStart
  BY <1>1, <1>0, CountSteps, Constants DEF PostVsyncStart, Count, Flags
<1>2. CASE VsyncWait \/ SignalFrame \/ TakeToken
  BY <1>2, <1>0, CountSteps, Constants DEF VsyncWait, SignalFrame, TakeToken
<1>3. CASE ApplySettings
  BY <1>3, <1>0, CountSteps, Constants DEF ApplySettings
<1>4. CASE FoundEmpty
  BY <1>4, <1>0, CountSteps, Constants DEF FoundEmpty
<1>5. CASE VsyncValve
  BY <1>5, <1>0, CountSteps, Constants DEF VsyncValve
<1>6. CASE SkipFrame
  BY <1>6, <1>0, CountSteps, Constants DEF SkipFrame, VsyncDone, AtHead
<1>7. CASE Presented
  BY <1>7, <1>0, CountSteps, Constants DEF Presented, VsyncDone, RingInv
<1>8. CASE AbandonContext
  BY <1>8, <1>0, CountSteps, Constants DEF AbandonContext, AtHead
<1>9. CASE Reopen
  BY <1>9, <1>0, CountSteps, Constants DEF Reopen, AtHead
<1>10. CASE RetroRun
  BY <1>10, <1>0, CountSteps, Constants DEF RetroRun
<1>11. CASE OnGLContextDestroy
  BY <1>11, <1>0, CountSteps, Constants DEF OnGLContextDestroy
<1>12. CASE Unload
  BY <1>12, <1>0, CountSteps, Constants DEF Unload
<1>13. CASE BeginPresent \/ EndPresent \/ PublishFrame
  BY <1>13, <1>0, CountSteps, Constants DEF BeginPresent, AtHead, EndPresent, PublishFrame
<1>14. CASE CallWait \/ PostToken \/ FrameWait
  BY <1>14, <1>0, CountSteps, Constants DEF CallWait, PostToken, FrameWait
<1>15. CASE GSWait \/ Decide \/ ConsumeFrame
  BY <1>15, <1>0, CountSteps, Constants DEF GSWait, Decide, ConsumeFrame
<1>16. CASE Blit \/ OnGLContextReset
  BY <1>16, <1>0, CountSteps, Constants DEF Blit, OnGLContextReset
<1>17. CASE UNCHANGED vars
  BY <1>17, <1>0, CountSteps, Constants DEF vars
<1>. QED
  BY <1>1, <1>2, <1>3, <1>4, <1>5, <1>6, <1>7, <1>8, <1>9, <1>10, <1>11, <1>12, <1>13, <1>14, <1>15,
     <1>16, <1>17
     DEF Next, CPUStep, GSStep, FrontendStep, FrontendCall

(* A frame whose texture is gone keeps its fence, and the others are as    *)
(* they were.                                                              *)
LEMMA KilledFrame ==
    ASSUME NEW f \in Frames, NEW slot \in Buffers
    PROVE  /\ Killed(f, slot) \in Frames
           /\ Killed(f, slot).fence = f.fence /\ Killed(f, slot).texture = f.texture
           /\ Killed(f, slot).current = f.current
           /\ f.texture # slot => Killed(f, slot) = f
BY DEF Killed, Frames

LEMMA OutlivedFrame ==
    ASSUME NEW f \in Frames
    PROVE  /\ Outlived(f) \in Frames
           /\ Outlived(f).fence = f.fence /\ ~Outlived(f).current
BY DEF Outlived, Frames

LEMMA NoFrame ==
    /\ noFrame \in Frames /\ noFrame.texture = -1 /\ noFrame.fence = none /\ ~noFrame.current
    /\ \A slot \in Buffers : Killed(noFrame, slot) = noFrame
    /\ Outlived(noFrame) = noFrame
<1>1. -1 \notin Buffers
  BY DEF Buffers
<1>2. noFrame \in Frames /\ noFrame.texture = -1 /\ noFrame.fence = none /\ ~noFrame.current
  BY DEF noFrame, Frames
<1>3. \A slot \in Buffers : Killed(noFrame, slot) = noFrame
  BY <1>1 DEF Killed, noFrame
<1>4. Outlived(noFrame) = noFrame
  <2>1. ASSUME NEW f \in Frames, NEW g \in Frames, f.texture = g.texture, f.alive = g.alive,
               f.current = g.current, f.fence = g.fence
        PROVE  f = g
    BY <2>1 DEF Frames
  <2>2. /\ Outlived(noFrame).texture = -1 /\ ~Outlived(noFrame).alive /\ ~Outlived(noFrame).current
        /\ Outlived(noFrame).fence = none
    BY DEF noFrame, Outlived
  <2>3. Outlived(noFrame) \in Frames
    BY <1>2, OutlivedFrame
  <2>4. noFrame.texture = -1 /\ ~noFrame.alive /\ ~noFrame.current /\ noFrame.fence = none
    BY DEF noFrame
  <2>5. Outlived(noFrame).alive = noFrame.alive /\ Outlived(noFrame).current = noFrame.current
    BY DEF noFrame, Outlived
  <2>. QED  BY <1>2, <2>1, <2>2, <2>3, <2>4, <2>5
<1>. QED  BY <1>2, <1>3, <1>4

(* A frame is where the thread that has it is.                             *)
LEMMA NextFrameInv ==
    ASSUME Values, FrameInv, [Next]_vars
    PROVE  FrameInv'
<1>. USE DEF FrameInv, cpu, queue, gs, handoff, frontend
<1>1. CASE PostVsyncStart \/ VsyncWait \/ SignalFrame \/ TakeToken \/ ApplySettings \/ FoundEmpty \/
          VsyncValve
  BY <1>1, NoFrame DEF PostVsyncStart, VsyncWait, SignalFrame, TakeToken, ApplySettings, FoundEmpty, VsyncValve
<1>2. CASE SkipFrame \/ Presented \/ AbandonContext
  BY <1>2, NoFrame DEF SkipFrame, VsyncDone, AtHead, Presented, AbandonContext
<1>3. CASE BeginPresent
  <2>1. m_libretro_bb_idx \in Buffers
    BY DEF Values
  <2>. QED  BY <1>3, <2>1, KilledFrame, NoFrame DEF BeginPresent, AtHead
<1>4. CASE EndPresent
  <2>. PICK f \in Fences \ fences :
            frame' = [texture |-> m_libretro_bb_idx, alive |-> TRUE, current |-> device = "shared", fence |-> f]
    BY <1>4 DEF EndPresent
  <2>1. frame' \in Frames
    BY DEF Frames, Values
  <2>. QED  BY <1>4, <2>1 DEF EndPresent
<1>5. CASE PublishFrame
  BY <1>5, NoFrame DEF PublishFrame
<1>6. CASE Reopen
  BY <1>6, OutlivedFrame, NoFrame DEF Reopen, AtHead
<1>7. CASE CallWait \/ PostToken \/ FrameWait \/ GSWait \/ Decide \/ RetroRun \/ OnGLContextDestroy
  BY <1>7, NoFrame DEF CallWait, PostToken, FrameWait, GSWait, Decide, RetroRun, OnGLContextDestroy
<1>8. CASE ConsumeFrame
  <2>1. [s_frame EXCEPT !.fence = none] \in Frames
    BY DEF Frames
  <2>. QED  BY <1>8, <2>1 DEF ConsumeFrame, HasFrame
<1>9. CASE Blit
  BY <1>9, NoFrame DEF Blit
<1>10. CASE OnGLContextReset
  BY <1>10, OutlivedFrame, NoFrame DEF OnGLContextReset
<1>11. CASE Unload
  BY <1>11, NoFrame DEF Unload
<1>12. CASE UNCHANGED vars
  BY <1>12, NoFrame DEF vars
<1>. QED
  BY <1>1, <1>2, <1>3, <1>4, <1>5, <1>6, <1>7, <1>8, <1>9, <1>10, <1>11, <1>12
     DEF Next, CPUStep, GSStep, FrontendStep, FrontendCall

(* A fence changes hands with its frame.                                   *)
LEMMA NextFenceInv ==
    ASSUME Flags, Places, Values, FrameInv, FenceInv, [Next]_vars
    PROVE  FenceInv'
<1>. USE DEF FenceInv, Published, cpu, queue, gs, handoff, frontend
<1>1. CASE PostVsyncStart \/ VsyncWait \/ SignalFrame \/ TakeToken \/ ApplySettings \/ FoundEmpty \/
          VsyncValve
  BY <1>1, NoFrame DEF PostVsyncStart, VsyncWait, SignalFrame, TakeToken, ApplySettings, FoundEmpty, VsyncValve
<1>2. CASE SkipFrame \/ Presented \/ AbandonContext
  BY <1>2, NoFrame DEF SkipFrame, VsyncDone, AtHead, Presented, AbandonContext
<1>3. CASE BeginPresent
  <2>1. m_libretro_bb_idx \in Buffers
    BY DEF Values
  <2>2. s_frame'.fence = s_frame.fence /\ held'.fence = held.fence
    BY <1>3, <2>1, KilledFrame DEF BeginPresent, FrameInv
  <2>. QED  BY <1>3, <2>2 DEF BeginPresent
<1>4. CASE EndPresent
  <2>. PICK f \in Fences \ fences :
            /\ frame' = [texture |-> m_libretro_bb_idx, alive |-> TRUE, current |-> device = "shared", fence |-> f]
            /\ fences' = fences \cup {f}
    BY <1>4 DEF EndPresent
  <2>1. frame'.fence = f /\ f # none /\ f \notin fences
    BY DEF Fences, none
  <2>2. frame.fence = none
    BY <1>4, NoFrame DEF EndPresent, FrameInv
  <2>. QED  BY <1>4, <2>1, <2>2 DEF EndPresent
<1>5. CASE PublishFrame
  <2>1. frame'.fence = none /\ s_frame'.fence = frame.fence
    BY <1>5, NoFrame DEF PublishFrame
  <2>. QED  BY <1>5, <2>1 DEF PublishFrame
<1>6. CASE Reopen
  <2>1. CASE device = "orphaned" /\ UNCHANGED <<gs, s_frame, held, fences, fence_lost>>
    BY <1>6, <2>1 DEF Reopen
  <2>2. CASE /\ s_frame' = Outlived(s_frame) /\ held' = Outlived(held)
             /\ fences' = IF device = "shared" THEN fences ELSE {}
             /\ fence_lost' = (fence_lost \/ (device # "shared" /\ fences # {}))
             /\ UNCHANGED <<gpc, frame>>
    <3>1. s_frame'.fence = s_frame.fence /\ held'.fence = held.fence /\ frame' = frame /\ unconsumed' = unconsumed
      BY <1>6, <2>2, OutlivedFrame DEF Reopen, FrameInv
    <3>2. ~fence_lost' => ~fence_lost /\ fences' = fences
      BY <2>2 DEF Flags
    <3>. QED  BY <2>2, <3>1, <3>2
  <2>. QED  BY <1>6, <2>1, <2>2 DEF Reopen
<1>7. CASE CallWait \/ PostToken \/ FrameWait \/ GSWait \/ Decide \/ RetroRun \/ OnGLContextDestroy
  BY <1>7, NoFrame DEF CallWait, PostToken, FrameWait, GSWait, Decide, RetroRun, OnGLContextDestroy
<1>8. CASE ConsumeFrame
  <2>1. CASE HasFrame
    <3>1. s_frame'.fence = none /\ held'.fence = s_frame.fence /\ ~unconsumed' /\ unconsumed
      BY <1>8, <2>1 DEF ConsumeFrame, HasFrame, FrameInv, Frames
    <3>2. held.fence = none
      BY <1>8, NoFrame DEF ConsumeFrame, FrameInv
    <3>. QED  BY <1>8, <3>1, <3>2 DEF ConsumeFrame
  <2>2. CASE ~HasFrame
    BY <1>8, <2>2 DEF ConsumeFrame
  <2>. QED  BY <2>1, <2>2
<1>9. CASE Blit
  BY <1>9, NoFrame DEF Blit
<1>10. CASE OnGLContextReset
  <2>1. s_frame'.fence = s_frame.fence /\ frame'.fence = frame.fence
    BY <1>10, OutlivedFrame DEF OnGLContextReset, FrameInv
  <2>. QED  BY <1>10, <2>1 DEF OnGLContextReset
<1>11. CASE Unload
  <2>1. held' = noFrame /\ frame' = noFrame /\ ~unconsumed' /\ fences' = {}
    BY <1>11 DEF Unload, FrameInv
  <2>. QED  BY <2>1, NoFrame
<1>12. CASE UNCHANGED vars
  BY <1>12, NoFrame DEF vars
<1>. QED
  BY <1>1, <1>2, <1>3, <1>4, <1>5, <1>6, <1>7, <1>8, <1>9, <1>10, <1>11, <1>12
     DEF Next, CPUStep, GSStep, FrontendStep, FrontendCall

(* The turn of a buffer comes once in a round.                             *)
LEMMA AgoInRange ==
    ASSUME NEW i \in Buffers, NEW t \in Buffers
    PROVE  /\ Ago(i, t) \in 1 .. kLibretroBackbuffers
           /\ Ago(i, t) = kLibretroBackbuffers <=> i = t
BY Constants DEF Ago, Buffers

LEMMA AgoNext ==
    /\ m_libretro_bb_idx \in Buffers => Ago(NextBuffer, m_libretro_bb_idx) = 1
    /\ \A t \in Buffers : m_libretro_bb_idx \in Buffers /\ Ago(m_libretro_bb_idx, t) < kLibretroBackbuffers
         => Ago(NextBuffer, t) = Ago(m_libretro_bb_idx, t) + 1
<1>1. m_libretro_bb_idx \in Buffers
        => NextBuffer = IF m_libretro_bb_idx + 1 = kLibretroBackbuffers THEN 0 ELSE m_libretro_bb_idx + 1
  BY Constants DEF NextBuffer, Buffers
<1>. QED  BY <1>1, Constants DEF Ago, Buffers

(* The buffer that is drawn into is neither the frame that waits nor the   *)
(* one that is blitted.                                                    *)
LEMMA Apart ==
    ASSUME Values, RingInv, BufferInv, gpc = "draw" \/ AtHead("vsync")
    PROVE  /\ unconsumed /\ s_frame.current => s_frame.texture # m_libretro_bb_idx
           /\ fpc = "blit" /\ ~behind /\ held.current =>
                 /\ held.texture # m_libretro_bb_idx
                 /\ Ago(m_libretro_bb_idx, held.texture) < kLibretroBackbuffers
<1>1. Count > 0 /\ Count \in Nat
  BY CountSteps DEF RingInv, AtHead
<1>2. gpc \notin {"publish", "done"}
  BY DEF AtHead
<1>3. unconsumed /\ s_frame.current => s_frame.texture # m_libretro_bb_idx
  BY <1>2, Constants, AgoInRange DEF BufferInv, Values
<1>4. fpc = "blit" /\ ~behind /\ held.current =>
        held.texture \in Buffers /\ Ago(m_libretro_bb_idx, held.texture) < kLibretroBackbuffers
  BY <1>1, <1>2, Constants, AgoInRange DEF BufferInv, Values, Draws
<1>. QED  BY <1>3, <1>4, AgoInRange DEF Values

(* The buffers take turns, and retro_run's is not due before the blit ends. *)
LEMMA NextBufferInv ==
    ASSUME Flags, Places, Values, RingInv, FrameInv, BufferInv, [Next]_vars
    PROVE  BufferInv'
<1>0. {"vsync", "reopen", "abandon"} \subseteq Commands
  BY DEF Commands
<1>. USE DEF BufferInv, Draws, cpu, queue, gs, handoff, frontend
<1>1. CASE PostVsyncStart
  <2>1. Count \in Nat /\ Count' = Count + 1
    BY <1>1, <1>0, CountSteps DEF PostVsyncStart
  <2>2. cpc = "run" /\ cpc' # "run" /\ UNCHANGED <<gs, handoff, frontend>>
    BY <1>1 DEF PostVsyncStart
  <2>3. Draws' = Draws
    BY <2>1, <2>2
  <2>. QED  BY <2>2, <2>3
<1>2. CASE VsyncWait \/ SignalFrame \/ TakeToken
  BY <1>2, <1>0, CountSteps, Constants DEF VsyncWait, SignalFrame, MutexFree, TakeToken
<1>3. CASE ApplySettings
  BY <1>3, <1>0, CountSteps, Constants DEF ApplySettings, MutexFree
<1>4. CASE FoundEmpty \/ VsyncValve
  BY <1>4, <1>0, CountSteps, Constants DEF FoundEmpty, VsyncValve
<1>5. CASE SkipFrame
  BY <1>5, <1>0, CountSteps, Constants, AgoInRange DEF SkipFrame, VsyncDone, AtHead, Values
<1>6. CASE BeginPresent
  <2>1. m_libretro_bb_idx \in Buffers
    BY DEF Values
  <2>2. /\ s_frame'.texture = s_frame.texture /\ held'.texture = held.texture
        /\ s_frame'.current = s_frame.current /\ held'.current = held.current
    <3>1. CASE UNCHANGED <<s_frame, held>>
      BY <3>1
    <3>2. CASE s_frame' = Killed(s_frame, m_libretro_bb_idx) /\ held' = Killed(held, m_libretro_bb_idx)
      BY <2>1, <3>2, KilledFrame DEF FrameInv
    <3>. QED  BY <1>6, <3>1, <3>2 DEF BeginPresent
  <2>. QED  BY <1>6, <2>2, CountSteps DEF BeginPresent, AtHead
<1>7. CASE EndPresent
  <2>1. m_libretro_bb_idx \in Buffers /\ m_libretro_bb_idx' = NextBuffer
    BY <1>7 DEF EndPresent, Values
  <2>2. frame'.texture = m_libretro_bb_idx /\ UNCHANGED <<s_frame, held, unconsumed, fpc, cpc, ring, behind>>
        /\ gpc = "draw" /\ gpc' = "publish"
    BY <1>7 DEF EndPresent
  <2>3. Count \in Nat /\ Count' = Count
    BY <2>2, CountSteps
  <2>4. Ago(m_libretro_bb_idx', frame'.texture) = 1
    BY <2>1, <2>2, AgoNext
  <2>5. unconsumed /\ s_frame.current => Ago(m_libretro_bb_idx', s_frame.texture) = 2
    BY <2>1, <2>2, AgoNext, Constants
  <2>6. fpc = "blit" /\ ~behind /\ held.current =>
          Ago(m_libretro_bb_idx', held.texture) = Ago(m_libretro_bb_idx, held.texture) + 1
    BY <2>1, <2>2, AgoNext, Apart
  <2>7. fpc = "blit" /\ ~behind /\ held.current => Ago(m_libretro_bb_idx, held.texture) \in Nat
    BY <2>1, Constants, AgoInRange
  <2>. QED  BY <2>1, <2>2, <2>3, <2>4, <2>5, <2>6, <2>7, Constants
<1>8. CASE PublishFrame
  BY <1>8, CountSteps, Constants DEF PublishFrame
<1>9. CASE Presented
  <2>1. ring # <<>> /\ ring[1] = "vsync"
    BY <1>9 DEF Presented, RingInv
  <2>. QED  BY <1>9, <2>1, CountSteps, Constants DEF Presented, VsyncDone
<1>10. CASE AbandonContext
  BY <1>10, <1>0, CountSteps, Constants DEF AbandonContext, AtHead
<1>11. CASE Reopen
  <2>1. gpc # "publish" /\ UNCHANGED <<unconsumed, fpc, gpc, cpc, behind>>
    BY <1>11 DEF Reopen, AtHead
  <2>2. CASE UNCHANGED <<gs, s_frame, held>>
    BY <1>11, <1>0, <2>1, <2>2, CountSteps, Constants DEF Reopen, AtHead
  <2>3. CASE s_frame' = Outlived(s_frame) /\ held' = Outlived(held)
    BY <2>1, <2>3, OutlivedFrame DEF FrameInv
  <2>. QED  BY <1>11, <2>2, <2>3 DEF Reopen
<1>12. CASE RetroRun
  BY <1>12, <1>0, CountSteps, Constants DEF RetroRun
<1>13. CASE ConsumeFrame
  <2>1. Count \in Nat /\ Count' = Count /\ UNCHANGED <<gpc, cpc, frame, m_libretro_bb_idx>>
    BY <1>13, CountSteps DEF ConsumeFrame
  <2>2. CASE HasFrame
    <3>1. /\ unconsumed /\ ~unconsumed' /\ held' = s_frame /\ behind' = (ToCome >= kLibretroBackbuffers)
      BY <1>13, <2>2 DEF ConsumeFrame, HasFrame
    <3>2. ~behind' => Count + (IF cpc = "run" THEN 1 ELSE 0) - (IF gpc = "done" THEN 1 ELSE 0) < kLibretroBackbuffers
      <4>1. ~behind' => ~(ToCome >= kLibretroBackbuffers)
        BY <3>1, Zenon
      <4>2. ToCome = Count + (IF cpc = "run" THEN 1 ELSE 0) - (IF gpc = "done" THEN 1 ELSE 0)
        BY DEF ToCome, Count
      <4>. QED  BY <2>1, <4>1, <4>2, Constants
    <3>. QED  BY <2>1, <3>1, <3>2, Constants
  <2>3. CASE ~HasFrame
    BY <1>13, <2>1, <2>3 DEF ConsumeFrame
  <2>. QED  BY <2>2, <2>3
<1>14. CASE Blit
  BY <1>14, <1>0, CountSteps, Constants DEF Blit
<1>15. CASE CallWait \/ PostToken \/ FrameWait
  BY <1>15, <1>0, CountSteps, Constants DEF CallWait, PostToken, FrameWait
<1>16. CASE GSWait \/ Decide
  BY <1>16, <1>0, CountSteps, Constants DEF GSWait, Decide, HasFrame
<1>17. CASE OnGLContextDestroy
  BY <1>17, <1>0, CountSteps, Constants DEF OnGLContextDestroy
<1>18. CASE OnGLContextReset
  <2>1. ~s_frame'.current /\ ~frame'.current /\ fpc' # "blit"
    BY <1>18, OutlivedFrame DEF OnGLContextReset, FrameInv
  <2>. QED  BY <2>1
<1>19. CASE Unload
  BY <1>19, <1>0, CountSteps, Constants DEF Unload
<1>20. CASE UNCHANGED vars
  BY <1>20, <1>0, CountSteps, Constants DEF vars
<1>. QED
  BY <1>1, <1>2, <1>3, <1>4, <1>5, <1>6, <1>7, <1>8, <1>9, <1>10, <1>11, <1>12, <1>13, <1>14, <1>15,
     <1>16, <1>17, <1>18, <1>19, <1>20
     DEF Next, CPUStep, GSStep, FrontendStep, FrontendCall

(* A texture is deleted with the device, or when its turn has come.       *)
LEMMA NextAliveInv ==
    ASSUME Values, RingInv, FrameInv, BufferInv, AliveInv, [Next]_vars
    PROVE  AliveInv'
<1>. USE DEF AliveInv, cpu, queue, gs, handoff, frontend
<1>1. CASE PostVsyncStart \/ VsyncWait \/ SignalFrame \/ TakeToken \/ ApplySettings
  BY <1>1 DEF PostVsyncStart, VsyncWait, SignalFrame, TakeToken, ApplySettings
<1>2. CASE FoundEmpty \/ VsyncValve \/ SkipFrame \/ Presented \/ AbandonContext
  BY <1>2 DEF FoundEmpty, VsyncValve, SkipFrame, AtHead, Presented, VsyncDone, AbandonContext
<1>3. CASE BeginPresent
  <2>1. m_libretro_bb_idx \in Buffers
    BY DEF Values
  <2>2. /\ s_frame'.current = s_frame.current /\ held'.current = held.current
        /\ s_frame.texture # m_libretro_bb_idx => s_frame' = s_frame
        /\ held.texture # m_libretro_bb_idx => held' = held
    BY <1>3, <2>1, KilledFrame DEF BeginPresent, FrameInv
  <2>3. /\ unconsumed /\ s_frame.current => s_frame' = s_frame
        /\ fpc = "blit" /\ ~behind /\ held.current => held' = held
    BY <1>3, <2>2, Apart DEF BeginPresent
  <2>. QED  BY <1>3, <2>2, <2>3 DEF BeginPresent
<1>4. CASE EndPresent
  <2>. PICK f \in Fences :
          frame' = [texture |-> m_libretro_bb_idx, alive |-> TRUE, current |-> device = "shared", fence |-> f]
    BY <1>4 DEF EndPresent
  <2>1. frame'.alive
    OBVIOUS
  <2>. QED  BY <1>4, <2>1 DEF EndPresent
<1>5. CASE PublishFrame
  BY <1>5 DEF PublishFrame
<1>6. CASE Reopen
  <2>1. gpc' # "publish" /\ UNCHANGED <<unconsumed, fpc, behind>>
    BY <1>6 DEF Reopen, AtHead
  <2>2. CASE UNCHANGED <<gs, s_frame, held>>
    BY <2>1, <2>2
  <2>3. CASE s_frame' = Outlived(s_frame) /\ held' = Outlived(held)
    BY <2>1, <2>3, OutlivedFrame DEF FrameInv
  <2>. QED  BY <1>6, <2>2, <2>3 DEF Reopen
<1>7. CASE RetroRun \/ CallWait \/ PostToken \/ FrameWait \/ GSWait \/ Decide
  BY <1>7 DEF RetroRun, CallWait, PostToken, FrameWait, GSWait, Decide
<1>8. CASE ConsumeFrame
  BY <1>8 DEF ConsumeFrame, HasFrame
<1>9. CASE Blit \/ OnGLContextDestroy
  BY <1>9 DEF Blit, OnGLContextDestroy
<1>10. CASE OnGLContextReset
  <2>1. ~s_frame'.current /\ ~frame'.current /\ fpc' # "blit"
    BY <1>10, OutlivedFrame DEF OnGLContextReset, FrameInv
  <2>. QED  BY <2>1
<1>11. CASE Unload
  BY <1>11 DEF Unload
<1>12. CASE UNCHANGED vars
  BY <1>12 DEF vars
<1>. QED
  BY <1>1, <1>2, <1>3, <1>4, <1>5, <1>6, <1>7, <1>8, <1>9, <1>10, <1>11, <1>12
     DEF Next, CPUStep, GSStep, FrontendStep, FrontendCall

-----------------------------------------------------------------------------
IInv == Flags /\ Places /\ Values /\ RingInv /\ QueueInv /\ FrameInv /\ FenceInv /\ AliveInv /\ BufferInv

LEMMA InitIInv == Init => IInv
<1>. SUFFICES ASSUME Init PROVE IInv
  OBVIOUS
<1>1. Flags /\ Places
  BY DEF Init, Flags, Places
<1>2. Values
  BY Constants DEF Init, Values, Buffers
<1>3. RingInv
  BY DEF Init, RingInv
<1>4. QueueInv
  BY <1>3, CountSteps, Constants DEF Init, QueueInv
<1>5. FrameInv /\ FenceInv
  BY NoFrame DEF Init, FrameInv, FenceInv, Published
<1>6. AliveInv /\ BufferInv
  BY DEF Init, AliveInv, BufferInv
<1>. QED  BY <1>1, <1>2, <1>3, <1>4, <1>5, <1>6 DEF IInv

LEMMA NextIInv ==
    ASSUME IInv, [Next]_vars
    PROVE  IInv'
<1>1. Flags' /\ Places' /\ Values' /\ RingInv' /\ QueueInv'
  BY NextFlags, NextPlaces, NextValues, NextRingInv, NextQueueInv DEF IInv
<1>2. FrameInv' /\ FenceInv' /\ AliveInv' /\ BufferInv'
  BY NextFrameInv, NextFenceInv, NextAliveInv, NextBufferInv DEF IInv
<1>. QED  BY <1>1, <1>2 DEF IInv

LEMMA AlwaysIInv == Spec => []IInv
<1>1. IInv /\ [Next]_vars => IInv'
  BY NextIInv
<1>. QED  BY <1>1, InitIInv, PTL DEF Spec

LEMMA IInvIsFenceOwnership == IInv => FenceOwnership
<1>. SUFFICES ASSUME IInv PROVE FenceOwnership
  OBVIOUS
<1>1. TypeOK
  <2>1. {s_run_token, s_frame_ready, s_VsyncSignalListener, unconsumed, s_gl_needs_reopen, behind, fence_lost}
          \subseteq BOOLEAN
    BY DEF IInv, Flags
  <2>2. fences \subseteq Fences
    BY DEF IInv, FenceInv
  <2>. QED
    BY <2>1, <2>2 DEF TypeOK, IInv, Places, Values, RingInv, QueueInv, Count, Commands, FrameInv
<1>. DEFINE owned == <<frame.fence, IF unconsumed THEN s_frame.fence ELSE none, held.fence>>
<1>2. owned[1] = frame.fence /\ owned[2] = Published /\ owned[3] = held.fence
  BY DEF Published
<1>3. {owned[i] : i \in 1 .. 3} = {frame.fence, Published, held.fence}
  <2>1. 1 .. 3 = {1, 2, 3}
    OBVIOUS
  <2>2. {owned[i] : i \in {1, 2, 3}} = {owned[1], owned[2], owned[3]}
    OBVIOUS
  <2>. QED  BY <1>2, <2>1, <2>2, Zenon
<1>4. ~fence_lost => fences = {owned[i] : i \in 1 .. 3} \ {none}
  BY <1>3 DEF IInv, FenceInv
<1>5. ~fence_lost => \A i, j \in 1 .. 3 : i # j /\ owned[i] # none => owned[i] # owned[j]
  <2>. SUFFICES ASSUME ~fence_lost, NEW i \in {1, 2, 3}, NEW j \in {1, 2, 3}, i # j, owned[i] # none
                PROVE  owned[i] # owned[j]
    OBVIOUS
  <2>. HIDE DEF owned
  <2>. QED  BY <1>2 DEF IInv, FenceInv
<1>. QED  BY <1>1, <1>4, <1>5 DEF FenceOwnership

LEMMA IInvIsFrameIntact == IInv => FrameIntact
<1>. SUFFICES ASSUME IInv,
                     NEW f \in (IF fpc = "blit" /\ ~behind THEN {held} ELSE {})
                                \cup (IF unconsumed THEN {s_frame} ELSE {}),
                     f.current
              PROVE  f.alive /\ ~(gpc = "draw" /\ m_libretro_bb_idx = f.texture)
  BY DEF FrameIntact
<1>1. CASE fpc = "blit" /\ ~behind /\ f = held
  BY <1>1, Apart DEF IInv, AliveInv
<1>2. CASE unconsumed /\ f = s_frame
  BY <1>2, Apart DEF IInv, AliveInv
<1>. QED  BY <1>1, <1>2

-----------------------------------------------------------------------------
(* FenceOwnership: until a context is replaced that has fences in it,      *)
(* every fence that exists belongs to exactly one of the GS thread, the    *)
(* frame that waits and retro_run, for any number of back buffers and      *)
(* whenever the device is rebuilt: PublishFrame, ConsumeFrame and the blit *)
(* neither leak one nor delete one twice.                                  *)
THEOREM FencesOwned == Spec => []FenceOwnership
BY AlwaysIInv, IInvIsFenceOwnership, PTL

(* FrameIntact: the GS thread never draws into the frame of the present    *)
(* device that retro_run blits or would take next, nor deletes its         *)
(* texture, unless it was a round of buffers behind when retro_run took    *)
(* the frame (GSDeviceOGL's BeginPresent and EndPresent, ConsumeFrame).    *)
THEOREM FramesIntact == Spec => []FrameIntact
BY AlwaysIInv, IInvIsFrameIntact, PTL

(* With three back buffers more than vsyncs may be queued without waiting  *)
(* the GS thread never is that far behind.  The code has three: enough     *)
(* when VsyncQueueSize is 0, with optimal frame pacing, and not with the   *)
(* default of 2.                                                           *)
THEOREM NeverBehind ==
    ASSUME kLibretroBackbuffers >= VsyncQueueSize + 3
    PROVE  Spec => [](~behind)
<1>1. Init => ~behind
  BY DEF Init
<1>2. ASSUME IInv, ~behind, [Next]_vars PROVE ~behind'
  <2>1. ToCome < kLibretroBackbuffers
    <3>1. Count \in Nat /\ Count <= VsyncQueueSize + 2 /\ (cpc # "blocked" => Count <= VsyncQueueSize + 1)
      BY <1>2, CountSteps DEF IInv, QueueInv
    <3>. QED  BY <3>1, Constants DEF ToCome, Count
  <2>2. CASE ConsumeFrame
    <3>1. ~(ToCome >= kLibretroBackbuffers)
      <4>1. Count \in Nat
        BY <1>2, CountSteps DEF IInv
      <4>2. ToCome \in Int
        BY <4>1 DEF ToCome, Count
      <4>. QED  BY <2>1, <4>2, Constants
    <3>2. behind' = (ToCome >= kLibretroBackbuffers) \/ behind' = behind
      BY <2>2 DEF ConsumeFrame
    <3>. QED  BY <1>2, <3>1, <3>2, Zenon
  <2>3. CASE Blit
    BY <2>3 DEF Blit
  <2>. USE <1>2 DEF frontend
  <2>4. CASE CPUStep \/ ApplySettings \/ GSStep
    BY <2>4 DEF CPUStep, GSStep, PostVsyncStart, VsyncWait, SignalFrame, TakeToken, ApplySettings, FoundEmpty,
       VsyncValve, SkipFrame, BeginPresent, EndPresent, PublishFrame, Presented, AbandonContext, Reopen
  <2>5. CASE CallWait \/ PostToken \/ FrameWait \/ GSWait \/ Decide \/ FrontendCall
    BY <2>5 DEF FrontendCall, CallWait, PostToken, FrameWait, GSWait, Decide, RetroRun, OnGLContextDestroy,
       OnGLContextReset, Unload
  <2>6. CASE UNCHANGED vars
    BY <2>6 DEF vars
  <2>. QED  BY <2>2, <2>3, <2>4, <2>5, <2>6 DEF Next, FrontendStep
<1>. QED  BY <1>1, <1>2, AlwaysIInv, PTL DEF Spec

=============================================================================
