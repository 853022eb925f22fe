---------------------------- MODULE FrameHandoff ----------------------------
(***************************************************************************)
(* How a frame gets from the GS thread to the frontend when the OpenGL     *)
(* renderer shares the frontend's context (GLLibretro.cpp, and its users   *)
(* in GSDeviceOGL.cpp and in retro_run).  The CPU thread queues a vsync    *)
(* per run token; for each the GS thread draws into one of a few back      *)
(* buffers and publishes it with a fence; retro_run takes the newest frame *)
(* and blits it on its own thread.  The device is rebuilt when a setting   *)
(* asks for it or when the frontend has replaced its context.              *)
(*                                                                         *)
(* A texture is the back buffer it was made for; what refers to one that   *)
(* was deleted is not alive.  A frame is current as long as the device     *)
(* that made it has not been rebuilt and the frontend has its context.     *)
(* s_frame_serial and s_frame_consumed are only compared:   *)
(* unconsumed says that they differ.  s_pacing is left out, because        *)
(* nothing ever sets it: PublishFrame does not wait.  retro_run keeps      *)
(* s_frame_mutex of Libretro.cpp except while it waits.  Its waits have    *)
(* limits of 100 ms to 5 s, and may end at any moment.  Sessions are       *)
(* module LibretroHost, the GS ring is module MTGS.                        *)
(***************************************************************************)
EXTENDS Integers, Sequences, FiniteSets

CONSTANTS
    kLibretroBackbuffers,
    VsyncQueueSize,   \* vsyncs the CPU thread may have queued without waiting
    MaxSkipped,       \* MAX_SKIPPED_DUPLICATE_FRAMES
    MaxCredit,        \* bound: duplicate frames reported and not yet spent
    MaxCalls          \* bound: rebuilds and losses of the context the GS thread has still to see

ASSUME BufferAssumption ==
    kLibretroBackbuffers \in Nat \ {0, 1} /\ {VsyncQueueSize, MaxSkipped, MaxCredit, MaxCalls} \subseteq Nat

VARIABLES
    s_run_token, s_frame_ready, cpc,           \* the CPU thread's side of the pacing
    ring, s_VsyncSignalListener,               \* the GS ring, and a CPU thread that waits for a vsync
    gpc, m_libretro_bb, m_libretro_bb_idx,     \* the GS thread, the back buffers that exist, the next one
    frame,                                     \* the frame it is about to publish
    device,                                    \* "shared", "orphaned" or "released"
    s_frame, unconsumed,                       \* GLLibretro's handoff
    fpc, run, held,                            \* retro_run: place, runs in this call, the frame it blits
    duplicates,                                \* s_duplicate_frames - s_duplicate_frames_spent
    s_gl_needs_reopen,
    fences,                                    \* the sync objects that exist
    behind,       \* ghost: when the frame was taken, the GS thread had a round of buffers to draw
    fence_lost    \* ghost: a context was replaced that had fences

cpu      == <<s_run_token, s_frame_ready, cpc>>
queue    == <<ring, s_VsyncSignalListener>>
gs       == <<gpc, m_libretro_bb, m_libretro_bb_idx, frame, device>>
handoff  == <<s_frame, unconsumed, fence_lost>>
frontend == <<fpc, run, held, s_gl_needs_reopen, behind>>

vars == <<cpu, queue, gs, handoff, frontend, duplicates, fences>>

Buffers == 0 .. kLibretroBackbuffers - 1

(* The GS thread, s_frame and retro_run have a fence each at most.         *)
Fences == 1 .. 3

none == 0

noFrame == [texture |-> -1, alive |-> FALSE, current |-> FALSE, fence |-> none]

Frames == [texture : {-1} \cup Buffers, alive : BOOLEAN, current : BOOLEAN, fence : {none} \cup Fences]

GetCurrentVsyncQueueSize == Cardinality({i \in 1 .. Len(ring) : ring[i] = "vsync"})

Calls == Cardinality({i \in 1 .. Len(ring) : ring[i] # "vsync"}) + (IF s_gl_needs_reopen THEN 1 ELSE 0)

Init ==
    /\ s_run_token = FALSE /\ s_frame_ready = FALSE /\ cpc = "run"
    /\ ring = <<>> /\ s_VsyncSignalListener = FALSE
    /\ gpc = "loop" /\ m_libretro_bb = {} /\ m_libretro_bb_idx = 0 /\ frame = noFrame /\ device = "shared"
    /\ s_frame = noFrame /\ unconsumed = FALSE
    /\ fpc = "out" /\ run = 0 /\ held = noFrame /\ s_gl_needs_reopen = FALSE
    /\ duplicates = 0 /\ fences = {}
    /\ behind = FALSE /\ fence_lost = FALSE

-----------------------------------------------------------------------------
(* The CPU thread.                                                         *)

(* PostVsyncStart: the vsync is queued, and when too many are the thread   *)
(* sleeps until the GS thread has done one.                                *)
PostVsyncStart ==
    /\ cpc = "run"
    /\ ring' = Append(ring, "vsync")
    /\ IF GetCurrentVsyncQueueSize < VsyncQueueSize
         THEN cpc' = "pump" /\ UNCHANGED s_VsyncSignalListener
         ELSE cpc' = "blocked" /\ s_VsyncSignalListener' = TRUE
    /\ UNCHANGED <<s_run_token, s_frame_ready, gs, handoff, frontend, duplicates, fences>>

VsyncWait ==
    /\ cpc = "blocked" /\ ~s_VsyncSignalListener
    /\ cpc' = "pump"
    /\ UNCHANGED <<s_run_token, s_frame_ready, queue, gs, handoff, frontend, duplicates, fences>>

(* PumpMessagesOnCPUThread: the frame is done; the next one needs a token. *)
MutexFree == fpc \notin {"decide", "present", "blit"}

SignalFrame ==
    /\ cpc = "pump" /\ MutexFree
    /\ cpc' = "park" /\ s_frame_ready' = TRUE
    /\ UNCHANGED <<s_run_token, queue, gs, handoff, frontend, duplicates, fences>>

TakeToken ==
    /\ cpc = "park" /\ MutexFree /\ s_run_token
    /\ cpc' = "run" /\ s_run_token' = FALSE
    /\ UNCHANGED <<s_frame_ready, queue, gs, handoff, frontend, duplicates, fences>>

(* A setting that needs a new device (GSUpdateConfig).                     *)
ApplySettings ==
    /\ cpc \in {"pump", "park"} /\ MutexFree
    /\ Calls < MaxCalls
    /\ ring' = Append(ring, "reopen")
    /\ UNCHANGED <<cpu, s_VsyncSignalListener, gs, handoff, frontend, duplicates, fences>>

-----------------------------------------------------------------------------
(* The GS thread.                                                          *)

AtHead(c) == gpc = "loop" /\ ring # <<>> /\ ring[1] = c

(* A reference to a texture that is gone, and to a frame of a device that  *)
(* is gone with all its textures.                                          *)
Killed(f, slot) == IF f.texture = slot THEN [f EXCEPT !.alive = FALSE] ELSE f

Outlived(f) == [f EXCEPT !.alive = FALSE, !.current = FALSE]

(* The end of a VSync command.                                             *)
VsyncDone ==
    /\ ring' = Tail(ring)
    /\ s_VsyncSignalListener' = FALSE

(* The ring was found empty: the safety valve of the main loop, which lets *)
(* a CPU thread go that has come to wait since.                            *)
FoundEmpty ==
    /\ gpc = "loop" /\ ring = <<>> /\ gpc' = "valve"
    /\ UNCHANGED <<cpu, queue, m_libretro_bb, m_libretro_bb_idx, frame, device, handoff, frontend, duplicates, fences>>

VsyncValve ==
    /\ gpc = "valve" /\ gpc' = "loop"
    /\ s_VsyncSignalListener' = FALSE
    /\ UNCHANGED <<cpu, ring, m_libretro_bb, m_libretro_bb_idx, frame, device, handoff, frontend, duplicates, fences>>

(* No present: the frame is a duplicate, which is reported, or the present *)
(* is skipped for another reason.                                          *)
SkipFrame ==
    /\ AtHead("vsync")
    /\ VsyncDone
    /\ \/ duplicates < MaxCredit /\ duplicates' = duplicates + 1
       \/ UNCHANGED duplicates
    /\ UNCHANGED <<cpu, gs, handoff, frontend, fences>>

(* BeginPresent: the back buffer is made, or made anew when the size has   *)
(* changed, and drawn into.                                                *)
BeginPresent ==
    /\ AtHead("vsync")
    /\ gpc' = "draw"
    /\ m_libretro_bb' = m_libretro_bb \cup {m_libretro_bb_idx}
    /\ \/ UNCHANGED <<s_frame, held>>
       \/ s_frame' = Killed(s_frame, m_libretro_bb_idx) /\ held' = Killed(held, m_libretro_bb_idx)
    /\ UNCHANGED <<cpu, queue, m_libretro_bb_idx, frame, device, unconsumed, fpc, run, s_gl_needs_reopen,
                   duplicates, fences, behind, fence_lost>>

(* Mutant: there are only two back buffers.                               *)
RotateTwo == (m_libretro_bb_idx + 1) % 2

NextBuffer == (m_libretro_bb_idx + 1) % kLibretroBackbuffers

(* EndPresent: a fence, the next buffer's turn, ...                        *)
EndPresent ==
    /\ gpc = "draw" /\ gpc' = "publish"
    /\ \E f \in Fences \ fences :
         /\ \A g \in Fences \ fences : f <= g
         /\ frame' = [texture |-> m_libretro_bb_idx, alive |-> TRUE, current |-> device = "shared",
                      fence |-> f]
         /\ fences' = fences \cup {f}
    /\ m_libretro_bb_idx' = NextBuffer
    /\ UNCHANGED <<cpu, queue, m_libretro_bb, device, handoff, frontend, duplicates>>

(* Mutant: the fence of a frame nobody took is left behind.                *)
PublishFrameOver ==
    /\ gpc = "publish" /\ gpc' = "done"
    /\ s_frame' = frame /\ unconsumed' = TRUE
    /\ frame' = noFrame
    /\ UNCHANGED <<cpu, queue, m_libretro_bb, m_libretro_bb_idx, device, frontend, duplicates, fences, fence_lost>>

(* ... and PublishFrame, which deletes the fence of a frame nobody took.   *)
PublishFrame ==
    /\ gpc = "publish" /\ gpc' = "done"
    /\ fences' = IF unconsumed THEN fences \ {s_frame.fence} ELSE fences
    /\ s_frame' = frame /\ unconsumed' = TRUE
    /\ frame' = noFrame
    /\ UNCHANGED <<cpu, queue, m_libretro_bb, m_libretro_bb_idx, device, frontend, duplicates, fence_lost>>

Presented ==
    /\ gpc = "done" /\ gpc' = "loop"
    /\ VsyncDone
    /\ UNCHANGED <<cpu, m_libretro_bb, m_libretro_bb_idx, frame, device, handoff, frontend, duplicates, fences>>

(* OnGLContextDestroy's call: AbandonContext(true).                        *)
AbandonContext ==
    /\ AtHead("abandon")
    /\ ring' = Tail(ring)
    /\ device' = "released"
    /\ UNCHANGED <<cpu, s_VsyncSignalListener, gpc, m_libretro_bb, m_libretro_bb_idx, frame, handoff, frontend,
                   duplicates, fences>>

(* GSreopen, which DestroyResources begins; for a context that was         *)
(* replaced, AbandonContext(false) comes first, and leaves everything as   *)
(* it is when the context's display is gone and it cannot be let go of.    *)
(* Nothing looks for a frame on its way.  The fences of a replaced context *)
(* are gone with it.                                                       *)
Reopen ==
    /\ AtHead("reopen")
    /\ ring' = Tail(ring)
    /\ \/ device = "orphaned" /\ UNCHANGED <<gs, s_frame, held, fences, fence_lost>>
       \/ /\ device' = "shared"
          /\ m_libretro_bb' = {} /\ m_libretro_bb_idx' = 0
          /\ s_frame' = Outlived(s_frame) /\ held' = Outlived(held)
          /\ fences' = IF device = "shared" THEN fences ELSE {}
          /\ fence_lost' = (fence_lost \/ (device # "shared" /\ fences # {}))
          /\ UNCHANGED <<gpc, frame>>
    /\ UNCHANGED <<cpu, s_VsyncSignalListener, unconsumed, fpc, run, s_gl_needs_reopen, duplicates, behind>>

-----------------------------------------------------------------------------
(* The frontend's thread.                                                  *)

HasFrame == unconsumed /\ s_frame.texture # -1

(* A call of retro_run, which may have a device to rebuild first; with the *)
(* audio buffer full it only presents.                                     *)
RetroRun ==
    /\ fpc = "out"
    /\ run' = 0
    /\ s_gl_needs_reopen' = FALSE
    /\ IF s_gl_needs_reopen THEN ring' = Append(ring, "reopen") /\ fpc' = "reopen_wait"
                            ELSE UNCHANGED ring /\ fpc' \in {"token", "present"}
    /\ UNCHANGED <<cpu, s_VsyncSignalListener, gs, handoff, held, duplicates, fences, behind>>

(* The wait for the GS thread's call, done or given up.                    *)
CallWait ==
    /\ \/ fpc = "reopen_wait" /\ fpc' = "token"
       \/ fpc = "destroy_wait" /\ fpc' = "no_context"
    /\ UNCHANGED <<cpu, queue, gs, handoff, run, held, s_gl_needs_reopen, duplicates, fences, behind>>

PostToken ==
    /\ fpc = "token" /\ fpc' = "frame_wait"
    /\ s_run_token' = TRUE
    /\ UNCHANGED <<s_frame_ready, cpc, queue, gs, handoff, run, held, s_gl_needs_reopen, duplicates, fences, behind>>

(* The frame is done, and then the GS thread is waited for; or the wait is *)
(* given up.                                                               *)
FrameWait ==
    /\ fpc = "frame_wait"
    /\ fpc' = IF s_frame_ready THEN "gs_wait" ELSE "present"
    /\ s_frame_ready' = FALSE
    /\ UNCHANGED <<s_run_token, cpc, queue, gs, handoff, run, held, s_gl_needs_reopen, duplicates, fences, behind>>

GSWait ==
    /\ fpc = "gs_wait" /\ fpc' = "decide"
    /\ UNCHANGED <<cpu, queue, gs, handoff, run, held, s_gl_needs_reopen, duplicates, fences, behind>>

(* A duplicate frame is spent on another run.                              *)
Decide ==
    /\ fpc = "decide"
    /\ IF run >= MaxSkipped \/ HasFrame \/ duplicates = 0
         THEN fpc' = "present" /\ UNCHANGED <<run, duplicates>>
         ELSE fpc' = "token" /\ run' = run + 1 /\ duplicates' = duplicates - 1
    /\ UNCHANGED <<cpu, queue, gs, handoff, held, s_gl_needs_reopen, fences, behind>>

(* The vsyncs the GS thread has still to do before the CPU thread needs    *)
(* s_frame_mutex.                                                          *)
ToCome ==
    GetCurrentVsyncQueueSize + (IF cpc = "run" THEN 1 ELSE 0) - (IF gpc = "done" THEN 1 ELSE 0)

(* ConsumeFrame: the fence is the caller's now.                            *)
ConsumeFrame ==
    /\ fpc = "present"
    /\ IF HasFrame THEN /\ fpc' = "blit" /\ held' = s_frame
                        /\ s_frame' = [s_frame EXCEPT !.fence = none] /\ unconsumed' = FALSE
                        /\ behind' = (ToCome >= kLibretroBackbuffers)
                   ELSE fpc' = "out" /\ UNCHANGED <<held, s_frame, unconsumed, behind>>
    /\ UNCHANGED <<cpu, queue, gs, run, s_gl_needs_reopen, duplicates, fences, fence_lost>>

(* glWaitSync, glDeleteSync and the blit.                                  *)
Blit ==
    /\ fpc = "blit" /\ fpc' = "out"
    /\ fences' = fences \ {held.fence}
    /\ held' = noFrame /\ behind' = FALSE
    /\ UNCHANGED <<cpu, queue, gs, handoff, run, s_gl_needs_reopen, duplicates>>

(* The frontend destroys its context and makes another one; mostly it does *)
(* not announce the first part.                                            *)
OnGLContextDestroy ==
    /\ fpc = "out" /\ fpc' = "destroy_wait" /\ Calls < MaxCalls
    /\ ring' = Append(ring, "abandon")
    /\ UNCHANGED <<cpu, s_VsyncSignalListener, gs, handoff, run, held, s_gl_needs_reopen, duplicates, fences, behind>>

OnGLContextReset ==
    /\ fpc \in {"out", "no_context"} /\ fpc' = "out" /\ (fpc = "no_context" \/ Calls < MaxCalls)
    /\ s_gl_needs_reopen' = TRUE
    /\ device' = IF device = "released" THEN "released" ELSE "orphaned"
    /\ s_frame' = Outlived(s_frame) /\ frame' = Outlived(frame)
    /\ UNCHANGED <<cpu, queue, gpc, m_libretro_bb, m_libretro_bb_idx, unconsumed, run, held, duplicates, fences,
                   behind, fence_lost>>

(* retro_unload_game, in which the GS is closed before GLLibretro::        *)
(* Shutdown drops the last frame and its fence, and the next game.  A      *)
(* rebuild that is due is not forgotten: the next game's first retro_run   *)
(* does it.                                                                *)
Unload ==
    /\ fpc = "out"
    /\ s_run_token' = FALSE /\ s_frame_ready' = FALSE /\ cpc' = "run"
    /\ ring' = <<>> /\ s_VsyncSignalListener' = FALSE
    /\ gpc' = "loop" /\ m_libretro_bb' = {} /\ m_libretro_bb_idx' = 0 /\ frame' = noFrame /\ device' = "shared"
    /\ s_frame' = noFrame /\ unconsumed' = FALSE
    /\ duplicates' = 0 /\ fences' = {} /\ fence_lost' = FALSE
    /\ UNCHANGED frontend

-----------------------------------------------------------------------------
CPUStep == PostVsyncStart \/ VsyncWait \/ SignalFrame \/ TakeToken

GSStep ==
    \/ FoundEmpty \/ VsyncValve \/ SkipFrame \/ BeginPresent \/ EndPresent
    \/ PublishFrame \/ Presented \/ AbandonContext \/ Reopen

FrontendStep == CallWait \/ PostToken \/ FrameWait \/ GSWait \/ Decide \/ ConsumeFrame \/ Blit

FrontendCall == RetroRun \/ OnGLContextDestroy \/ OnGLContextReset \/ Unload

Next == CPUStep \/ ApplySettings \/ GSStep \/ FrontendStep \/ FrontendCall

Spec == Init /\ [][Next]_vars

-----------------------------------------------------------------------------
(* The types; the vsyncs queued are bounded as in module MTGS.             *)
TypeOK ==
    /\ {s_run_token, s_frame_ready, s_VsyncSignalListener, unconsumed, s_gl_needs_reopen, behind, fence_lost}
         \subseteq BOOLEAN
    /\ cpc \in {"run", "blocked", "pump", "park"}
    /\ ring \in Seq({"vsync", "reopen", "abandon"}) /\ GetCurrentVsyncQueueSize <= VsyncQueueSize + 2
    /\ gpc \in {"loop", "valve", "draw", "publish", "done"} /\ device \in {"shared", "orphaned", "released"}
    /\ m_libretro_bb \subseteq Buffers /\ m_libretro_bb_idx \in Buffers
    /\ s_frame \in Frames /\ held \in Frames /\ frame \in Frames /\ fences \subseteq Fences
    /\ fpc \in {"out", "reopen_wait", "destroy_wait", "no_context", "token", "frame_wait", "gs_wait", "decide",
                "present", "blit"}
    /\ run \in 0 .. MaxSkipped /\ duplicates \in 0 .. MaxCredit

(* Every fence has one owner, whichever frames are dropped and whenever    *)
(* the device is rebuilt: none is leaked ("rather than leaking one per      *)
(* dropped frame"), none is deleted twice or waited for after it was        *)
(* deleted.  Only a context that was replaced with fences in it takes them *)
(* from their owners.  And every variable keeps its type.                  *)
FenceOwnership ==
    LET owned == <<frame.fence, IF unconsumed THEN s_frame.fence ELSE none, held.fence>>
    IN  /\ TypeOK
        /\ ~fence_lost => /\ fences = {owned[i] : i \in 1 .. 3} \ {none}
                          /\ \A i, j \in 1 .. 3 : i # j /\ owned[i] # none => owned[i] # owned[j]

(* The texture retro_run blits out of, or would take next, exists, and the *)
(* GS thread is not drawing into it: "the blit the frontend issues from    *)
(* its own context is not ordered against the GS thread's next frame".     *)
(* That is so for the frames of the device there is, unless the GS thread  *)
(* was a whole round of buffers behind when the frame was taken.           *)
FrameIntact ==
    \A f \in (IF fpc = "blit" /\ ~behind THEN {held} ELSE {}) \cup (IF unconsumed THEN {s_frame} ELSE {}) :
        f.current => f.alive /\ ~(gpc = "draw" /\ m_libretro_bb_idx = f.texture)

=============================================================================
