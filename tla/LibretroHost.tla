---------------------------- MODULE LibretroHost ----------------------------
(***************************************************************************)
(* The libretro frontend of PCEE2 (pcee2-libretro/Libretro.cpp): the       *)
(* frontend's thread, which makes the retro_* calls one after the other,   *)
(* and the persistent CPU thread, which boots a VM per game, executes it   *)
(* and parks between two frames.  They meet in                             *)
(*   - the session handshake (s_boot_requested, s_exit_requested,          *)
(*     s_session_active under s_session_mutex, and the atomic s_running);  *)
(*   - the pacing handshake (s_run_token, s_frame_ready under              *)
(*     s_frame_mutex and s_frame_cv);                                      *)
(*   - the work queue of Host::RunOnCPUThread (s_cpu_work under            *)
(*     s_cpu_work_mutex, and the atomic s_cpu_work_pending);               *)
(*   - the VM's state (VMManager's atomic s_state);                        *)
(*   - the frontend's video context, the ring of the GS thread and the     *)
(*     audio stream, of which only the use by the two threads is modelled. *)
(*                                                                         *)
(* A step is what a thread does to that state between two points where     *)
(* the other one can look: one atomic access, or a critical section.       *)
(* Waiting on s_frame_cv is evaluating the predicate, going to sleep and   *)
(* being woken, because not everything in the predicate is changed under   *)
(* the mutex.  Time is left out: a timed wait may end at any moment.  What *)
(* is dead (a local of a call that has returned, s_gs_open_on_initialize   *)
(* without a VM) is put back to its initial value.                         *)
(***************************************************************************)
EXTENDS Naturals, Sequences

CONSTANTS
    HWModes,          \* the present paths retro_load_game may pick
    MaxSkipped,       \* MAX_SKIPPED_DUPLICATE_FRAMES
    MaxWork,          \* bound of the model on the length of s_cpu_work
    MaxCredit,        \* bound of the model on duplicate frames not yet spent
    OptionsChange,    \* whether core options change while a game runs
    PSXMode,          \* whether a game may switch the IOP to PS1 mode
    DeinitInSession   \* whether retro_deinit may come without retro_unload_game

ASSUME HWAssumption == HWModes \subseteq {"None", "Vulkan", "OpenGL"}
ASSUME BoundsAssumption == MaxSkipped \in Nat /\ MaxWork \in Nat \ {0} /\ MaxCredit \in Nat
ASSUME SwitchAssumption ==
    OptionsChange \in BOOLEAN /\ PSXMode \in BOOLEAN /\ DeinitInSession \in BOOLEAN

VARIABLES
    fpc,                       \* where the frontend's thread is
    cpc,                       \* where the CPU thread is; "none" before it is started
    loaded,                    \* the frontend has a game loaded
    got_frame, run,            \* locals of retro_run
    credit,                    \* s_duplicate_frames - s_duplicate_frames_spent
    s_running, s_session_active, s_boot_requested, s_exit_requested,
    s_cpu_thread_initialized,
    init_ok,                   \* local of CPUThreadMain: CPUThreadInitialize succeeded
    s_run_token, s_frame_ready,
    s_vm_fps_bits,             \* the VM has reported a frame rate
    frame_mutex,               \* holder of s_frame_mutex: "F", "C" or "free"
    s_cpu_work, s_cpu_work_pending,
    done,                      \* the flag a blocking RunOnCPUThread waits for
    batch,                     \* what DrainCPUWork has taken and not yet run
    vm,                        \* VMManager's s_state
    power_off,                 \* ghost: the game that runs has switched the console off
    s_hw_render, s_context_ready, s_gl_context_seen, s_gl_needs_reopen,
    context_seen,              \* ghost: the frontend has reset a context for the game loaded
    gs_open,                   \* MTGS::IsOpen()
    s_gs_open_on_initialize,   \* whether the GS was open before the VM
    vk_device,                 \* VKLibretro::Init.device is set
    stream,                    \* what s_audio_stream points to
    audio_mutex                \* holder of s_audio_stream_mutex

frontend == <<loaded, got_frame, run, credit>>
session  == <<s_running, s_session_active, s_boot_requested, s_exit_requested,
              s_cpu_thread_initialized, init_ok>>
pacing   == <<s_run_token, s_frame_ready, s_vm_fps_bits, frame_mutex>>
work     == <<s_cpu_work, s_cpu_work_pending, done, batch>>
video    == <<s_hw_render, s_context_ready, s_gl_context_seen, s_gl_needs_reopen, context_seen>>
gs       == <<gs_open, s_gs_open_on_initialize, vk_device>>
audio    == <<stream, audio_mutex>>

vars == <<fpc, cpc, frontend, session, pacing, work, vm, power_off, video, gs, audio>>

Init ==
    /\ fpc = "idle" /\ cpc = "none" /\ loaded = FALSE
    /\ got_frame = FALSE /\ run = 0 /\ credit = 0
    /\ s_running = FALSE /\ s_session_active = FALSE
    /\ s_boot_requested = FALSE /\ s_exit_requested = FALSE
    /\ s_cpu_thread_initialized = FALSE /\ init_ok = TRUE
    /\ s_run_token = FALSE /\ s_frame_ready = FALSE /\ s_vm_fps_bits = FALSE
    /\ frame_mutex = "free"
    /\ s_cpu_work = <<>> /\ s_cpu_work_pending = FALSE /\ done = FALSE /\ batch = <<>>
    /\ vm = "Shutdown" /\ power_off = FALSE
    /\ s_hw_render = "None" /\ s_context_ready = FALSE
    /\ s_gl_context_seen = FALSE /\ s_gl_needs_reopen = FALSE /\ context_seen = FALSE
    /\ gs_open = FALSE /\ s_gs_open_on_initialize = FALSE /\ vk_device = FALSE
    /\ stream = "null" /\ audio_mutex = "free"

-----------------------------------------------------------------------------
Joinable == cpc # "none"
HWRenderActive == s_hw_render # "None"
HasValidVM == vm \in {"Running", "Paused", "Resetting"}

(* s_frame_cv.notify_all() wakes the CPU thread if it sleeps.              *)
NotifyFrame == cpc' = IF cpc = "parked" THEN "woken" ELSE cpc

-----------------------------------------------------------------------------
(* The frontend's thread.                                                  *)

FGoto(here, there) == fpc = here /\ fpc' = there

(* Mutant: the context of the last game counts for this one.               *)
LoadGameReady(hw) ==
    /\ fpc = "idle" /\ ~loaded /\ frame_mutex = "free"
    /\ loaded' = TRUE
    /\ s_hw_render' = hw
    /\ context_seen' = FALSE
    /\ s_run_token' = FALSE /\ s_frame_ready' = FALSE
    /\ credit' = 0
    /\ s_running' = TRUE /\ s_boot_requested' = TRUE /\ s_session_active' = TRUE
    /\ cpc' = IF Joinable THEN cpc ELSE "init"
    /\ fpc' = IF hw = "Vulkan" THEN "load_wait" ELSE "idle"
    /\ UNCHANGED <<s_context_ready, got_frame, run, s_exit_requested, s_cpu_thread_initialized,
                   init_ok, frame_mutex,
                   work, vm, power_off, s_gl_context_seen, s_gl_needs_reopen, gs, s_vm_fps_bits, audio>>

(* retro_load_game, from the reset of the pacing state on.  The CPU thread *)
(* looks at none of it before s_boot_requested is set.                     *)
LoadGame(hw) ==
    /\ fpc = "idle" /\ ~loaded /\ frame_mutex = "free"
    /\ loaded' = TRUE
    /\ s_hw_render' = hw
    /\ s_context_ready' = IF hw = "None" THEN s_context_ready ELSE FALSE
    /\ context_seen' = FALSE
    /\ s_run_token' = FALSE /\ s_frame_ready' = FALSE
    /\ credit' = 0
    /\ s_running' = TRUE /\ s_boot_requested' = TRUE /\ s_session_active' = TRUE
    /\ cpc' = IF Joinable THEN cpc ELSE "init"
    /\ fpc' = IF hw = "Vulkan" THEN "load_wait" ELSE "idle"
    /\ UNCHANGED <<got_frame, run, s_exit_requested, s_cpu_thread_initialized, init_ok, frame_mutex,
                   work, vm, power_off, s_gl_context_seen, s_gl_needs_reopen, gs, s_vm_fps_bits, audio>>

LoadWait ==
    /\ FGoto("load_wait", "negotiate")
    /\ s_cpu_thread_initialized
    /\ UNCHANGED <<cpc, frontend, session, pacing, work, vm, power_off, video, gs, audio>>

(* OpenGSOnNegotiatedDevice, called by the frontend's Vulkan negotiation:  *)
(* a GS that is not open is opened, on the frontend's thread, and makes    *)
(* the device the frontend is answered with, or it cannot be opened and    *)
(* the frontend is told so.                                                *)
Negotiate ==
    /\ FGoto("negotiate", "idle")
    /\ \/ gs_open' = TRUE /\ vk_device' = (vk_device \/ ~gs_open)
       \/ ~gs_open /\ UNCHANGED <<gs_open, vk_device>>
    /\ UNCHANGED <<cpc, frontend, session, pacing, work, vm, power_off, video, s_gs_open_on_initialize, audio>>

(* OnContextReset, and OnGLContextReset with its fallback to the readback  *)
(* path when the context cannot be captured.  A Vulkan frontend that was   *)
(* given no device falls back to one of its own and resets its context all *)
(* the same; one without the Vulkan interface changes nothing.             *)
ContextReset ==
    /\ fpc = "idle" /\ loaded /\ HWRenderActive
    /\ s_context_ready' = TRUE /\ context_seen' = TRUE
    /\ \/ /\ s_hw_render = "OpenGL"
          /\ s_gl_needs_reopen' = (s_gl_needs_reopen \/ s_gl_context_seen)
          /\ s_gl_context_seen' = TRUE
          /\ UNCHANGED s_hw_render
       \/ /\ s_hw_render = "OpenGL"
          /\ s_hw_render' = "None"
          /\ UNCHANGED <<s_gl_context_seen, s_gl_needs_reopen>>
       \/ /\ s_hw_render = "Vulkan"
          /\ UNCHANGED <<s_hw_render, s_gl_context_seen, s_gl_needs_reopen>>
    /\ UNCHANGED <<fpc, cpc, frontend, session, pacing, work, vm, power_off, gs, audio>>

(* OnContextDestroy, OnGLContextDestroy: the frontend's thread puts a      *)
(* packet into the GS ring and waits for it, for a bounded time.           *)
ContextDestroy ==
    /\ fpc = "idle" /\ loaded /\ HWRenderActive
    /\ s_context_ready' = FALSE
    /\ fpc' = IF gs_open THEN "ring_destroy" ELSE "idle"
    /\ UNCHANGED <<cpc, frontend, session, pacing, work, vm, power_off,
                   s_hw_render, s_gl_context_seen, s_gl_needs_reopen, context_seen, gs, audio>>

RingWritten ==
    /\ \/ FGoto("ring_destroy", "idle")
       \/ FGoto("ring_av", "run_input")
       \/ FGoto("ring_reopen", "run_token")
    /\ UNCHANGED <<cpc, frontend, session, pacing, work, vm, power_off, video, gs, audio>>

-----------------------------------------------------------------------------
(* Host::RunOnCPUThread, called from the frontend's thread.                *)

Push(w) ==
    /\ Len(s_cpu_work) < MaxWork
    /\ s_cpu_work' = Append(s_cpu_work, w)
    /\ s_cpu_work_pending' = TRUE

(* retro_reset ("reset"); retro_serialize, retro_unserialize, InsertDisc   *)
(* ("state").                                                              *)
BlockingCall(w) ==
    /\ FGoto("idle", "call_notify")
    /\ loaded /\ s_running
    /\ Push(w)
    /\ done' = FALSE
    /\ UNCHANGED <<cpc, frontend, session, pacing, batch, vm, power_off, video, gs, audio>>

CallNotify ==
    /\ \/ FGoto("call_notify", "call_wait")
       \/ FGoto("options_notify", "run_av")
    /\ NotifyFrame
    /\ UNCHANGED <<frontend, session, pacing, work, vm, power_off, video, gs, audio>>

CallReturn ==
    /\ FGoto("call_wait", "idle")
    /\ done /\ done' = FALSE
    /\ UNCHANGED <<cpc, frontend, session, pacing, s_cpu_work, s_cpu_work_pending, batch,
                   vm, power_off, video, gs, audio>>

-----------------------------------------------------------------------------
(* retro_run.                                                              *)

RunBegin ==
    /\ fpc = "idle" /\ loaded
    /\ \/ /\ fpc' = "run_av"
          /\ UNCHANGED work
       \/ /\ OptionsChange /\ s_running
          /\ Push("settings")
          /\ fpc' = "options_notify"
          /\ UNCHANGED <<done, batch>>
    /\ UNCHANGED <<cpc, frontend, session, pacing, vm, power_off, video, gs, audio>>

(* UpdateAVInfoIfChanged, once there is a frame rate to announce, drains   *)
(* the GS thread on the HW render paths.                                   *)
RunAVInfo ==
    /\ fpc = "run_av"
    /\ fpc' \in {"run_input"} \cup (IF s_vm_fps_bits /\ HWRenderActive /\ gs_open THEN {"ring_av"} ELSE {})
    /\ UNCHANGED <<cpc, frontend, session, pacing, work, vm, power_off, video, gs, audio>>

(* UpdateInput, then the black frame of a session without a VM, then the   *)
(* rebuild of the GS device for a replaced GL context.                     *)
RunInput ==
    /\ fpc = "run_input"
    /\ fpc' = IF ~s_running THEN "idle"
              ELSE IF s_gl_needs_reopen /\ gs_open THEN "ring_reopen" ELSE "run_token"
    /\ s_gl_needs_reopen' = (s_gl_needs_reopen /\ ~s_running)
    /\ UNCHANGED <<cpc, frontend, session, pacing, work, vm, power_off,
                   s_hw_render, s_context_ready, s_gl_context_seen, context_seen, gs, audio>>

(* FrontendAheadOfAudio() holds the frame back; else a run token is posted *)
(* and s_frame_cv.wait_for releases the mutex.                             *)
RunToken ==
    /\ frame_mutex = "free"
    /\ \/ /\ FGoto("run_token", "run_audio")
          /\ frame_mutex' = "F"
          /\ got_frame' = FALSE
          /\ UNCHANGED <<cpc, run, s_run_token>>
       \/ /\ fpc \in {"run_token", "run_again"}
          /\ fpc' = "run_wait"
          /\ s_run_token' = TRUE
          /\ NotifyFrame
          /\ run' = IF fpc = "run_token" THEN 0 ELSE run
          /\ UNCHANGED <<frame_mutex, got_frame>>
    /\ UNCHANGED <<loaded, credit, session, s_frame_ready, work, vm, power_off, video, gs, s_vm_fps_bits, audio>>

(* The frame is ready, or 200 ms are over.                                 *)
RunWake ==
    /\ FGoto("run_wait", "run_decide")
    /\ frame_mutex = "free"
    /\ frame_mutex' = "F"
    /\ got_frame' = s_frame_ready
    /\ s_frame_ready' = FALSE
    /\ UNCHANGED <<cpc, loaded, run, credit, session, s_run_token, work, vm, power_off, video, gs, s_vm_fps_bits, audio>>

(* Waiting, without the mutex, for the GS thread to take the vsync.        *)
RunVsyncWait ==
    /\ \/ /\ FGoto("run_decide", "run_vsync")
          /\ got_frame /\ s_running /\ gs_open
          /\ frame_mutex' = "free"
       \/ /\ FGoto("run_vsync", "run_decided")
          /\ frame_mutex = "free"
          /\ frame_mutex' = "F"
    /\ UNCHANGED <<cpc, frontend, session, s_run_token, s_frame_ready,
                   work, vm, power_off, video, gs, s_vm_fps_bits, audio>>

(* Present, or spend a reported duplicate on another frame of emulation;   *)
(* the GS may have a frame waiting in either case.                         *)
RunDecide ==
    /\ fpc \in {"run_decide", "run_decided"}
    /\ \/ /\ fpc' = "run_audio"
          /\ UNCHANGED <<run, credit, frame_mutex>>
       \/ /\ got_frame /\ run < MaxSkipped /\ credit > 0
          /\ credit' = credit - 1
          /\ run' = run + 1
          /\ frame_mutex' = "free"
          /\ fpc' = "again_audio"
    /\ UNCHANGED <<cpc, loaded, got_frame, session, s_run_token,
                   s_frame_ready, work, vm, power_off, video, gs, s_vm_fps_bits, audio>>

(* OutputAudio pulls from the stream under s_audio_stream_mutex, unless    *)
(* there is none or the frontend's buffer is full.  At the end of          *)
(* retro_run s_frame_mutex is still held.                                  *)
OutputAudio ==
    /\ FGoto("run_audio", "run_pull") \/ FGoto("again_audio", "again_pull")
    /\ stream # "null"
    /\ audio_mutex = "free"
    /\ audio_mutex' = "F"
    /\ UNCHANGED <<cpc, frontend, session, pacing, work, vm, power_off, video, gs, stream>>

OutputAudioEnd ==
    /\ \/ /\ fpc \in {"run_audio", "run_pull"}
          /\ fpc' = "idle"
          /\ frame_mutex' = "free"
          /\ got_frame' = FALSE /\ run' = 0
       \/ /\ fpc \in {"again_audio", "again_pull"}
          /\ fpc' = "run_again"
          /\ UNCHANGED <<frame_mutex, got_frame, run>>
    /\ audio_mutex' = IF fpc \in {"run_pull", "again_pull"} THEN "free" ELSE audio_mutex
    /\ UNCHANGED <<cpc, loaded, credit, session, s_run_token, s_frame_ready,
                   work, vm, power_off, video, gs, s_vm_fps_bits, stream>>

-----------------------------------------------------------------------------
(* retro_unload_game, retro_deinit and ShutdownCoreAtExit: three ways to   *)
(* wind a session down.  "unload", "deinit" and "exit" name the places.    *)

UnloadGame ==
    /\ FGoto("idle", "unload_check") /\ loaded /\ Joinable
    /\ s_running' = FALSE
    /\ UNCHANGED <<cpc, frontend, s_session_active, s_boot_requested, s_exit_requested,
                   s_cpu_thread_initialized, init_ok, pacing, work, vm, power_off, video, gs, audio>>

(* s_exit_requested is set, then s_running is cleared.                     *)
Deinit ==
    /\ fpc = "idle" /\ Joinable
    /\ loaded => DeinitInSession
    /\ fpc' = "deinit_running"
    /\ s_exit_requested' = TRUE
    /\ UNCHANGED <<cpc, frontend, s_running, s_session_active, s_boot_requested,
                   s_cpu_thread_initialized, init_ok, pacing, work, vm, power_off, video, gs, audio>>

AtExit ==
    /\ fpc = "idle" /\ Joinable
    /\ fpc' = "exit_running"
    /\ s_exit_requested' = TRUE
    /\ UNCHANGED <<cpc, frontend, s_running, s_session_active, s_boot_requested,
                   s_cpu_thread_initialized, init_ok, pacing, work, vm, power_off, video, gs, audio>>

StopRunning ==
    /\ FGoto("deinit_running", "deinit_token") \/ FGoto("exit_running", "exit_check")
    /\ s_running' = FALSE
    /\ UNCHANGED <<cpc, frontend, s_session_active, s_boot_requested, s_exit_requested,
                   s_cpu_thread_initialized, init_ok, pacing, work, vm, power_off, video, gs, audio>>

(* if (HasValidVM()) SetState(Stopping): a load, then a store.             *)
CheckVM ==
    /\ \/ /\ fpc = "unload_check"
          /\ fpc' = IF HasValidVM THEN "unload_stop" ELSE "unload_token"
       \/ /\ fpc = "exit_check"
          /\ fpc' = IF HasValidVM THEN "exit_stop" ELSE "exit_token"
    /\ UNCHANGED <<cpc, frontend, session, pacing, work, vm, power_off, video, gs, audio>>

StopVM ==
    /\ FGoto("unload_stop", "unload_token") \/ FGoto("exit_stop", "exit_token")
    /\ vm' = "Stopping"
    /\ UNCHANGED <<power_off, cpc, frontend, session, pacing, work, video, gs, audio>>

(* Mutant: the token without the notify.                                   *)
ReleaseSilently ==
    /\ \/ FGoto("unload_token", "unload_wait")
       \/ FGoto("deinit_token", "deinit_join")
       \/ FGoto("exit_token", "exit_join")
    /\ frame_mutex = "free"
    /\ s_run_token' = TRUE
    /\ UNCHANGED <<cpc, frontend, session, s_frame_ready, frame_mutex,
                   work, vm, power_off, video, gs, s_vm_fps_bits, audio>>

(* The pacing handshake is broken with a token nobody asked for.           *)
ReleaseToken ==
    /\ \/ FGoto("unload_token", "unload_wait")
       \/ FGoto("deinit_token", "deinit_join")
       \/ FGoto("exit_token", "exit_join")
    /\ frame_mutex = "free"
    /\ s_run_token' = TRUE
    /\ NotifyFrame
    /\ UNCHANGED <<frontend, session, s_frame_ready, frame_mutex,
                   work, vm, power_off, video, gs, s_vm_fps_bits, audio>>

(* Mutant: the end of the session is not waited for.                       *)
UnloadEarly ==
    /\ FGoto("unload_wait", "idle")
    /\ loaded' = FALSE
    /\ stream' = "null"
    /\ s_hw_render' = "None"
    /\ s_context_ready' = (s_context_ready /\ ~HWRenderActive)
    /\ UNCHANGED <<cpc, got_frame, run, credit, session, pacing, work, vm, power_off, s_gl_context_seen,
                   s_gl_needs_reopen, context_seen, gs, audio_mutex>>

UnloadDone ==
    /\ FGoto("unload_wait", "idle")
    /\ ~s_session_active
    /\ loaded' = FALSE
    /\ stream' = "null"
    /\ s_hw_render' = "None"
    /\ s_context_ready' = (s_context_ready /\ ~HWRenderActive)
    /\ s_gl_context_seen' = (s_gl_context_seen /\ s_hw_render # "OpenGL")
    /\ vk_device' = (vk_device /\ s_hw_render # "Vulkan")
    /\ UNCHANGED <<cpc, got_frame, run, credit, session, pacing, work, vm, power_off,
                   s_gl_needs_reopen, context_seen, gs_open, s_gs_open_on_initialize, audio_mutex>>

(* s_cpu_thread.join() returns.                                            *)
Joined ==
    /\ cpc = "exited"
    /\ cpc' = "none" /\ init_ok' = TRUE
    /\ \/ /\ FGoto("deinit_join", "idle")
          /\ s_exit_requested' = FALSE
          /\ loaded' = FALSE
       \/ /\ FGoto("exit_join", "gone")
          /\ UNCHANGED <<s_exit_requested, loaded>>
    /\ UNCHANGED <<got_frame, run, credit, s_running, s_session_active, s_boot_requested,
                   s_cpu_thread_initialized, pacing, work, vm, power_off, video, gs, audio>>

-----------------------------------------------------------------------------
(* The CPU thread: CPUThreadMain.                                          *)

CGoto(here, there) == cpc = here /\ cpc' = there

CPUThreadInitialize ==
    /\ CGoto("init", "session_wait")
    /\ s_cpu_thread_initialized' = TRUE /\ init_ok' \in BOOLEAN
    /\ UNCHANGED <<fpc, frontend, s_running, s_session_active, s_boot_requested, s_exit_requested,
                   pacing, work, vm, power_off, video, gs, audio>>

(* CPUThreadShutdown ends the GS thread, whoever opened it.  A thread that *)
(* could not be initialized boots nothing.                                 *)
SessionWait ==
    /\ cpc = "session_wait"
    /\ \/ /\ s_exit_requested
          /\ cpc' = "exited"
          /\ gs_open' = (gs_open /\ ~init_ok)
          /\ UNCHANGED s_boot_requested
       \/ /\ ~s_exit_requested /\ s_boot_requested
          /\ cpc' = IF init_ok THEN "context_wait" ELSE "end_running"
          /\ s_boot_requested' = FALSE
          /\ UNCHANGED gs_open
    /\ UNCHANGED <<fpc, frontend, s_running, s_session_active, s_exit_requested,
                   s_cpu_thread_initialized, init_ok, pacing, work, vm, power_off, video,
                   s_gs_open_on_initialize, vk_device, audio>>

ContextWait ==
    /\ CGoto("context_wait", "vm_init")
    /\ ~HWRenderActive \/ s_context_ready \/ ~s_running
    /\ UNCHANGED <<fpc, frontend, session, pacing, work, vm, power_off, video, gs, audio>>

(* VMManager::Initialize refuses a VM whose state is not Shutdown, opens   *)
(* the GS if it is not open, and may fail before or after SPU2 has its     *)
(* output stream; it then closes what it has opened.                       *)
VMInitialize ==
    /\ cpc = "vm_init"
    /\ IF vm = "Shutdown"
         THEN /\ vm' = "Initializing"
              /\ cpc' = "vm_initializing"
              /\ s_gs_open_on_initialize' = gs_open
              /\ gs_open' = TRUE
         ELSE /\ cpc' = "end_running"
              /\ UNCHANGED <<vm, s_gs_open_on_initialize, gs_open>>
    /\ UNCHANGED <<fpc, frontend, session, pacing, work, power_off, video, vk_device, audio>>

VMInitialized ==
    /\ cpc = "vm_initializing"
    /\ \/ /\ vm' = "Paused" /\ stream' = "live"
          /\ cpc' = "set_running"
          /\ UNCHANGED <<gs_open, s_gs_open_on_initialize>>
       \/ /\ vm' = "Shutdown" /\ stream' \in {stream, "freed"}
          /\ cpc' = "end_running"
          /\ gs_open' = s_gs_open_on_initialize
          /\ s_gs_open_on_initialize' = FALSE
    /\ UNCHANGED <<fpc, frontend, session, pacing, work, power_off, video, vk_device, audio_mutex>>

SetRunning ==
    /\ CGoto("set_running", "loop")
    /\ vm' = "Running"
    /\ UNCHANGED <<fpc, frontend, session, pacing, work, power_off, video, gs, audio>>

(* while (s_running): a reset asked for is carried out, any other state    *)
(* but Running leaves the loop.                                            *)
Loop ==
    /\ cpc = "loop"
    /\ cpc' = IF s_running THEN "loop_state" ELSE "vm_shutdown"
    /\ UNCHANGED <<fpc, frontend, session, pacing, work, vm, power_off, video, gs, audio>>

(* Mutant: a reset ends the loop.                                          *)
LoopStateNoReset ==
    /\ cpc = "loop_state"
    /\ cpc' = IF vm = "Running" THEN "execute" ELSE "vm_shutdown"
    /\ UNCHANGED <<fpc, frontend, session, pacing, work, vm, power_off, video, gs, audio>>

LoopState ==
    /\ cpc = "loop_state"
    /\ cpc' = CASE vm = "Resetting" -> "reset_lock"
                [] vm = "Running"   -> "execute"
                [] OTHER            -> "vm_shutdown"
    /\ UNCHANGED <<fpc, frontend, session, pacing, work, vm, power_off, video, gs, audio>>

(* Mutant: the reset does not take s_audio_stream_mutex.                   *)
ResetUnlocked ==
    /\ CGoto("reset_lock", "resetting")
    /\ stream' \in {stream, "freed"}
    /\ UNCHANGED <<fpc, frontend, session, pacing, work, vm, power_off, video, gs, audio_mutex>>

(* VMManager::Reset with the state Resetting, under s_audio_stream_mutex.  *)
(* hwReset replaces the stream if the game had changed its sample rate.    *)
ResetLock ==
    /\ CGoto("reset_lock", "resetting")
    /\ audio_mutex = "free"
    /\ audio_mutex' = "C"
    /\ stream' \in {stream, "freed"}
    /\ UNCHANGED <<fpc, frontend, session, pacing, work, vm, power_off, video, gs>>

(* Mutant: the VM is not set Running again.                                *)
ResettingForGood ==
    /\ CGoto("resetting", "reset_unlock")
    /\ stream' = "live"
    /\ UNCHANGED <<fpc, frontend, session, pacing, work, vm, power_off, video, gs, audio_mutex>>

Resetting ==
    /\ cpc = "resetting"
    /\ stream' = "live"
    /\ cpc' = IF vm = "Resetting" THEN "reset_store" ELSE "reset_unlock"
    /\ UNCHANGED <<fpc, frontend, session, pacing, work, vm, power_off, video, gs, audio_mutex>>

ResetEnd ==
    /\ cpc \in {"reset_store", "reset_unlock"}
    /\ vm' = IF cpc = "reset_store" THEN "Running" ELSE vm
    /\ audio_mutex' = "free"
    /\ cpc' = "loop"
    /\ UNCHANGED <<fpc, frontend, session, pacing, work, power_off, video, gs, stream>>

(* VMManager::Execute: the EE runs until vsync, where it pumps messages,   *)
(* or until it sees that the VM is not Running any more.                   *)
Execute ==
    /\ cpc = "execute"
    /\ cpc' \in {"pump"} \cup (IF vm = "Running" THEN {} ELSE {"loop"})
    /\ UNCHANGED <<fpc, frontend, session, pacing, work, vm, power_off, video, gs, audio>>

(* sceCdPowerOff: the game switches the console off.  Host's answer stores *)
(* Stopping on the CPU thread and leaves s_running to the end of the       *)
(* session; the EE goes on until it tests the state.                       *)
PowerOff ==
    /\ cpc = "execute"
    /\ vm' = "Stopping" /\ power_off' = TRUE
    /\ UNCHANGED <<fpc, cpc, frontend, session, pacing, work, video, gs, audio>>

(* A game enters PS1 mode: SPU2::Reset(true) replaces the output stream.   *)
EnterPSXMode ==
    /\ PSXMode
    /\ \/ CGoto("execute", "psx_mode") /\ stream' = "freed"
       \/ CGoto("psx_mode", "execute") /\ stream' = "live"
    /\ UNCHANGED <<fpc, frontend, session, pacing, work, vm, power_off, video, gs, audio_mutex>>

-----------------------------------------------------------------------------
(* Host::PumpMessagesOnCPUThread, on the CPU thread at every vsync.        *)

(* DrainCPUWork takes the whole queue ...                                  *)
Drain ==
    /\ CGoto("pump", "pump_work") \/ CGoto("park_drain", "park_work")
    /\ batch' = s_cpu_work
    /\ s_cpu_work' = <<>>
    /\ s_cpu_work_pending' = FALSE
    /\ UNCHANGED <<fpc, frontend, session, pacing, done, vm, power_off, video, gs, audio>>

(* ... and runs it.  VMManager::Reset of a running VM only asks for a      *)
(* reset, that of a VM already asked to reset, or switched off, does it on *)
(* the spot; a changed audio option makes ApplySettings replace the        *)
(* stream; blocking work tells its caller.                                 *)
RunWork ==
    /\ cpc \in {"pump_work", "park_work"} /\ batch # <<>>
    /\ \/ /\ Head(batch) \in {"state", "reset"}
          /\ Head(batch) = "reset" => vm = "Running"
          /\ vm' = IF Head(batch) = "reset" THEN "Resetting" ELSE vm
          /\ done' = TRUE
          /\ batch' = Tail(batch)
          /\ UNCHANGED stream
       \/ /\ Head(batch) = "reset" /\ vm # "Running"
          /\ batch' = <<"reset_now">> \o Tail(batch)
          /\ stream' \in {stream, "freed"}
          /\ UNCHANGED <<vm, done>>
       \/ /\ Head(batch) = "reset_now"
          /\ stream' = "live"
          /\ vm' = IF vm = "Resetting" THEN "Running" ELSE vm
          /\ done' = TRUE
          /\ batch' = Tail(batch)
       \/ /\ Head(batch) = "settings"
          /\ \/ batch' = Tail(batch) /\ UNCHANGED stream
             \/ batch' = <<"new_stream">> \o Tail(batch) /\ stream' = "freed"
          /\ UNCHANGED <<vm, done>>
       \/ /\ Head(batch) = "new_stream"
          /\ stream' = "live"
          /\ batch' = Tail(batch)
          /\ UNCHANGED <<vm, done>>
    /\ UNCHANGED <<fpc, cpc, frontend, session, pacing,
                   s_cpu_work, s_cpu_work_pending, power_off, video, gs, audio_mutex>>

(* Report the frame rate, signal the frame and keep s_frame_mutex, unless  *)
(* the session is over.                                                    *)
SignalFrame ==
    /\ cpc = "pump_work" /\ batch = <<>>
    /\ \/ /\ ~s_running
          /\ cpc' = "pumped"
          /\ UNCHANGED <<s_vm_fps_bits, s_frame_ready, frame_mutex>>
       \/ /\ s_running /\ frame_mutex = "free"
          /\ frame_mutex' = "C"
          /\ s_vm_fps_bits' = TRUE
          /\ s_frame_ready' = TRUE
          /\ cpc' = "park_test"
    /\ UNCHANGED <<fpc, frontend, session, s_run_token, work, vm, power_off, video, gs, audio>>

(* The predicate of s_frame_cv.wait, evaluated under the mutex.            *)
ParkTest ==
    /\ cpc = "park_test"
    /\ IF s_cpu_work_pending
         THEN cpc' = "park_drain" /\ frame_mutex' = "free" /\ UNCHANGED s_run_token
       ELSE IF s_run_token \/ ~s_running
         THEN cpc' = "pumped" /\ frame_mutex' = "free" /\ s_run_token' = FALSE
       ELSE cpc' = "park_sleep" /\ UNCHANGED <<frame_mutex, s_run_token>>
    /\ UNCHANGED <<fpc, frontend, session, s_frame_ready, work, vm, power_off, video, gs, s_vm_fps_bits, audio>>

(* It did not hold: release the mutex and sleep, in one step.              *)
ParkSleep ==
    /\ CGoto("park_sleep", "parked")
    /\ frame_mutex' = "free"
    /\ UNCHANGED <<fpc, frontend, session, s_run_token, s_frame_ready,
                   work, vm, power_off, video, gs, s_vm_fps_bits, audio>>

(* Mutant: the mutex is not taken again.                                   *)
ParkUnlocked ==
    /\ CGoto("woken", "park_test") \/ (CGoto("park_work", "park_test") /\ batch = <<>>)
    /\ UNCHANGED <<fpc, frontend, session, pacing, work, vm, power_off, video, gs, audio>>

(* Woken by a notify, or back from the work done while parked.             *)
ParkLock ==
    /\ CGoto("woken", "park_test") \/ (CGoto("park_work", "park_test") /\ batch = <<>>)
    /\ frame_mutex = "free"
    /\ frame_mutex' = "C"
    /\ UNCHANGED <<fpc, frontend, session, s_run_token, s_frame_ready,
                   work, vm, power_off, video, gs, s_vm_fps_bits, audio>>

(* Back in the EE, which tests IsExecutionInterrupted().                   *)
Pumped ==
    /\ cpc = "pumped"
    /\ cpc' = IF vm = "Running" THEN "execute" ELSE "loop"
    /\ UNCHANGED <<fpc, frontend, session, pacing, work, vm, power_off, video, gs, audio>>

-----------------------------------------------------------------------------
(* The end of a session on the CPU thread.                                 *)

VMShutdown ==
    /\ \/ /\ CGoto("vm_shutdown", "vm_closing")
          /\ vm' = "Stopping"
          /\ UNCHANGED <<gs_open, s_gs_open_on_initialize, stream>>
       \/ /\ CGoto("vm_closing", "end_running")
          /\ vm' = "Shutdown"
          /\ gs_open' = s_gs_open_on_initialize
          /\ s_gs_open_on_initialize' = FALSE
          /\ stream' = "freed"
    /\ UNCHANGED <<fpc, frontend, session, pacing, work, power_off, video, vk_device, audio_mutex>>

EndRunning ==
    /\ CGoto("end_running", "end_frame")
    /\ s_running' = FALSE /\ power_off' = FALSE
    /\ UNCHANGED <<fpc, frontend, s_session_active, s_boot_requested, s_exit_requested,
                   s_cpu_thread_initialized, init_ok, pacing, work, vm, video, gs, audio>>

EndFrame ==
    /\ CGoto("end_frame", "end_session")
    /\ frame_mutex = "free"
    /\ s_frame_ready' = TRUE
    /\ UNCHANGED <<fpc, frontend, session, s_run_token, frame_mutex,
                   work, vm, power_off, video, gs, s_vm_fps_bits, audio>>

EndSession ==
    /\ CGoto("end_session", "session_wait")
    /\ s_session_active' = FALSE
    /\ UNCHANGED <<fpc, frontend, s_running, s_boot_requested, s_exit_requested,
                   s_cpu_thread_initialized, init_ok, pacing, work, vm, power_off, video, gs, audio>>

-----------------------------------------------------------------------------
(* The GS thread drops a frame as a duplicate: DuplicateFrameCallback,     *)
(* which is set while a game is loaded.                                    *)
DuplicateFrame ==
    /\ gs_open /\ loaded /\ credit < MaxCredit
    /\ credit' = credit + 1
    /\ UNCHANGED <<fpc, cpc, loaded, got_frame, run, session,
                   pacing, work, vm, power_off, video, gs, audio>>

-----------------------------------------------------------------------------
(* What the frontend may begin between two calls ...                       *)
FrontendCall ==
    \/ \E hw \in HWModes : LoadGame(hw)
    \/ ContextReset \/ ContextDestroy
    \/ \E w \in {"reset", "state"} : BlockingCall(w)
    \/ RunBegin \/ UnloadGame \/ Deinit \/ AtExit

(* ... and how a call goes on.                                             *)
FrontendStep ==
    \/ LoadWait \/ Negotiate \/ RingWritten \/ CallNotify \/ CallReturn
    \/ RunAVInfo \/ RunInput \/ RunToken \/ RunWake \/ RunVsyncWait \/ RunDecide
    \/ OutputAudio \/ OutputAudioEnd
    \/ StopRunning \/ CheckVM \/ StopVM \/ ReleaseToken \/ UnloadDone \/ Joined

CPUStep ==
    \/ CPUThreadInitialize \/ SessionWait \/ ContextWait \/ VMInitialize \/ VMInitialized
    \/ SetRunning \/ Loop \/ LoopState \/ ResetLock \/ Resetting \/ ResetEnd
    \/ Execute \/ PowerOff \/ EnterPSXMode
    \/ Drain \/ RunWork \/ SignalFrame \/ ParkTest \/ ParkSleep \/ ParkLock \/ Pumped
    \/ VMShutdown \/ EndRunning \/ EndFrame \/ EndSession

Next == FrontendCall \/ FrontendStep \/ CPUStep \/ DuplicateFrame

Spec == Init /\ [][Next]_vars

(* The steps that take a mutex the other thread may hold time and again,   *)
(* and, for the CPU thread, a game's way to its next vsync.                *)
CPULocks == SignalFrame \/ ParkLock \/ EndFrame \/ ResetLock \/ Execute

FrontendLocks == RunToken \/ RunWake \/ RunVsyncWait \/ ReleaseToken

(* Both threads are scheduled, a mutex both want is not refused to one of  *)
(* them for ever, a game reaches its next vsync, and wait_for times out.   *)
(* The frontend is not obliged to call anything.                           *)
Fairness ==
    /\ WF_vars(FrontendStep) /\ SF_vars(FrontendLocks)
    /\ WF_vars(CPUStep) /\ SF_vars(CPULocks)

FairSpec == Spec /\ Fairness

-----------------------------------------------------------------------------
FrontendPC == {"idle", "load_wait", "negotiate", "ring_destroy", "ring_av", "ring_reopen",
               "call_notify", "call_wait", "options_notify", "run_av", "run_input", "run_token",
               "run_wait", "run_decide", "run_vsync", "run_decided", "run_audio", "run_pull",
               "again_audio", "again_pull", "run_again", "unload_check", "unload_stop",
               "unload_token", "unload_wait", "deinit_running", "deinit_token", "deinit_join",
               "exit_running", "exit_check", "exit_stop", "exit_token", "exit_join", "gone"}

CPUPC == {"none", "init", "session_wait", "context_wait", "vm_init", "vm_initializing",
          "set_running", "loop", "loop_state", "reset_lock", "resetting", "reset_store",
          "reset_unlock", "execute", "psx_mode", "pump", "pump_work", "park_test", "park_sleep",
          "parked", "woken", "park_drain", "park_work", "pumped", "vm_shutdown", "vm_closing",
          "end_running", "end_frame", "end_session", "exited"}

VMStates == {"Shutdown", "Initializing", "Running", "Paused", "Resetting", "Stopping"}

Work == {"reset", "state", "settings", "reset_now", "new_stream"}

(* The types; and a mutex has at most one holder, the thread that is in    *)
(* its critical section.                                                   *)
TypeOK ==
    /\ fpc \in FrontendPC /\ cpc \in CPUPC
    /\ {loaded, got_frame, s_running, s_session_active, s_boot_requested, s_exit_requested,
        s_cpu_thread_initialized, init_ok, s_run_token, s_frame_ready, s_vm_fps_bits,
        s_cpu_work_pending, done,
        s_context_ready, s_gl_context_seen, s_gl_needs_reopen, gs_open,
        s_gs_open_on_initialize, vk_device, power_off, context_seen} \subseteq BOOLEAN
    /\ run \in 0 .. MaxSkipped /\ credit \in 0 .. MaxCredit
    /\ s_cpu_work \in Seq(Work) /\ Len(s_cpu_work) <= MaxWork
    /\ batch \in Seq(Work) /\ Len(batch) <= MaxWork
    /\ vm \in VMStates
    /\ s_hw_render \in {"None", "Vulkan", "OpenGL"}
    /\ stream \in {"null", "live", "freed"}
    /\ frame_mutex = CASE fpc \in {"run_decide", "run_decided", "run_audio", "run_pull"} -> "F"
                       [] cpc \in {"park_test", "park_sleep"} -> "C"
                       [] OTHER -> "free"
    /\ audio_mutex = CASE fpc \in {"run_pull", "again_pull"} -> "F"
                       [] cpc \in {"resetting", "reset_store", "reset_unlock"} -> "C"
                       [] OTHER -> "free"

(* CPUThreadMain tears the VM down only when it is told to, by the         *)
(* frontend or by the game that runs: no reset, no work, no timing of the  *)
(* two and no request left over from an earlier game makes it leave its    *)
(* loop.                                                                   *)
VMStopsOnlyOnRequest == cpc \in {"vm_shutdown", "vm_closing"} => ~s_running \/ power_off

(* When retro_unload_game has returned the CPU thread is between sessions: *)
(* it is not in the VM and runs no work of the game that is gone.          *)
UnloadQuiesces ==
    (fpc = "idle" /\ ~loaded) => cpc \in {"none", "session_wait"} /\ batch = <<>>

(* OutputAudio and the reset the CPU thread's loop carries out never       *)
(* overlap, and the frontend never pulls from a stream that reset has      *)
(* taken away.                                                             *)
ResetAudioExclusive ==
    ~(fpc \in {"run_pull", "again_pull"} /\ cpc \in {"resetting", "reset_store", "reset_unlock"})

(* "Booting the VM before that would open the GS against a context of our  *)
(* own": on the HW render paths a game that is to run boots only after the *)
(* frontend has reset a context for it, and not on the strength of one of  *)
(* an earlier game, whether that was unloaded or deinitialized.            *)
ContextBeforeBoot ==
    (cpc \in {"vm_init", "vm_initializing"} /\ HWRenderActive /\ s_running) => context_seen

(* retro_run returns once it has got to its run token, within 200 ms, with *)
(* a VM that fails to boot and with a context that never comes;            *)
(* retro_unload_game gets the CPU thread out of whatever it is doing; and  *)
(* ShutdownCoreAtExit joins it, in a session or between two.               *)
CallsReturn ==
    /\ fpc = "run_token" ~> fpc = "idle"
    /\ fpc = "unload_check" ~> fpc = "idle"
    /\ fpc = "exit_running" ~> fpc = "gone"

(* A reset asked for is carried out, if the frontend goes on calling       *)
(* retro_run and does not ask for something else for ever.                 *)
ResetHappens ==
    ([]<>(fpc = "run_wait") /\ <>[](fpc # "call_notify"))
        => ((vm = "Resetting") ~> (vm # "Resetting"))

-----------------------------------------------------------------------------
(* What comments of the code say of the two threads and what the code does *)
(* not keep.  Each is checked by a run of its own.                         *)

(* Host::RunOnCPUThread: "wake the CPU thread if it's parked".  A CPU      *)
(* thread asleep in its park has no work nobody is about to wake it for.   *)
ParkedHasNoWork ==
    ~(cpc = "parked" /\ s_cpu_work_pending /\ fpc \notin {"call_notify", "options_notify"})

=============================================================================
