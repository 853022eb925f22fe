------------------------ MODULE LibretroHostProofs ------------------------
(***************************************************************************)
(* Proofs about module LibretroHost, for every bound on the work queue, on *)
(* the duplicate frames and on the frames skipped, for every choice of     *)
(* present paths, with and without a change of options, PS1 mode and a     *)
(* retro_deinit in the middle of a game: the two mutexes exclude, a VM is  *)
(* torn down only on request, an unload leaves the CPU thread between two  *)
(* sessions, and a game boots only on a context of its own.                *)
(*                                                                         *)
(* And about module DiscControl, the disk callbacks of the same file, for  *)
(* any set of images and a list of any length: the list's index, what is   *)
(* in the drive, and what a swap may do to it.                             *)
(***************************************************************************)
EXTENDS LibretroHost, DiscControl, SequenceTheorems, TLAPS

-----------------------------------------------------------------------------
(* The types again, one variable at a time.                                *)
SessionFlags ==
    /\ loaded \in BOOLEAN /\ got_frame \in BOOLEAN
    /\ s_running \in BOOLEAN /\ s_session_active \in BOOLEAN
    /\ s_boot_requested \in BOOLEAN /\ s_exit_requested \in BOOLEAN
    /\ s_cpu_thread_initialized \in BOOLEAN /\ init_ok \in BOOLEAN

PacingFlags ==
    /\ s_run_token \in BOOLEAN /\ s_frame_ready \in BOOLEAN /\ s_vm_fps_bits \in BOOLEAN
    /\ s_cpu_work_pending \in BOOLEAN /\ done \in BOOLEAN

VideoFlags ==
    /\ s_context_ready \in BOOLEAN /\ s_gl_context_seen \in BOOLEAN
    /\ s_gl_needs_reopen \in BOOLEAN /\ context_seen \in BOOLEAN
    /\ gs_open \in BOOLEAN /\ s_gs_open_on_initialize \in BOOLEAN /\ vk_device \in BOOLEAN

Counters == run \in 0 .. MaxSkipped /\ credit \in 0 .. MaxCredit

Queues ==
    /\ s_cpu_work \in Seq(Work) /\ Len(s_cpu_work) <= MaxWork
    /\ batch \in Seq(Work) /\ Len(batch) <= MaxWork

States ==
    /\ vm \in VMStates /\ power_off \in BOOLEAN
    /\ s_hw_render \in {"None", "Vulkan", "OpenGL"}
    /\ stream \in {"null", "live", "freed"}

(* Where a thread holds a mutex.                                           *)
FrameF == {"run_decide", "run_decided", "run_audio", "run_pull"}
FrameC == {"park_test", "park_sleep"}
AudioF == {"run_pull", "again_pull"}
AudioC == {"resetting", "reset_store", "reset_unlock"}

(* A mutex belongs to a thread exactly when that thread is in its critical *)
(* section: what TypeOK says of the holder does not exclude the other.     *)
Mutexes ==
    /\ fpc \in FrontendPC /\ cpc \in CPUPC
    /\ frame_mutex \in {"F", "C", "free"} /\ audio_mutex \in {"F", "C", "free"}
    /\ (fpc \in FrameF) <=> (frame_mutex = "F")
    /\ (cpc \in FrameC) <=> (frame_mutex = "C")
    /\ (fpc \in AudioF) <=> (audio_mutex = "F")
    /\ (cpc \in AudioC) <=> (audio_mutex = "C")

(* The CPU thread is in the loop of CPUThreadMain, with a VM.              *)
InLoop == cpc \in {"loop", "loop_state", "reset_lock", "resetting", "reset_store",
                   "reset_unlock", "execute", "psx_mode", "pump", "pump_work", "park_test",
                   "park_sleep", "parked", "woken", "park_drain", "park_work", "pumped"}

(* The CPU thread has no session.                                          *)
NoSession == cpc \in {"none", "session_wait", "exited"}

(* What the frontend's calls leave behind for the CPU thread: a call is    *)
(* made with a game, one that winds down has cleared s_running, the exit   *)
(* flag stands only during retro_deinit and the exit hook, a session that  *)
(* is not active has no boot request, and a frontend without a game has a  *)
(* CPU thread that nothing will move.                                      *)
Handshake ==
    /\ fpc \notin {"idle", "deinit_running", "deinit_token", "deinit_join", "exit_running",
                   "exit_check", "exit_stop", "exit_token", "exit_join", "gone"}
         => loaded
    /\ fpc \in {"unload_check", "unload_stop", "unload_token", "unload_wait", "deinit_token",
                "deinit_join", "exit_check", "exit_stop", "exit_token", "exit_join", "gone"}
         => ~s_running
    /\ s_exit_requested
         => fpc \in {"deinit_running", "deinit_token", "deinit_join", "exit_running",
                     "exit_check", "exit_stop", "exit_token", "exit_join", "gone"}
    /\ cpc = "exited" => s_exit_requested
    /\ ~s_session_active => NoSession /\ ~s_boot_requested
    /\ cpc \notin {"none", "init", "session_wait", "exited"} => ~s_boot_requested
    /\ (fpc = "idle" /\ ~loaded)
         => cpc = "none" \/ (cpc = "session_wait" /\ ~s_boot_requested)

(* Work is taken only to be run, and a VM of the loop is Running or        *)
(* Resetting until somebody has cleared s_running or the game has switched *)
(* the console off.                                                        *)
LoopInv ==
    /\ cpc \notin {"pump_work", "park_work"} => batch = <<>>
    /\ InLoop /\ vm \notin {"Running", "Resetting"} => ~s_running \/ power_off
    /\ VMStopsOnlyOnRequest

(* A context that counts as ready, on a path that renders in hardware, is  *)
(* one the frontend has reset for the game that is loaded.                 *)
ContextInv ==
    /\ HWRenderActive /\ s_context_ready => context_seen
    /\ ContextBeforeBoot

Types == SessionFlags /\ PacingFlags /\ VideoFlags /\ Counters /\ Queues /\ States

IInv == Types /\ Mutexes /\ Handshake /\ LoopInv /\ ContextInv

-----------------------------------------------------------------------------

(* A part changes only where its own variables do: the flags of the        *)
(* frontend and of the session ...                                         *)
LEMMA NextSessionFlags ==
    ASSUME SessionFlags, PacingFlags, [Next]_vars
    PROVE  SessionFlags'
<1>. USE DEF SessionFlags, FGoto, CGoto, frontend, session, pacing, work, video, gs,
             audio
<1>1. ASSUME NEW hw \in HWModes, LoadGame(hw)
     PROVE  SessionFlags'
  BY <1>1 DEF LoadGame, Joinable
<1>2. ASSUME NEW w \in {"reset", "state"}, BlockingCall(w)
     PROVE  SessionFlags'
  BY <1>2 DEF BlockingCall, Push
<1>3. CASE RunBegin
  BY <1>3 DEF RunBegin, Push
<1>4. CASE RunToken
  BY <1>4 DEF RunToken
<1>5. CASE RunWake
  BY <1>5 DEF RunWake, PacingFlags
<1>6. CASE OutputAudio
  BY <1>6 DEF OutputAudio
<1>7. CASE OutputAudioEnd
  BY <1>7 DEF OutputAudioEnd
<1>8. CASE ContextReset \/ ContextDestroy
  BY <1>8 DEF ContextReset, ContextDestroy
<1>9. CASE UnloadGame \/ Deinit
  BY <1>9 DEF UnloadGame, Deinit
<1>10. CASE AtExit \/ LoadWait
  BY <1>10 DEF AtExit, LoadWait
<1>11. CASE Negotiate \/ RingWritten
  BY <1>11 DEF Negotiate, RingWritten
<1>12. CASE CallNotify \/ CallReturn
  BY <1>12 DEF CallNotify, CallReturn
<1>13. CASE RunAVInfo \/ RunInput
  BY <1>13 DEF RunAVInfo, RunInput
<1>14. CASE RunVsyncWait \/ RunDecide
  BY <1>14 DEF RunVsyncWait, RunDecide
<1>15. CASE StopRunning \/ CheckVM
  BY <1>15 DEF StopRunning, CheckVM
<1>16. CASE StopVM \/ ReleaseToken
  BY <1>16 DEF StopVM, ReleaseToken
<1>17. CASE UnloadDone \/ Joined
  BY <1>17 DEF UnloadDone, Joined
<1>18. CASE CPUThreadInitialize \/ SessionWait
  BY <1>18 DEF CPUThreadInitialize, SessionWait
<1>19. CASE ContextWait \/ VMInitialize
  BY <1>19 DEF ContextWait, VMInitialize
<1>20. CASE VMInitialized \/ SetRunning
  BY <1>20 DEF VMInitialized, SetRunning
<1>21. CASE Loop \/ LoopState
  BY <1>21 DEF Loop, LoopState
<1>22. CASE ResetLock \/ Resetting
  BY <1>22 DEF ResetLock, Resetting
<1>23. CASE ResetEnd \/ Execute \/ PowerOff
  BY <1>23 DEF ResetEnd, Execute, PowerOff
<1>24. CASE EnterPSXMode \/ Drain
  BY <1>24 DEF EnterPSXMode, Drain
<1>25. CASE RunWork \/ SignalFrame
  BY <1>25 DEF RunWork, SignalFrame
<1>26. CASE ParkTest \/ ParkSleep
  BY <1>26 DEF ParkTest, ParkSleep
<1>27. CASE ParkLock \/ Pumped
  BY <1>27 DEF ParkLock, Pumped
<1>28. CASE VMShutdown \/ EndRunning
  BY <1>28 DEF VMShutdown, EndRunning
<1>29. CASE EndFrame \/ EndSession
  BY <1>29 DEF EndFrame, EndSession
<1>30. CASE DuplicateFrame
  BY <1>30 DEF DuplicateFrame
<1>31. CASE UNCHANGED vars
  BY <1>31 DEF vars
<1>. QED
  BY <1>1, <1>2, <1>3, <1>4, <1>5, <1>6, <1>7, <1>8, <1>9, <1>10, <1>11, <1>12, <1>13,
     <1>14, <1>15, <1>16, <1>17, <1>18, <1>19, <1>20, <1>21, <1>22, <1>23, <1>24, <1>25,
     <1>26, <1>27, <1>28, <1>29, <1>30, <1>31
     DEF Next, FrontendCall, FrontendStep, CPUStep

(* ... of pacing and work ...                                              *)
LEMMA NextPacingFlags ==
    ASSUME PacingFlags, [Next]_vars
    PROVE  PacingFlags'
<1>. USE DEF PacingFlags, FGoto, CGoto, frontend, session, pacing, work, video, gs,
             audio
<1>1. ASSUME NEW hw \in HWModes, LoadGame(hw)
     PROVE  PacingFlags'
  BY <1>1 DEF LoadGame, Joinable
<1>2. ASSUME NEW w \in {"reset", "state"}, BlockingCall(w)
     PROVE  PacingFlags'
  BY <1>2 DEF BlockingCall, Push
<1>3. CASE ContextReset \/ ContextDestroy \/ RunBegin \/ UnloadGame
  BY <1>3 DEF ContextReset, ContextDestroy, RunBegin, UnloadGame, Push
<1>4. CASE Deinit \/ AtExit \/ LoadWait \/ Negotiate \/ RingWritten
  BY <1>4 DEF Deinit, AtExit, LoadWait, Negotiate, RingWritten
<1>5. CASE CallNotify \/ CallReturn \/ RunAVInfo \/ RunInput
  BY <1>5 DEF CallNotify, CallReturn, RunAVInfo, RunInput
<1>6. CASE RunToken
  BY <1>6 DEF RunToken
<1>7. CASE RunWake \/ RunVsyncWait \/ RunDecide
  BY <1>7 DEF RunWake, RunVsyncWait, RunDecide
<1>8. CASE OutputAudio \/ OutputAudioEnd \/ StopRunning \/ CheckVM
  BY <1>8 DEF OutputAudio, OutputAudioEnd, StopRunning, CheckVM
<1>9. CASE StopVM \/ ReleaseToken \/ UnloadDone \/ Joined
  BY <1>9 DEF StopVM, ReleaseToken, UnloadDone, Joined
<1>10. CASE CPUThreadInitialize \/ SessionWait \/ ContextWait \/ VMInitialize
  BY <1>10 DEF CPUThreadInitialize, SessionWait, ContextWait, VMInitialize
<1>11. CASE VMInitialized \/ SetRunning \/ Loop \/ LoopState
  BY <1>11 DEF VMInitialized, SetRunning, Loop, LoopState
<1>12. CASE ResetLock \/ Resetting \/ ResetEnd \/ Execute \/ PowerOff
  BY <1>12 DEF ResetLock, Resetting, ResetEnd, Execute, PowerOff
<1>13. CASE EnterPSXMode \/ Drain \/ RunWork \/ SignalFrame
  BY <1>13 DEF EnterPSXMode, Drain, RunWork, SignalFrame
<1>14. CASE ParkTest \/ ParkSleep \/ ParkLock \/ Pumped
  BY <1>14 DEF ParkTest, ParkSleep, ParkLock, Pumped
<1>15. CASE VMShutdown \/ EndRunning \/ EndFrame \/ EndSession
  BY <1>15 DEF VMShutdown, EndRunning, EndFrame, EndSession
<1>16. CASE DuplicateFrame
  BY <1>16 DEF DuplicateFrame
<1>17. CASE UNCHANGED vars
  BY <1>17 DEF vars
<1>. QED
  BY <1>1, <1>2, <1>3, <1>4, <1>5, <1>6, <1>7, <1>8, <1>9, <1>10, <1>11, <1>12, <1>13,
     <1>14, <1>15, <1>16, <1>17
     DEF Next, FrontendCall, FrontendStep, CPUStep

(* ... of the video context and the GS ...                                 *)
LEMMA NextVideoFlags ==
    ASSUME VideoFlags, [Next]_vars
    PROVE  VideoFlags'
<1>. USE DEF VideoFlags, FGoto, CGoto, frontend, session, pacing, work, video, gs, audio
<1>1. ASSUME NEW hw \in HWModes, LoadGame(hw)
     PROVE  VideoFlags'
  BY <1>1 DEF LoadGame, Joinable
<1>2. ASSUME NEW w \in {"reset", "state"}, BlockingCall(w)
     PROVE  VideoFlags'
  BY <1>2 DEF BlockingCall, Push
<1>3. CASE ContextReset \/ ContextDestroy \/ RunBegin \/ UnloadGame
  BY <1>3 DEF ContextReset, ContextDestroy, RunBegin, UnloadGame, Push
<1>4. CASE Deinit \/ AtExit \/ LoadWait \/ Negotiate \/ RingWritten
  BY <1>4 DEF Deinit, AtExit, LoadWait, Negotiate, RingWritten
<1>5. CASE CallNotify \/ CallReturn \/ RunAVInfo \/ RunInput
  BY <1>5 DEF CallNotify, CallReturn, RunAVInfo, RunInput
<1>6. CASE RunToken
  BY <1>6 DEF RunToken
<1>7. CASE RunWake \/ RunVsyncWait \/ RunDecide
  BY <1>7 DEF RunWake, RunVsyncWait, RunDecide
<1>8. CASE OutputAudio \/ OutputAudioEnd \/ StopRunning \/ CheckVM
  BY <1>8 DEF OutputAudio, OutputAudioEnd, StopRunning, CheckVM
<1>9. CASE StopVM \/ ReleaseToken \/ UnloadDone \/ Joined
  BY <1>9 DEF StopVM, ReleaseToken, UnloadDone, Joined
<1>10. CASE CPUThreadInitialize \/ SessionWait \/ ContextWait \/ VMInitialize
  BY <1>10 DEF CPUThreadInitialize, SessionWait, ContextWait, VMInitialize
<1>11. CASE VMInitialized \/ SetRunning \/ Loop \/ LoopState
  BY <1>11 DEF VMInitialized, SetRunning, Loop, LoopState
<1>12. CASE ResetLock \/ Resetting \/ ResetEnd \/ Execute \/ PowerOff
  BY <1>12 DEF ResetLock, Resetting, ResetEnd, Execute, PowerOff
<1>13. CASE EnterPSXMode \/ Drain \/ RunWork \/ SignalFrame
  BY <1>13 DEF EnterPSXMode, Drain, RunWork, SignalFrame
<1>14. CASE ParkTest \/ ParkSleep \/ ParkLock \/ Pumped
  BY <1>14 DEF ParkTest, ParkSleep, ParkLock, Pumped
<1>15. CASE VMShutdown \/ EndRunning \/ EndFrame \/ EndSession
  BY <1>15 DEF VMShutdown, EndRunning, EndFrame, EndSession
<1>16. CASE DuplicateFrame
  BY <1>16 DEF DuplicateFrame
<1>17. CASE UNCHANGED vars
  BY <1>17 DEF vars
<1>. QED
  BY <1>1, <1>2, <1>3, <1>4, <1>5, <1>6, <1>7, <1>8, <1>9, <1>10, <1>11, <1>12, <1>13,
     <1>14, <1>15, <1>16, <1>17
     DEF Next, FrontendCall, FrontendStep, CPUStep

(* ... the counters of retro_run ...                                       *)
LEMMA NextCounters ==
    ASSUME Counters, [Next]_vars
    PROVE  Counters'
<1>. USE DEF Counters, FGoto, CGoto, NotifyFrame, frontend, session, pacing, work,
             video, gs, audio
<1>1. ASSUME NEW hw \in HWModes, LoadGame(hw)
     PROVE  Counters'
  BY <1>1, BoundsAssumption DEF LoadGame, Joinable
<1>2. ASSUME NEW w \in {"reset", "state"}, BlockingCall(w)
     PROVE  Counters'
  BY <1>2, BoundsAssumption DEF BlockingCall, Push
<1>3. CASE RunDecide
  BY <1>3, BoundsAssumption DEF RunDecide
<1>4. CASE ContextReset \/ ContextDestroy \/ RunBegin \/ UnloadGame \/ Deinit
  BY <1>4, BoundsAssumption DEF ContextReset, ContextDestroy, RunBegin, UnloadGame, Deinit, Push
<1>5. CASE AtExit \/ LoadWait \/ Negotiate \/ RingWritten \/ CallNotify
  BY <1>5, BoundsAssumption DEF AtExit, LoadWait, Negotiate, RingWritten, CallNotify
<1>6. CASE CallReturn \/ RunAVInfo \/ RunInput \/ RunToken \/ RunWake
  BY <1>6, BoundsAssumption DEF CallReturn, RunAVInfo, RunInput, RunToken, RunWake
<1>7. CASE RunVsyncWait \/ OutputAudio \/ OutputAudioEnd \/ StopRunning \/ CheckVM
  BY <1>7, BoundsAssumption DEF RunVsyncWait, OutputAudio, OutputAudioEnd, StopRunning, CheckVM
<1>8. CASE StopVM \/ ReleaseToken \/ UnloadDone \/ Joined \/ CPUThreadInitialize
  BY <1>8, BoundsAssumption DEF StopVM, ReleaseToken, UnloadDone, Joined, CPUThreadInitialize
<1>9. CASE SessionWait \/ ContextWait \/ VMInitialize \/ VMInitialized \/ SetRunning
  BY <1>9, BoundsAssumption DEF SessionWait, ContextWait, VMInitialize, VMInitialized, SetRunning
<1>10. CASE Loop \/ LoopState \/ ResetLock \/ Resetting \/ ResetEnd
  BY <1>10, BoundsAssumption DEF Loop, LoopState, ResetLock, Resetting, ResetEnd
<1>11. CASE Execute \/ PowerOff \/ EnterPSXMode \/ Drain \/ RunWork \/ SignalFrame
  BY <1>11, BoundsAssumption DEF Execute, PowerOff, EnterPSXMode, Drain, RunWork, SignalFrame
<1>12. CASE ParkTest \/ ParkSleep \/ ParkLock \/ Pumped \/ VMShutdown
  BY <1>12, BoundsAssumption DEF ParkTest, ParkSleep, ParkLock, Pumped, VMShutdown
<1>13. CASE EndRunning \/ EndFrame \/ EndSession \/ DuplicateFrame
  BY <1>13, BoundsAssumption DEF EndRunning, EndFrame, EndSession, DuplicateFrame
<1>14. CASE UNCHANGED vars
  BY <1>14, BoundsAssumption DEF vars
<1>. QED
  BY <1>1, <1>2, <1>3, <1>4, <1>5, <1>6, <1>7, <1>8, <1>9, <1>10, <1>11, <1>12, <1>13,
     <1>14
     DEF Next, FrontendCall, FrontendStep, CPUStep

(* ... the two queues ...                                                  *)
LEMMA NextQueues ==
    ASSUME Queues, [Next]_vars
    PROVE  Queues'
<1>. USE DEF Queues, Work, FGoto, CGoto, NotifyFrame, frontend, session, pacing, work,
             video, gs, audio
<1>1. ASSUME NEW hw \in HWModes, LoadGame(hw)
     PROVE  Queues'
  BY <1>1, BoundsAssumption DEF LoadGame, Joinable
<1>2. ASSUME NEW w \in {"reset", "state"}, BlockingCall(w)
     PROVE  Queues'
  BY <1>2, BoundsAssumption DEF BlockingCall, Push
<1>3. CASE RunBegin
  BY <1>3, BoundsAssumption DEF RunBegin, Push
<1>4. CASE Drain
  BY <1>4, BoundsAssumption DEF Drain
<1>5. CASE RunWork
  <2>. USE DEF RunWork
  <2>1. Tail(batch) \in Seq(Work) /\ Len(Tail(batch)) = Len(batch) - 1 /\ batch \in Seq(Work) /\ Len(batch) \in Nat
    BY <1>5
  <2>2. ASSUME NEW x \in Work
        PROVE  <<x>> \o Tail(batch) \in Seq(Work) /\ Len(<<x>> \o Tail(batch)) = Len(batch)
    BY <2>1
  <2>3. batch' = Tail(batch) \/ \E x \in Work : batch' = <<x>> \o Tail(batch)
    BY <1>5
  <2>4. UNCHANGED s_cpu_work
    BY <1>5
  <2>5. batch' \in Seq(Work) /\ Len(batch') <= Len(batch)
    <3>1. CASE batch' = Tail(batch)
      BY <2>1, <3>1
    <3>2. ASSUME NEW x \in Work, batch' = <<x>> \o Tail(batch)
          PROVE  batch' \in Seq(Work) /\ Len(batch') <= Len(batch)
      BY <2>1, <2>2, <3>2
    <3>. QED  BY <2>3, <3>1, <3>2
  <2>. QED  BY <2>1, <2>4, <2>5, BoundsAssumption
<1>6. CASE ContextReset \/ ContextDestroy \/ UnloadGame \/ Deinit \/ AtExit
  BY <1>6, BoundsAssumption DEF ContextReset, ContextDestroy, UnloadGame, Deinit, AtExit
<1>7. CASE LoadWait \/ Negotiate \/ RingWritten \/ CallNotify \/ CallReturn
  BY <1>7, BoundsAssumption DEF LoadWait, Negotiate, RingWritten, CallNotify, CallReturn
<1>8. CASE RunAVInfo \/ RunInput \/ RunToken \/ RunWake \/ RunVsyncWait
  BY <1>8, BoundsAssumption DEF RunAVInfo, RunInput, RunToken, RunWake, RunVsyncWait
<1>9. CASE RunDecide \/ OutputAudio \/ OutputAudioEnd \/ StopRunning \/ CheckVM
  BY <1>9, BoundsAssumption DEF RunDecide, OutputAudio, OutputAudioEnd, StopRunning, CheckVM
<1>10. CASE StopVM \/ ReleaseToken \/ UnloadDone \/ Joined \/ CPUThreadInitialize
  BY <1>10, BoundsAssumption DEF StopVM, ReleaseToken, UnloadDone, Joined, CPUThreadInitialize
<1>11. CASE SessionWait \/ ContextWait \/ VMInitialize \/ VMInitialized \/ SetRunning
  BY <1>11, BoundsAssumption DEF SessionWait, ContextWait, VMInitialize, VMInitialized, SetRunning
<1>12. CASE Loop \/ LoopState \/ ResetLock \/ Resetting \/ ResetEnd
  BY <1>12, BoundsAssumption DEF Loop, LoopState, ResetLock, Resetting, ResetEnd
<1>13. CASE Execute \/ PowerOff \/ EnterPSXMode \/ SignalFrame \/ ParkTest \/ ParkSleep
  BY <1>13, BoundsAssumption DEF Execute, PowerOff, EnterPSXMode, SignalFrame, ParkTest, ParkSleep
<1>14. CASE ParkLock \/ Pumped \/ VMShutdown \/ EndRunning \/ EndFrame
  BY <1>14, BoundsAssumption DEF ParkLock, Pumped, VMShutdown, EndRunning, EndFrame
<1>15. CASE EndSession \/ DuplicateFrame
  BY <1>15, BoundsAssumption DEF EndSession, DuplicateFrame
<1>16. CASE UNCHANGED vars
  BY <1>16, BoundsAssumption DEF vars
<1>. QED
  BY <1>1, <1>2, <1>3, <1>4, <1>5, <1>6, <1>7, <1>8, <1>9, <1>10, <1>11, <1>12, <1>13,
     <1>14, <1>15, <1>16
     DEF Next, FrontendCall, FrontendStep, CPUStep

(* ... and what has more than two values.                                  *)
LEMMA NextStates ==
    ASSUME States, [Next]_vars
    PROVE  States'
<1>. USE DEF States, VMStates, FGoto, CGoto, NotifyFrame, frontend, session, pacing,
             work, video, gs, audio
<1>1. ASSUME NEW hw \in HWModes, LoadGame(hw)
     PROVE  States'
  BY <1>1, HWAssumption DEF LoadGame, Joinable
<1>2. ASSUME NEW w \in {"reset", "state"}, BlockingCall(w)
     PROVE  States'
  BY <1>2, HWAssumption DEF BlockingCall, Push
<1>3. CASE ContextReset \/ ContextDestroy \/ RunBegin \/ UnloadGame \/ Deinit
  BY <1>3, HWAssumption DEF ContextReset, ContextDestroy, RunBegin, UnloadGame, Deinit, Push
<1>4. CASE AtExit \/ LoadWait \/ Negotiate \/ RingWritten \/ CallNotify
  BY <1>4, HWAssumption DEF AtExit, LoadWait, Negotiate, RingWritten, CallNotify
<1>5. CASE CallReturn \/ RunAVInfo \/ RunInput \/ RunToken \/ RunWake
  BY <1>5, HWAssumption DEF CallReturn, RunAVInfo, RunInput, RunToken, RunWake
<1>6. CASE RunVsyncWait \/ RunDecide \/ OutputAudio \/ OutputAudioEnd \/ StopRunning
  BY <1>6, HWAssumption DEF RunVsyncWait, RunDecide, OutputAudio, OutputAudioEnd, StopRunning
<1>7. CASE CheckVM \/ StopVM \/ ReleaseToken \/ UnloadDone \/ Joined
  BY <1>7, HWAssumption DEF CheckVM, StopVM, ReleaseToken, UnloadDone, Joined
<1>8. CASE CPUThreadInitialize \/ SessionWait \/ ContextWait \/ VMInitialize \/
          VMInitialized
  BY <1>8, HWAssumption DEF CPUThreadInitialize, SessionWait, ContextWait, VMInitialize, VMInitialized
<1>9. CASE SetRunning \/ Loop \/ LoopState \/ ResetLock \/ Resetting
  BY <1>9, HWAssumption DEF SetRunning, Loop, LoopState, ResetLock, Resetting
<1>10. CASE ResetEnd \/ Execute \/ PowerOff \/ EnterPSXMode \/ Drain \/ RunWork
  BY <1>10, HWAssumption DEF ResetEnd, Execute, PowerOff, EnterPSXMode, Drain, RunWork
<1>11. CASE SignalFrame \/ ParkTest \/ ParkSleep \/ ParkLock \/ Pumped
  BY <1>11, HWAssumption DEF SignalFrame, ParkTest, ParkSleep, ParkLock, Pumped
<1>12. CASE VMShutdown \/ EndRunning \/ EndFrame \/ EndSession \/ DuplicateFrame
  BY <1>12, HWAssumption DEF VMShutdown, EndRunning, EndFrame, EndSession, DuplicateFrame
<1>13. CASE UNCHANGED vars
  BY <1>13, HWAssumption DEF vars
<1>. QED
  BY <1>1, <1>2, <1>3, <1>4, <1>5, <1>6, <1>7, <1>8, <1>9, <1>10, <1>11, <1>12, <1>13
     DEF Next, FrontendCall, FrontendStep, CPUStep

(* The mutexes.                                                            *)
LEMMA NextMutexes ==
    ASSUME Mutexes, [Next]_vars
    PROVE  Mutexes'
<1>. USE DEF Mutexes, FrameF, FrameC, AudioF, AudioC, FrontendPC, CPUPC, FGoto, CGoto,
             NotifyFrame, frontend, session, pacing, work, video, gs, audio
<1>1. ASSUME NEW hw \in HWModes, LoadGame(hw)
     PROVE  Mutexes'
  BY <1>1 DEF LoadGame, Joinable
<1>2. ASSUME NEW w \in {"reset", "state"}, BlockingCall(w)
     PROVE  Mutexes'
  BY <1>2 DEF BlockingCall, Push
<1>3. CASE RunToken \/ RunWake \/ RunVsyncWait \/ RunDecide
  BY <1>3 DEF RunToken, RunWake, RunVsyncWait, RunDecide
<1>4. CASE OutputAudio \/ OutputAudioEnd
  BY <1>4 DEF OutputAudio, OutputAudioEnd
<1>5. CASE ResetLock \/ Resetting \/ ResetEnd
  BY <1>5 DEF ResetLock, Resetting, ResetEnd
<1>6. CASE SignalFrame \/ ParkTest \/ ParkSleep \/ ParkLock
  BY <1>6 DEF SignalFrame, ParkTest, ParkSleep, ParkLock
<1>7. CASE LoopState
  BY <1>7 DEF LoopState
<1>8. CASE ContextReset \/ ContextDestroy \/ RunBegin \/ UnloadGame \/ Deinit
  BY <1>8 DEF ContextReset, ContextDestroy, RunBegin, UnloadGame, Deinit, Push
<1>9. CASE AtExit \/ LoadWait \/ Negotiate \/ RingWritten \/ CallNotify
  BY <1>9 DEF AtExit, LoadWait, Negotiate, RingWritten, CallNotify
<1>10. CASE CallReturn \/ RunAVInfo \/ RunInput \/ StopRunning \/ CheckVM
  BY <1>10 DEF CallReturn, RunAVInfo, RunInput, StopRunning, CheckVM
<1>11. CASE StopVM \/ ReleaseToken \/ UnloadDone \/ Joined \/ CPUThreadInitialize
  BY <1>11 DEF StopVM, ReleaseToken, UnloadDone, Joined, CPUThreadInitialize
<1>12. CASE SessionWait \/ ContextWait \/ VMInitialize \/ VMInitialized \/ SetRunning
  BY <1>12 DEF SessionWait, ContextWait, VMInitialize, VMInitialized, SetRunning
<1>13. CASE Loop \/ Execute \/ PowerOff \/ EnterPSXMode \/ Drain \/ RunWork
  BY <1>13 DEF Loop, Execute, PowerOff, EnterPSXMode, Drain, RunWork
<1>14. CASE Pumped \/ VMShutdown \/ EndRunning \/ EndFrame \/ EndSession
  BY <1>14 DEF Pumped, VMShutdown, EndRunning, EndFrame, EndSession
<1>15. CASE DuplicateFrame
  BY <1>15 DEF DuplicateFrame
<1>16. CASE UNCHANGED vars
  BY <1>16 DEF vars
<1>. QED
  BY <1>1, <1>2, <1>3, <1>4, <1>5, <1>6, <1>7, <1>8, <1>9, <1>10, <1>11, <1>12, <1>13,
     <1>14, <1>15, <1>16
     DEF Next, FrontendCall, FrontendStep, CPUStep

(* The handshake.                                                          *)
LEMMA NextHandshake ==
    ASSUME SessionFlags, Mutexes, Handshake, [Next]_vars
    PROVE  Handshake'
<1>. USE DEF Handshake, NoSession, SessionFlags, FGoto, CGoto, NotifyFrame, frontend,
             session, pacing, work, video, gs, audio
<1>1. ASSUME NEW hw \in HWModes, LoadGame(hw)
     PROVE  Handshake'
  BY <1>1 DEF LoadGame, Joinable
<1>2. ASSUME NEW w \in {"reset", "state"}, BlockingCall(w)
     PROVE  Handshake'
  BY <1>2 DEF BlockingCall, Push
<1>3. CASE ContextReset \/ ContextDestroy \/ RunBegin
  BY <1>3 DEF ContextReset, ContextDestroy, RunBegin, Push
<1>4. CASE UnloadGame \/ Deinit \/ AtExit
  BY <1>4 DEF UnloadGame, Deinit, AtExit
<1>5. CASE UnloadDone \/ Joined
  BY <1>5 DEF UnloadDone, Joined
<1>6. CASE SessionWait
  BY <1>6 DEF SessionWait
<1>7. CASE EndSession
  BY <1>7 DEF EndSession
<1>8. CASE LoopState
  BY <1>8 DEF LoopState
<1>9. CASE LoadWait \/ Negotiate \/ RingWritten \/ CallNotify \/ CallReturn
  BY <1>9 DEF LoadWait, Negotiate, RingWritten, CallNotify, CallReturn
<1>10. CASE RunAVInfo \/ RunInput \/ RunToken \/ RunWake \/ RunVsyncWait
  BY <1>10 DEF RunAVInfo, RunInput, RunToken, RunWake, RunVsyncWait
<1>11. CASE RunDecide \/ OutputAudio \/ OutputAudioEnd \/ StopRunning \/ CheckVM
  BY <1>11 DEF RunDecide, OutputAudio, OutputAudioEnd, StopRunning, CheckVM
<1>12. CASE StopVM \/ ReleaseToken \/ CPUThreadInitialize \/ ContextWait \/ VMInitialize
  BY <1>12 DEF StopVM, ReleaseToken, CPUThreadInitialize, ContextWait, VMInitialize
<1>13. CASE VMInitialized \/ SetRunning \/ Loop \/ ResetLock \/ Resetting
  BY <1>13 DEF VMInitialized, SetRunning, Loop, ResetLock, Resetting
<1>14. CASE ResetEnd \/ Execute \/ PowerOff \/ EnterPSXMode \/ Drain \/ RunWork
  BY <1>14 DEF ResetEnd, Execute, PowerOff, EnterPSXMode, Drain, RunWork
<1>15. CASE SignalFrame \/ ParkTest \/ ParkSleep \/ ParkLock \/ Pumped
  BY <1>15 DEF SignalFrame, ParkTest, ParkSleep, ParkLock, Pumped
<1>16. CASE VMShutdown \/ EndRunning \/ EndFrame \/ DuplicateFrame
  BY <1>16 DEF VMShutdown, EndRunning, EndFrame, DuplicateFrame
<1>17. CASE UNCHANGED vars
  BY <1>17 DEF vars
<1>. QED
  BY <1>1, <1>2, <1>3, <1>4, <1>5, <1>6, <1>7, <1>8, <1>9, <1>10, <1>11, <1>12, <1>13,
     <1>14, <1>15, <1>16, <1>17
     DEF Next, FrontendCall, FrontendStep, CPUStep

(* The loop.                                                               *)
LEMMA NextLoopInv ==
    ASSUME SessionFlags, Mutexes, Handshake, LoopInv, [Next]_vars
    PROVE  LoopInv'
<1>. USE DEF LoopInv, InLoop, VMStopsOnlyOnRequest, Handshake, SessionFlags, FGoto,
             CGoto, NotifyFrame, frontend, session, pacing, work, video, gs, audio
<1>1. ASSUME NEW hw \in HWModes, LoadGame(hw)
     PROVE  LoopInv'
  BY <1>1 DEF LoadGame, Joinable
<1>2. ASSUME NEW w \in {"reset", "state"}, BlockingCall(w)
     PROVE  LoopInv'
  BY <1>2 DEF BlockingCall, Push
<1>3. CASE Loop
  BY <1>3 DEF Loop
<1>4. CASE LoopState
  BY <1>4 DEF LoopState
<1>5. CASE StopVM
  BY <1>5 DEF StopVM
<1>6. CASE Drain
  BY <1>6 DEF Drain
<1>7. CASE RunWork
  BY <1>7 DEF RunWork
<1>8. CASE SignalFrame \/ ParkLock
  BY <1>8 DEF SignalFrame, ParkLock
<1>9. CASE ContextReset \/ ContextDestroy \/ RunBegin \/ UnloadGame \/ Deinit
  BY <1>9 DEF ContextReset, ContextDestroy, RunBegin, UnloadGame, Deinit, Push
<1>10. CASE AtExit \/ LoadWait \/ Negotiate \/ RingWritten \/ CallNotify
  BY <1>10 DEF AtExit, LoadWait, Negotiate, RingWritten, CallNotify
<1>11. CASE CallReturn \/ RunAVInfo \/ RunInput \/ RunToken \/ RunWake
  BY <1>11 DEF CallReturn, RunAVInfo, RunInput, RunToken, RunWake
<1>12. CASE RunVsyncWait \/ RunDecide \/ OutputAudio \/ OutputAudioEnd \/ StopRunning
  BY <1>12 DEF RunVsyncWait, RunDecide, OutputAudio, OutputAudioEnd, StopRunning
<1>13. CASE CheckVM \/ ReleaseToken \/ UnloadDone \/ Joined \/ CPUThreadInitialize
  BY <1>13 DEF CheckVM, ReleaseToken, UnloadDone, Joined, CPUThreadInitialize
<1>14. CASE SessionWait \/ ContextWait \/ VMInitialize \/ VMInitialized \/ SetRunning
  BY <1>14 DEF SessionWait, ContextWait, VMInitialize, VMInitialized, SetRunning
<1>15. CASE ResetLock \/ Resetting \/ ResetEnd \/ Execute \/ PowerOff \/ EnterPSXMode
  BY <1>15 DEF ResetLock, Resetting, ResetEnd, Execute, PowerOff, EnterPSXMode
<1>16. CASE ParkTest \/ ParkSleep \/ Pumped \/ VMShutdown \/ EndRunning
  BY <1>16 DEF ParkTest, ParkSleep, Pumped, VMShutdown, EndRunning
<1>17. CASE EndFrame \/ EndSession \/ DuplicateFrame
  BY <1>17 DEF EndFrame, EndSession, DuplicateFrame
<1>18. CASE UNCHANGED vars
  BY <1>18 DEF vars
<1>. QED
  BY <1>1, <1>2, <1>3, <1>4, <1>5, <1>6, <1>7, <1>8, <1>9, <1>10, <1>11, <1>12, <1>13,
     <1>14, <1>15, <1>16, <1>17, <1>18
     DEF Next, FrontendCall, FrontendStep, CPUStep

(* The context.                                                            *)
LEMMA NextContextInv ==
    ASSUME SessionFlags, VideoFlags, Handshake, ContextInv, [Next]_vars
    PROVE  ContextInv'
<1>. USE DEF ContextInv, ContextBeforeBoot, HWRenderActive, Handshake, SessionFlags,
             VideoFlags, FGoto, CGoto, NotifyFrame, frontend, session, pacing, work,
             video, gs, audio
<1>1. ASSUME NEW hw \in HWModes, LoadGame(hw)
     PROVE  ContextInv'
  BY <1>1 DEF LoadGame, Joinable
<1>2. ASSUME NEW w \in {"reset", "state"}, BlockingCall(w)
     PROVE  ContextInv'
  BY <1>2 DEF BlockingCall, Push
<1>3. CASE ContextReset \/ ContextDestroy \/ Negotiate
  BY <1>3 DEF ContextReset, ContextDestroy, Negotiate
<1>4. CASE SessionWait \/ ContextWait
  BY <1>4 DEF SessionWait, ContextWait
<1>5. CASE VMInitialize \/ VMInitialized
  BY <1>5 DEF VMInitialize, VMInitialized
<1>6. CASE VMShutdown \/ EndSession
  BY <1>6 DEF VMShutdown, EndSession
<1>7. CASE LoopState
  BY <1>7 DEF LoopState
<1>8. CASE RunBegin \/ UnloadGame \/ Deinit \/ AtExit \/ LoadWait
  BY <1>8 DEF RunBegin, UnloadGame, Deinit, AtExit, LoadWait, Push
<1>9. CASE RingWritten \/ CallNotify \/ CallReturn \/ RunAVInfo \/ RunInput
  BY <1>9 DEF RingWritten, CallNotify, CallReturn, RunAVInfo, RunInput
<1>10. CASE RunToken \/ RunWake \/ RunVsyncWait \/ RunDecide \/ OutputAudio
  BY <1>10 DEF RunToken, RunWake, RunVsyncWait, RunDecide, OutputAudio
<1>11. CASE OutputAudioEnd \/ StopRunning \/ CheckVM \/ StopVM \/ ReleaseToken
  BY <1>11 DEF OutputAudioEnd, StopRunning, CheckVM, StopVM, ReleaseToken
<1>12. CASE UnloadDone \/ Joined \/ CPUThreadInitialize \/ SetRunning \/ Loop
  BY <1>12 DEF UnloadDone, Joined, CPUThreadInitialize, SetRunning, Loop
<1>13. CASE ResetLock \/ Resetting \/ ResetEnd \/ Execute \/ PowerOff \/ EnterPSXMode
  BY <1>13 DEF ResetLock, Resetting, ResetEnd, Execute, PowerOff, EnterPSXMode
<1>14. CASE Drain \/ RunWork \/ SignalFrame \/ ParkTest \/ ParkSleep
  BY <1>14 DEF Drain, RunWork, SignalFrame, ParkTest, ParkSleep
<1>15. CASE ParkLock \/ Pumped \/ EndRunning \/ EndFrame \/ DuplicateFrame
  BY <1>15 DEF ParkLock, Pumped, EndRunning, EndFrame, DuplicateFrame
<1>16. CASE UNCHANGED vars
  BY <1>16 DEF vars
<1>. QED
  BY <1>1, <1>2, <1>3, <1>4, <1>5, <1>6, <1>7, <1>8, <1>9, <1>10, <1>11, <1>12, <1>13,
     <1>14, <1>15, <1>16
     DEF Next, FrontendCall, FrontendStep, CPUStep

-----------------------------------------------------------------------------
LEMMA InitIInv == Init => IInv
<1>. SUFFICES ASSUME Init PROVE IInv
  OBVIOUS
<1>1. SessionFlags /\ PacingFlags /\ VideoFlags /\ States
  BY DEF Init, SessionFlags, PacingFlags, VideoFlags, States, VMStates
<1>2. Counters /\ Queues
  BY BoundsAssumption DEF Init, Counters, Queues
<1>3. Mutexes
  BY DEF Init, Mutexes, FrontendPC, CPUPC, FrameF, FrameC, AudioF, AudioC
<1>4. Handshake /\ LoopInv /\ ContextInv
  BY DEF Init, Handshake, NoSession, LoopInv, InLoop, VMStopsOnlyOnRequest, ContextInv,
         ContextBeforeBoot
<1>. QED  BY <1>1, <1>2, <1>3, <1>4 DEF IInv, Types

LEMMA NextIInv == IInv /\ [Next]_vars => IInv'
<1>. SUFFICES ASSUME IInv, [Next]_vars PROVE IInv'
  OBVIOUS
<1>1. Types'
  BY NextSessionFlags, NextPacingFlags, NextVideoFlags, NextCounters, NextQueues, NextStates
     DEF IInv, Types
<1>2. Mutexes' /\ Handshake' /\ LoopInv' /\ ContextInv'
  BY NextMutexes, NextHandshake, NextLoopInv, NextContextInv DEF IInv, Types
<1>. QED  BY <1>1, <1>2 DEF IInv

LEMMA IInvHolds == Spec => []IInv
BY InitIInv, NextIInv, PTL DEF Spec

(* A set of flags is a set of Booleans when each of them is one.           *)
LEMMA TypesAreTypeOK == IInv => TypeOK
<1>. SUFFICES ASSUME IInv PROVE TypeOK
  OBVIOUS
<1>1. {loaded, got_frame, s_running, s_session_active, s_boot_requested, s_exit_requested,
       s_cpu_thread_initialized, init_ok, s_run_token, s_frame_ready, s_vm_fps_bits,
       s_cpu_work_pending, done,
       s_context_ready, s_gl_context_seen, s_gl_needs_reopen, gs_open,
       s_gs_open_on_initialize, vk_device, power_off, context_seen} \subseteq BOOLEAN
  BY Zenon DEF IInv, Types, SessionFlags, PacingFlags, VideoFlags, States
<1>2. frame_mutex = CASE fpc \in {"run_decide", "run_decided", "run_audio", "run_pull"} -> "F"
                      [] cpc \in {"park_test", "park_sleep"} -> "C"
                      [] OTHER -> "free"
  BY DEF IInv, Mutexes, FrameF, FrameC
<1>3. audio_mutex = CASE fpc \in {"run_pull", "again_pull"} -> "F"
                      [] cpc \in {"resetting", "reset_store", "reset_unlock"} -> "C"
                      [] OTHER -> "free"
  BY DEF IInv, Mutexes, AudioF, AudioC
<1>. QED
  BY <1>1, <1>2, <1>3 DEF TypeOK, IInv, Types, Counters, Queues, States, Mutexes

-----------------------------------------------------------------------------
(* The types; and s_frame_mutex and s_audio_stream_mutex have the holder   *)
(* the places of the two threads say.                                      *)
THEOREM TypeCorrect == Spec => []TypeOK
BY IInvHolds, TypesAreTypeOK, PTL

(* CPUThreadMain tears the VM down only when s_running has been cleared or *)
(* the game has switched the console off, with any number of resets and    *)
(* any work on its queue.                                                  *)
THEOREM StopsOnlyOnRequest == Spec => []VMStopsOnlyOnRequest
<1>1. IInv => VMStopsOnlyOnRequest
  BY DEF IInv, LoopInv
<1>. QED  BY <1>1, IInvHolds, PTL

(* After retro_unload_game, and after a retro_deinit in a game, the CPU    *)
(* thread is between sessions and has no work left of the game.            *)
THEOREM UnloadLeavesNothing == Spec => []UnloadQuiesces
<1>1. IInv => UnloadQuiesces
  BY DEF IInv, Handshake, LoopInv, UnloadQuiesces
<1>. QED  BY <1>1, IInvHolds, PTL

(* OutputAudio and the reset of CPUThreadMain's loop exclude each other.   *)
THEOREM AudioExcludesReset == Spec => []ResetAudioExclusive
<1>1. IInv => ResetAudioExclusive
  BY DEF IInv, Mutexes, AudioF, AudioC, ResetAudioExclusive
<1>. QED  BY <1>1, IInvHolds, PTL

(* With hardware rendering a game that is to run boots only after the      *)
(* frontend has reset a context for it, whichever negotiations fail and    *)
(* whatever context an earlier game has left ready.                        *)
THEOREM ContextComesFirst == Spec => []ContextBeforeBoot
<1>1. IInv => ContextBeforeBoot
  BY DEF IInv, ContextInv
<1>. QED  BY <1>1, IInvHolds, PTL

-----------------------------------------------------------------------------
(* The other half of Libretro.cpp: the discs.  DiscControl has constants   *)
(* and variables of its own, and nothing in common with LibretroHost.      *)

(* The entry is dropped and the others are kept.                           *)
LEMMA Dropped ==
    ASSUME NEW S, NEW s \in Seq(S), NEW index \in Nat, index < Len(s)
    PROVE  /\ RemoveAt(s, index + 1) \in Seq(S)
           /\ Len(RemoveAt(s, index + 1)) = Len(s) - 1
           /\ Len(s) = 1 => RemoveAt(s, index + 1) = <<>>
<1>. DEFINE a == SubSeq(s, 1, index) b == SubSeq(s, index + 2, Len(s))
<1>1. a \in Seq(S) /\ Len(a) = index
  BY SMT
<1>2. b \in Seq(S) /\ Len(b) = Len(s) - 1 - index
  BY SMT
<1>3. RemoveAt(s, index + 1) = a \o b
  <2>1. (index + 1) - 1 = index /\ (index + 1) + 1 = index + 2
    OBVIOUS
  <2>. QED  BY ONLY <2>1 DEF RemoveAt
<1>. HIDE DEF a, b
<1>4. a \o b \in Seq(S) /\ Len(a \o b) = Len(s) - 1
  BY <1>1, <1>2
<1>5. ASSUME Len(s) = 1 PROVE a \o b = <<>>
  BY <1>4, <1>5, EmptySeq
<1>. QED  BY <1>3, <1>4, <1>5

(* The index names an entry, or is 0 without a list.                       *)
IndexInv == s_disc_index \in Nat /\ (s_disc_index < Len(s_discs) \/ (s_discs = <<>> /\ s_disc_index = 0))

DiscTypes ==
    /\ s_discs \in Seq(Paths) /\ s_disc_ejected \in BOOLEAN
    /\ s_disc_initial_index \in Nat /\ s_disc_initial_path \in Paths
    /\ registered \in BOOLEAN /\ game \in {"none", "booting", "running", "failed"}
    /\ boot_path \in Paths /\ source \in {"Iso", "NoDisc"} /\ iso \in Paths
    /\ told \in [result : {"none", "in", "failed"}, image : Paths]

LEMMA DiscTypesOK == DiscTypeOK <=> DiscTypes /\ IndexInv
BY DEF DiscTypeOK, DiscTypes, IndexInv


(* ChangeDisc leaves a known file in the drive, ...                        *)
LEMMA ChangedDisc ==
    ASSUME DiscTypes, NEW path \in Paths, ChangeDisc(path)
    PROVE  /\ source' \in {"Iso", "NoDisc"} /\ iso' \in Paths
           /\ told' \in [result : {"none", "in", "failed"}, image : Paths]
           /\ told'.result = "in" =>
                 source' = "Iso" /\ told'.image = path /\ (path # NoPath => iso' = path)
           /\ told'.result = "failed" => source' = "NoDisc" \/ (source' = source /\ iso' = iso)
           /\ told'.result \in {"in", "failed"}
BY DEF DiscTypes, ChangeDisc

(* ... and InsertDisc only touches the drive of a VM that runs.            *)
LEMMA InsertedDisc ==
    ASSUME DiscTypes, NEW index \in Nat, index < Len(s_discs), InsertDisc(index)
    PROVE  \/ game # "running" /\ UNCHANGED <<source, iso, told>>
           \/ /\ game = "running" /\ s_discs[index + 1] \in Paths
              /\ ChangeDisc(s_discs[index + 1])
<1>1. s_discs[index + 1] \in Paths
  BY DEF DiscTypes
<1>. QED  BY <1>1 DEF InsertDisc, cdvd

(* What a call of the frontend that inserts a disc does to the drive.      *)
Inserts(index) ==
    /\ index < Len(s_discs') /\ s_discs' = s_discs /\ game' = game
    /\ s_disc_index' = index /\ ~s_disc_ejected'
    /\ InsertDisc(index)

(* Every step leaves the drive and the session alone, ends a session, is   *)
(* the boot, or inserts the disc of the index with the tray shut.          *)
LEMMA DiscSteps ==
    ASSUME DiscTypes, IndexInv, [DiscNext]_discVars
    PROVE  \/ UNCHANGED <<game, source, iso, told>>
           \/ game' # "running" /\ told' = nothing /\ source' = source /\ iso' \in {iso, NoPath}
           \/ Boot
           \/ \E index \in Nat : Inserts(index)
<1>. USE DEF list, initial, cdvd
<1>1. CASE UNCHANGED discVars
  BY <1>1 DEF discVars
<1>2. ASSUME NEW index \in Indices, NEW path \in Paths, DiskSetInitialImage(index, path)
      PROVE  UNCHANGED <<game, source, iso, told>>
  BY <1>2 DEF DiskSetInitialImage
<1>3. ASSUME NEW discs \in Playlists, LoadPlaylist(discs)
      PROVE  game' # "running" /\ told' = nothing /\ source' = source /\ iso' \in {iso, NoPath}
  BY <1>3 DEF LoadPlaylist
<1>4. ASSUME NEW image \in Images, LoadImage(image)
      PROVE  game' # "running" /\ told' = nothing /\ source' = source /\ iso' \in {iso, NoPath}
  BY <1>4 DEF LoadImage
<1>5. ASSUME LoadNothing \/ Unload
      PROVE  game' # "running" /\ told' = nothing /\ source' = source /\ iso' \in {iso, NoPath}
  BY <1>5 DEF LoadNothing, Unload
<1>6. ASSUME NEW ejected \in BOOLEAN, DiskSetEjectState(ejected)
      PROVE  UNCHANGED <<game, source, iso, told>> \/ \E index \in Nat : Inserts(index)
  <2>1. CASE ejected
    BY <1>6, <2>1 DEF DiskSetEjectState
  <2>2. CASE ~ejected
    <3>1. s_disc_index \in Nat /\ Inserts(s_disc_index)
      BY <1>6, <2>2 DEF DiskSetEjectState, IndexInv, Inserts
    <3>. QED  BY <3>1
  <2>. QED  BY <2>1, <2>2
<1>7. ASSUME NEW index \in Indices, DiskSetImageIndex(index)
      PROVE  UNCHANGED <<game, source, iso, told>> \/ \E i \in Nat : Inserts(i)
  <2>1. CASE s_disc_ejected
    BY <1>7, <2>1 DEF DiskSetImageIndex
  <2>2. CASE ~s_disc_ejected
    <3>1. index \in Nat /\ Inserts(index)
      BY <1>7, <2>2 DEF DiskSetImageIndex, Inserts, Indices
    <3>. QED  BY <3>1
  <2>. QED  BY <2>1, <2>2
<1>8. ASSUME NEW index \in Indices, DiskDropImage(index)
      PROVE  UNCHANGED <<game, source, iso, told>>
  BY <1>8 DEF DiskDropImage
<1>9. ASSUME NEW index \in Indices, NEW image \in Images, DiskReplaceImageIndex(index, image)
      PROVE  UNCHANGED <<game, source, iso, told>>
  BY <1>9 DEF DiskReplaceImageIndex
<1>10. ASSUME DiskAddImageIndex
       PROVE  UNCHANGED <<game, source, iso, told>>
  BY <1>10 DEF DiskAddImageIndex
<1>. QED  BY <1>1, <1>2, <1>3, <1>4, <1>5, <1>6, <1>7, <1>8, <1>9, <1>10 DEF DiscNext

(* The part of the types that is about the list and the session.           *)
ListTypes ==
    /\ s_discs \in Seq(Paths) /\ s_disc_ejected \in BOOLEAN
    /\ s_disc_initial_index \in Nat /\ s_disc_initial_path \in Paths
    /\ registered \in BOOLEAN /\ game \in {"none", "booting", "running", "failed"}
    /\ boot_path \in Paths

(* Lists of paths.                                                         *)
LEMMA Lists ==
    /\ <<>> \in Seq(Paths)
    /\ \A image \in Images : <<image>> \in Seq(Paths) /\ Len(<<image>>) = 1
    /\ \A s \in Seq(Images) : s \in Seq(Paths)
<1>1. \A s \in Seq(Images) : s \in Seq(Paths)
  <2>1. SUFFICES ASSUME NEW s \in Seq(Images) PROVE s \in Seq(Paths)
    OBVIOUS
  <2>2. Len(s) \in Nat /\ s \in [1 .. Len(s) -> Images]
    OBVIOUS
  <2>3. s \in [1 .. Len(s) -> Paths]
    BY <2>2 DEF Paths
  <2>. QED  BY <2>2, <2>3, SeqDef
<1>2. <<>> \in Seq(Images) /\ \A image \in Images : <<image>> \in Seq(Images) /\ Len(<<image>>) = 1
  OBVIOUS
<1>. QED  BY <1>1, <1>2

(* The list keeps its types, and the index an entry to name: a list that   *)
(* is shortened behind it moves it, and a new list sets it.                *)
LEMMA NextList ==
    ASSUME DiscTypes, IndexInv, [DiscNext]_discVars
    PROVE  ListTypes' /\ IndexInv'
<1>. USE DEF list, initial, cdvd, DiscTypes, ListTypes, IndexInv, Paths
<1>1. CASE UNCHANGED discVars
  BY <1>1 DEF discVars
<1>2. ASSUME NEW index \in Indices, NEW path \in Paths, DiskSetInitialImage(index, path)
      PROVE  ListTypes' /\ IndexInv'
  BY <1>2 DEF DiskSetInitialImage, Indices
<1>3. ASSUME NEW discs \in Playlists, LoadPlaylist(discs)
      PROVE  ListTypes' /\ IndexInv'
  <2>1. discs \in Seq(Images)
    BY DEF Playlists
  <2>2. s_disc_index' \in Nat /\ (s_disc_index' < Len(discs) \/ s_disc_index' = 0)
    BY <1>3 DEF LoadPlaylist
  <2>3. CASE discs = <<>>
    BY <1>3, <2>2, <2>3, Lists DEF LoadPlaylist
  <2>4. CASE discs # <<>>
    <3>1. Len(discs) > 0
      BY <2>1, <2>4, EmptySeq
    <3>2. discs[s_disc_index' + 1] \in Images
      BY <2>1, <2>2, <3>1
    <3>. QED  BY <1>3, <2>1, <2>2, <2>4, <3>1, <3>2, Lists DEF LoadPlaylist
  <2>. QED  BY <2>3, <2>4
<1>4. ASSUME NEW image \in Images, LoadImage(image)
      PROVE  ListTypes' /\ IndexInv'
  <2>1. s_discs' \in Seq(Paths) /\ Len(s_discs') = 1 /\ s_disc_index' = 0
    BY <1>4, Lists DEF LoadImage
  <2>2. /\ s_disc_ejected' = FALSE /\ game' = "booting" /\ boot_path' \in Paths /\ registered' = TRUE
        /\ s_disc_initial_index' = s_disc_initial_index /\ s_disc_initial_path' = s_disc_initial_path
    BY <1>4 DEF LoadImage
  <2>3. IndexInv'
    BY <2>1
  <2>4. ListTypes'
    BY <2>1, <2>2
  <2>. QED  BY <2>3, <2>4
<1>5. ASSUME LoadNothing \/ Unload
      PROVE  ListTypes' /\ IndexInv'
  <2>1. CASE LoadNothing
    <3>1. s_discs' = <<>> /\ s_discs' \in Seq(Paths)
      BY <2>1, Lists DEF LoadNothing
    <3>. QED  BY <2>1, <3>1 DEF LoadNothing
  <2>2. CASE Unload
    BY <2>2 DEF Unload
  <2>. QED  BY <1>5, <2>1, <2>2
<1>6. ASSUME Boot
      PROVE  ListTypes' /\ IndexInv'
  BY <1>6 DEF Boot
<1>7. ASSUME NEW ejected \in BOOLEAN, DiskSetEjectState(ejected)
      PROVE  ListTypes' /\ IndexInv'
  BY <1>7 DEF DiskSetEjectState
<1>8. ASSUME NEW index \in Indices, DiskSetImageIndex(index)
      PROVE  ListTypes' /\ IndexInv'
  BY <1>8 DEF DiskSetImageIndex, Indices
<1>9. ASSUME NEW index \in Indices, DiskDropImage(index)
      PROVE  ListTypes' /\ IndexInv'
  <2>1. index \in Nat /\ index < Len(s_discs)
    BY <1>9 DEF DiskDropImage, Indices
  <2>2. /\ s_discs' \in Seq(Paths) /\ Len(s_discs') = Len(s_discs) - 1
        /\ Len(s_discs) = 1 => s_discs' = <<>>
    BY <1>9, <2>1, Dropped DEF DiskDropImage
  <2>3. IndexInv'
    BY <1>9, <2>1, <2>2 DEF DiskDropImage
  <2>. QED  BY <1>9, <2>2, <2>3 DEF DiskDropImage
<1>10. ASSUME NEW index \in Indices, NEW image \in Images, DiskReplaceImageIndex(index, image)
       PROVE  ListTypes' /\ IndexInv'
  <2>1. s_discs' \in Seq(Paths) /\ Len(s_discs') = Len(s_discs)
    BY <1>10 DEF DiskReplaceImageIndex, Indices
  <2>2. s_discs # <<>>
    BY <1>10 DEF DiskReplaceImageIndex, Indices
  <2>. QED  BY <1>10, <2>1, <2>2 DEF DiskReplaceImageIndex
<1>11. ASSUME DiskAddImageIndex
       PROVE  ListTypes' /\ IndexInv'
  <2>1. s_discs' \in Seq(Paths) /\ Len(s_discs') = Len(s_discs) + 1
    BY <1>11 DEF DiskAddImageIndex
  <2>. QED  BY <1>11, <2>1 DEF DiskAddImageIndex
<1>. QED  BY <1>1, <1>2, <1>3, <1>4, <1>5, <1>6, <1>7, <1>8, <1>9, <1>10, <1>11 DEF DiscNext

(* The part that is about the drive, with what was told of it.             *)
DriveTypes ==
    /\ source \in {"Iso", "NoDisc"} /\ iso \in Paths
    /\ told \in [result : {"none", "in", "failed"}, image : Paths]

LEMMA NextDrive ==
    ASSUME DiscTypes, IndexInv, DriveTruthful, [DiscNext]_discVars
    PROVE  DriveTypes' /\ DriveTruthful'
<1>. USE DEF DriveTypes, DriveTruthful, Drive
<1>1. CASE UNCHANGED <<game, source, iso, told>>
  BY <1>1 DEF DiscTypes
<1>2. CASE game' # "running" /\ told' = nothing /\ source' = source /\ iso' \in {iso, NoPath}
  BY <1>2 DEF DiscTypes, nothing, Paths
<1>3. CASE Boot
  BY <1>3 DEF Boot, DiscTypes, Paths
<1>4. ASSUME NEW index \in Nat, Inserts(index)
      PROVE  DriveTypes' /\ DriveTruthful'
  <2>1. index < Len(s_discs) /\ game' = game /\ InsertDisc(index)
    BY <1>4 DEF Inserts
  <2>2. CASE game # "running" /\ UNCHANGED <<source, iso, told>>
    BY <2>1, <2>2 DEF DiscTypes
  <2>3. CASE /\ game = "running" /\ s_discs[index + 1] \in Paths
             /\ ChangeDisc(s_discs[index + 1])
    BY <2>1, <2>3, ChangedDisc
  <2>. QED  BY <2>1, <2>2, <2>3, InsertedDisc
<1>. QED  BY <1>1, <1>2, <1>3, <1>4, DiscSteps

LEMMA DiscInv == DiscSpec => [](DiscTypes /\ IndexInv /\ DriveTruthful)
<1>. DEFINE Inv == DiscTypes /\ IndexInv /\ DriveTruthful
<1>1. ASSUME DiscInit PROVE Inv
  <2>1. s_discs = <<>> /\ s_discs \in Seq(Paths)
    BY <1>1, Lists DEF DiscInit
  <2>2. IndexInv /\ DriveTruthful
    BY <1>1, <2>1 DEF DiscInit, IndexInv, DriveTruthful
  <2>3. DiscTypes
    BY <1>1, <2>1 DEF DiscInit, DiscTypes, Paths, nothing
  <2>. QED  BY <2>2, <2>3
<1>2. Inv /\ [DiscNext]_discVars => Inv'
  <2>1. SUFFICES ASSUME Inv, [DiscNext]_discVars PROVE Inv'
    OBVIOUS
  <2>2. ListTypes' /\ IndexInv' /\ DriveTypes' /\ DriveTruthful'
    BY <2>1, NextList, NextDrive
  <2>. QED  BY <2>2 DEF DiscTypes, ListTypes, DriveTypes
<1>. QED  BY <1>1, <1>2, PTL DEF DiscSpec

(* The types; and s_disc_index names an entry whenever the list has one,   *)
(* with entries dropped, added and replaced in any order: the tray is      *)
(* closed on s_discs[s_disc_index] without a check.                        *)
THEOREM DiscTypeCorrect == DiscSpec => []DiscTypeOK
BY DiscInv, DiscTypesOK, PTL

(* The disc a game was booted from, or that ChangeDisc has reported to be  *)
(* in, is in the drive until the next swap, whatever failed to open on the *)
(* way.                                                                    *)
THEOREM DriveIsTruthful == DiscSpec => []DriveTruthful
BY DiscInv, PTL

(* While a game runs its disc changes only with the tray shut, to the      *)
(* entry of s_disc_index with success or to no disc with failure: a swap   *)
(* that fails, and whose way back fails, leaves no third disc.             *)
THEOREM SwapsAreWhole == DiscSpec => SwapAllOrNothing
<1>. DEFINE Swap ==
       game = "running" /\ game' = "running" /\ Drive' # Drive =>
          /\ ~s_disc_ejected' /\ s_disc_index' < Len(s_discs')
          /\ \/ told'.result = "in" /\ s_discs'[s_disc_index' + 1] \in {Drive', NoPath}
             \/ told'.result = "failed" /\ Drive' = NoPath
<1>1. ASSUME DiscTypes, IndexInv, [DiscNext]_discVars PROVE Swap
  <2>1. SUFFICES ASSUME game = "running", game' = "running", Drive' # Drive
                 PROVE  Swap
    OBVIOUS
  <2>2. PICK index \in Nat : Inserts(index)
    BY <1>1, <2>1, DiscSteps DEF Drive, Boot
  <2>3. /\ s_discs[index + 1] \in Paths /\ ChangeDisc(s_discs[index + 1])
        /\ s_discs' = s_discs /\ s_disc_index' = index
    BY <1>1, <2>1, <2>2, InsertedDisc DEF Inserts
  <2>4. \/ told'.result = "in" /\ s_discs[index + 1] \in {Drive', NoPath}
        \/ told'.result = "failed" /\ Drive' = NoPath
    BY <1>1, <2>1, <2>3, ChangedDisc DEF Drive
  <2>. QED  BY <2>2, <2>3, <2>4 DEF Inserts
<1>2. (DiscTypes /\ IndexInv) /\ [DiscNext]_discVars => [Swap]_discVars
  BY <1>1
<1>. QED  BY <1>2, DiscInv, PTL DEF DiscSpec, SwapAllOrNothing

=============================================================================
