----------------------------- MODULE Supervisor -----------------------------
(***************************************************************************)
(* main.c: the main thread opens the camera, maps its capture buffers,     *)
(* starts a capture and a control thread, waits until both loop flags are  *)
(* cleared, tears the session down and starts over.  SIGINT clears the     *)
(* three loop flags from a handler that can run between any two            *)
(* statements.  The flags are plain ints that several threads write        *)
(* without a lock, so every access to one is a step of its own.            *)
(***************************************************************************)
EXTENDS Integers, FiniteSets

CONSTANTS
    SilentCamera,  \* may DQBUF block longer than the two seconds of a timedjoin?
    QbufFaults     \* may VIDIOC_QBUF fail?

ASSUME SupervisorAssumption ==
    SilentCamera \in BOOLEAN /\ QbufFaults \in BOOLEAN

CAPTURE_BUFFER_COUNT == 3
Index == 0..(CAPTURE_BUFFER_COUNT - 1)

VARIABLES
    main_pc,             \* where main is
    device_loop_run,     \* the three loop flags
    capture_loop_run,
    control_loop_run,
    device_file,         \* is video_device.device_file open?
    buffer_memory_map,   \* "null" (never set), "failed" (MAP_FAILED) or "mapped"
    has_buffer_mapped,   \* main's local
    map_index,           \* main's local i in the mapping loop
    driver,              \* buffers queued in the V4L2 driver
    capture_pc,          \* where the capture thread is
    capture_index,       \* buf.index of the dequeued buffer
    control_pc,          \* where the control thread is
    cec,                 \* between init_cec_controls and stop_cec_controls?
    hw                   \* between hw_init and hw_close?

flags == <<device_loop_run, capture_loop_run, control_loop_run>>
mapVars == <<buffer_memory_map, has_buffer_mapped, map_index>>
threadVars == <<capture_pc, capture_index, control_pc>>
services == <<cec, hw>>
session == <<flags, device_file, mapVars, driver, threadVars, services>>
mainVars == <<main_pc, device_file, mapVars, services>>
vars == <<main_pc, session>>

-----------------------------------------------------------------------------
(* The main thread, before and between sessions. *)

Goto(from, to) == main_pc = from /\ main_pc' = to

(* start_drm and ve_open, whose result is not looked at. *)
StartDrm == Goto("start_drm", "device_loop_run") /\ UNCHANGED session

SetDeviceLoopRun ==
    /\ Goto("device_loop_run", "device_loop")
    /\ device_loop_run' = TRUE
    /\ UNCHANGED <<capture_loop_run, control_loop_run, device_file, mapVars, driver,
                   threadVars, services>>

DeviceLoop ==
    /\ main_pc = "device_loop"
    /\ main_pc' = IF device_loop_run THEN "open" ELSE "stop_drm"
    /\ UNCHANGED session

OpenDevice ==
    /\ Goto("open", "format")
    /\ device_file' = TRUE
    /\ UNCHANGED <<flags, mapVars, driver, threadVars, services>>

OpenDeviceFails == Goto("open", "device_loop") /\ UNCHANGED session

(* The device offers MJPEG, accepts the format and grants the buffers. *)
NegotiateFormat ==
    /\ Goto("format", "map")
    /\ has_buffer_mapped' = FALSE
    /\ map_index' = 0
    /\ UNCHANGED <<flags, device_file, buffer_memory_map, driver, threadVars,
                   services>>

(* Fault form: an early return that forgets to close the device. *)
FormatFails_KeepsOpen == Goto("format", "device_loop") /\ UNCHANGED session

(* Every other outcome closes the device and starts over. *)
FormatFails ==
    /\ Goto("format", "device_loop")
    /\ device_file' = FALSE
    /\ UNCHANGED <<flags, mapVars, driver, threadVars, services>>

-----------------------------------------------------------------------------
(* The mapping loop, one buffer a step; a failure leaves the loop. *)

(* Fault form: the loop runs one buffer too far. *)
MapBuffer_OnePastEnd ==
    /\ main_pc = "map"
    /\ buffer_memory_map' = [buffer_memory_map EXCEPT ![map_index] = "mapped"]
    /\ driver' = driver \cup {map_index}
    /\ has_buffer_mapped' = TRUE
    /\ map_index' = map_index + 1
    /\ main_pc' = IF map_index = CAPTURE_BUFFER_COUNT THEN "mapped" ELSE "map"
    /\ UNCHANGED <<flags, device_file, threadVars, services>>

MapBuffer ==
    /\ main_pc = "map"
    /\ buffer_memory_map' = [buffer_memory_map EXCEPT ![map_index] = "mapped"]
    /\ driver' = driver \cup {map_index}
    /\ has_buffer_mapped' = TRUE
    /\ map_index' = map_index + 1
    /\ main_pc' = IF map_index + 1 = CAPTURE_BUFFER_COUNT THEN "mapped" ELSE "map"
    /\ UNCHANGED <<flags, device_file, threadVars, services>>

(* VIDIOC_QUERYBUF or mmap fails. *)
MapBufferFails ==
    /\ Goto("map", "mapped")
    /\ buffer_memory_map' = [buffer_memory_map EXCEPT ![map_index] = "failed"]
    /\ UNCHANGED <<flags, device_file, has_buffer_mapped, map_index, driver,
                   threadVars, services>>

(* VIDIOC_QBUF fails: the buffer stays mapped but is not queued. *)
QueueMappedFails ==
    /\ QbufFaults
    /\ Goto("map", "mapped")
    /\ buffer_memory_map' = [buffer_memory_map EXCEPT ![map_index] = "mapped"]
    /\ UNCHANGED <<flags, device_file, has_buffer_mapped, map_index, driver,
                   threadVars, services>>

CheckMapped ==
    /\ main_pc = "mapped"
    /\ main_pc' = IF has_buffer_mapped THEN "init_cec" ELSE "device_loop"
    /\ device_file' = has_buffer_mapped
    /\ UNCHANGED <<flags, mapVars, driver, threadVars, services>>

-----------------------------------------------------------------------------
(* Starting the session's threads. *)

InitCecControls ==
    /\ Goto("init_cec", "hw_init")
    /\ cec' = TRUE
    /\ UNCHANGED <<flags, device_file, mapVars, driver, threadVars, hw>>

HwInit ==
    /\ Goto("hw_init", "capture_loop_run")
    /\ hw' = TRUE
    /\ UNCHANGED <<flags, device_file, mapVars, driver, threadVars, cec>>

SetCaptureLoopRun ==
    /\ Goto("capture_loop_run", "control_loop_run")
    /\ capture_loop_run' = TRUE
    /\ UNCHANGED <<device_loop_run, control_loop_run, device_file, mapVars, driver,
                   threadVars, services>>

SetControlLoopRun ==
    /\ Goto("control_loop_run", "create_capture")
    /\ control_loop_run' = TRUE
    /\ UNCHANGED <<device_loop_run, capture_loop_run, device_file, mapVars, driver,
                   threadVars, services>>

CreateCaptureThread ==
    /\ Goto("create_capture", "create_control")
    /\ capture_pc' = "stream_on"
    /\ UNCHANGED <<flags, device_file, mapVars, driver, capture_index, control_pc,
                   services>>

CreateControlThread ==
    /\ Goto("create_control", "poll")
    /\ control_pc' = "load"
    /\ UNCHANGED <<flags, device_file, mapVars, driver, capture_pc, capture_index,
                   services>>

-----------------------------------------------------------------------------
(* Waiting for the session to end, and tearing it down. *)

PollFlags ==
    /\ Goto("poll", "join_capture")
    /\ ~capture_loop_run /\ ~control_loop_run
    /\ UNCHANGED session

(* Fault form: wait for the capture thread however long it takes. *)
JoinCapture_NoTimeout ==
    /\ Goto("join_capture", "join_control")
    /\ capture_pc = "done"
    /\ UNCHANGED session

(* Fault form: the join comes back at once. *)
JoinCapture_TooShort == Goto("join_capture", "join_control") /\ UNCHANGED session

(* pthread_timedjoin_np: the thread has ended, or it is still blocked in DQBUF
   after two seconds and is cancelled.  ioctl is no cancellation point, so the
   cancelled thread stays where it is. *)
JoinCapture ==
    /\ Goto("join_capture", "join_control")
    /\ capture_pc = "done" \/ (SilentCamera /\ capture_pc = "dqbuf")
    /\ UNCHANGED session

(* The control thread's loop takes well under two seconds. *)
JoinControl ==
    /\ Goto("join_control", "unmap")
    /\ control_pc = "done"
    /\ UNCHANGED session

(* munmap of every entry that is not MAP_FAILED; on an entry never set it does
   nothing but the entry becomes MAP_FAILED all the same. *)
UnmapBuffers ==
    /\ Goto("unmap", "close")
    /\ buffer_memory_map' = [i \in Index |-> "failed"]
    /\ UNCHANGED <<flags, device_file, has_buffer_mapped, map_index, driver,
                   threadVars, services>>

(* The driver releases its queue with the last user of the file: an ioctl that
   is still in DQBUF keeps it. *)
CloseDevice ==
    /\ Goto("close", "hw_close")
    /\ device_file' = FALSE
    /\ driver' = IF capture_pc = "dqbuf" THEN driver ELSE {}
    /\ UNCHANGED <<flags, mapVars, threadVars, services>>

HwClose ==
    /\ Goto("hw_close", "stop_cec")
    /\ hw' = FALSE
    /\ UNCHANGED <<flags, device_file, mapVars, driver, threadVars, cec>>

StopCecControls ==
    /\ Goto("stop_cec", "device_loop")
    /\ cec' = FALSE
    /\ UNCHANGED <<flags, device_file, mapVars, driver, threadVars, hw>>

(* stop_drm and ve_close; main returns and the process ends. *)
StopDrm == Goto("stop_drm", "exit") /\ UNCHANGED session

-----------------------------------------------------------------------------
(* The capture thread: capture_loop. *)

StreamOn ==
    /\ capture_pc = "stream_on"
    /\ capture_pc' = "loop"
    /\ UNCHANGED <<mainVars, flags, driver, capture_index, control_pc>>

StreamOnFails ==
    /\ capture_pc = "stream_on"
    /\ capture_loop_run' = FALSE
    /\ control_loop_run' = FALSE
    /\ capture_pc' = "done"
    /\ UNCHANGED <<mainVars, device_loop_run, driver, capture_index, control_pc>>

CaptureLoop ==
    /\ capture_pc = "loop"
    /\ capture_pc' = IF capture_loop_run THEN "dqbuf" ELSE "stream_off"
    /\ UNCHANGED <<mainVars, flags, driver, capture_index, control_pc>>

(* The camera has filled a queued buffer. *)
Dequeue ==
    /\ capture_pc = "dqbuf"
    /\ \E i \in driver :
          /\ driver' = driver \ {i}
          /\ capture_index' = i
    /\ capture_pc' = "decode"
    /\ UNCHANGED <<mainVars, flags, control_pc>>

(* Fault form: only the capture loop is told to stop. *)
DequeueFails_CaptureOnly ==
    /\ capture_pc = "dqbuf"
    /\ capture_loop_run' = FALSE
    /\ capture_pc' = "loop"
    /\ UNCHANGED <<mainVars, device_loop_run, control_loop_run, driver, capture_index, control_pc>>

(* The camera is gone. *)
DequeueFails ==
    /\ capture_pc = "dqbuf"
    /\ capture_loop_run' = FALSE
    /\ control_loop_run' = FALSE
    /\ capture_pc' = "loop"
    /\ UNCHANGED <<mainVars, device_loop_run, driver, capture_index, control_pc>>

(* hw_decode_jpeg_main reads the dequeued buffer's mapping. *)
DecodeJpeg ==
    /\ capture_pc = "decode"
    /\ capture_pc' = "qbuf"
    /\ UNCHANGED <<mainVars, flags, driver, capture_index, control_pc>>

(* Fault form: the buffer is not given back to the driver. *)
Requeue_Forgotten ==
    /\ capture_pc = "qbuf"
    /\ capture_pc' = "loop"
    /\ UNCHANGED <<mainVars, flags, driver, capture_index, control_pc>>

Requeue ==
    /\ capture_pc = "qbuf"
    /\ driver' = driver \cup {capture_index}
    /\ capture_pc' = "loop"
    /\ UNCHANGED <<mainVars, flags, capture_index, control_pc>>

(* Logged and otherwise ignored: the driver has one buffer less. *)
RequeueFails ==
    /\ QbufFaults
    /\ capture_pc = "qbuf"
    /\ capture_pc' = "loop"
    /\ UNCHANGED <<mainVars, flags, driver, capture_index, control_pc>>

(* VIDIOC_STREAMOFF takes every buffer back from the driver. *)
StreamOff ==
    /\ capture_pc = "stream_off"
    /\ driver' = {}
    /\ capture_pc' = "done"
    /\ UNCHANGED <<mainVars, flags, capture_index, control_pc>>

-----------------------------------------------------------------------------
(* The control thread: control_loop, of which only the use of the device and
   the loop flag matter here. *)

LoadControls ==
    /\ control_pc = "load"
    /\ control_pc' = "loop"
    /\ UNCHANGED <<mainVars, flags, driver, capture_pc, capture_index>>

LeaveControlLoop ==
    /\ control_pc = "loop"
    /\ ~control_loop_run
    /\ control_pc' = "done"
    /\ UNCHANGED <<mainVars, flags, driver, capture_pc, capture_index>>

-----------------------------------------------------------------------------
(* signal_callback_handler.  It interrupts main, and each other thread looks at
   one of the flags only, so the three stores are one step. *)
Sigint ==
    /\ device_loop_run' = FALSE
    /\ capture_loop_run' = FALSE
    /\ control_loop_run' = FALSE
    /\ UNCHANGED <<mainVars, driver, threadVars>>

(* exit(1) in the capture thread's init_display or in the display thread, which
   runs until hw_close. *)
DisplayExits ==
    /\ hw
    /\ main_pc \in {"create_control", "poll", "join_capture", "join_control",
                    "unmap", "close", "hw_close"}
    /\ main_pc' = "exit"
    /\ UNCHANGED session

-----------------------------------------------------------------------------
Init ==
    /\ main_pc = "start_drm"
    /\ device_loop_run = FALSE
    /\ capture_loop_run = FALSE
    /\ control_loop_run = FALSE
    /\ device_file = FALSE
    /\ buffer_memory_map = [i \in Index |-> "null"]
    /\ has_buffer_mapped = FALSE
    /\ map_index = 0
    /\ driver = {}
    /\ capture_pc = "none"
    /\ capture_index = 0
    /\ control_pc = "none"
    /\ cec = FALSE
    /\ hw = FALSE

MainThread ==
    \/ StartDrm \/ SetDeviceLoopRun \/ DeviceLoop \/ OpenDevice \/ OpenDeviceFails
    \/ NegotiateFormat \/ FormatFails \/ MapBuffer \/ MapBufferFails
    \/ QueueMappedFails \/ CheckMapped \/ InitCecControls \/ HwInit
    \/ SetCaptureLoopRun \/ SetControlLoopRun
    \/ CreateCaptureThread \/ CreateControlThread
    \/ PollFlags \/ JoinCapture \/ JoinControl \/ UnmapBuffers \/ CloseDevice
    \/ HwClose \/ StopCecControls \/ StopDrm

CaptureThread ==
    \/ StreamOn \/ StreamOnFails \/ CaptureLoop \/ DecodeJpeg
    \/ Requeue \/ RequeueFails \/ StreamOff

DequeueReturns == Dequeue \/ DequeueFails

ControlThread == LoadControls \/ LeaveControlLoop

Running == main_pc # "exit"

Next ==
    /\ Running
    /\ \/ MainThread \/ CaptureThread \/ DequeueReturns \/ ControlThread
       \/ DisplayExits \/ Sigint

Spec == Init /\ [][Next]_vars

(* Threads are scheduled.  That DQBUF returns is only promised for a camera that
   never falls silent. *)
Fairness ==
    /\ WF_vars(Running /\ MainThread)
    /\ WF_vars(Running /\ CaptureThread)
    /\ WF_vars(Running /\ ControlThread)
    /\ WF_vars(Running /\ ~SilentCamera /\ DequeueReturns)

FairSpec == Spec /\ Fairness

-----------------------------------------------------------------------------
CaptureAlive == capture_pc \notin {"none", "done"}
ControlAlive == control_pc \notin {"none", "done"}
Mapped == {i \in Index : buffer_memory_map[i] = "mapped"}

(* Type invariant: the map index stays inside buffer_memory_map and every thread
   is at one of its program points (main.c:38-39, 260). *)
TypeOK ==
    /\ main_pc \in {"start_drm", "device_loop_run", "device_loop", "open", "format",
                    "map", "mapped", "init_cec", "hw_init", "capture_loop_run",
                    "control_loop_run", "create_capture", "create_control", "poll",
                    "join_capture", "join_control", "unmap", "close", "hw_close",
                    "stop_cec", "stop_drm", "exit"}
    /\ device_loop_run \in BOOLEAN
    /\ capture_loop_run \in BOOLEAN
    /\ control_loop_run \in BOOLEAN
    /\ device_file \in BOOLEAN
    /\ buffer_memory_map \in [Index -> {"null", "failed", "mapped"}]
    /\ has_buffer_mapped \in BOOLEAN
    /\ map_index \in 0..CAPTURE_BUFFER_COUNT
    /\ main_pc = "map" => map_index \in Index
    /\ driver \subseteq Index
    /\ capture_pc \in {"none", "stream_on", "loop", "dqbuf", "decode", "qbuf",
                       "stream_off", "done"}
    /\ capture_index \in Index
    /\ control_pc \in {"none", "load", "loop", "done"}
    /\ cec \in BOOLEAN
    /\ hw \in BOOLEAN

(* A session starts from nothing: when main opens the device, whatever way the
   last attempt ended (main.c:174-300, 349-360), no device is open, no buffer is
   mapped, CEC and the decoder are off and both threads have ended. *)
CleanStart ==
    main_pc = "open" =>
        /\ ~device_file /\ Mapped = {}
        /\ ~cec /\ ~hw
        /\ ~CaptureAlive /\ ~ControlAlive

(* The threads use only what is there: the camera is open while either of them
   runs, and a frame is decoded from a mapped buffer (main.c:81, 349-358). *)
NoUseAfterTeardown ==
    /\ CaptureAlive \/ ControlAlive => device_file
    /\ capture_pc = "decode" => hw /\ capture_index \in Mapped

(* A capture thread that asks for a frame has left the driver a buffer to fill,
   however few of the three could be mapped (main.c:258-300). *)
NeverStarves == capture_pc = "dqbuf" => driver # {}

(* A thread main gave up joining is left behind only in a program that is about
   to end: it can meet no new session (main.c:328-345). *)
StrayOnlyAtExit ==
    CaptureAlive /\ main_pc \notin {"create_control", "poll", "join_capture", "exit"}
        => ~device_loop_run

(* When the camera fails, the device is closed and opened again, unless the
   program was told to stop or the display failed (main.c:87-93, 165, 322). *)
CameraReopened ==
    (capture_pc = "stream_off" /\ device_loop_run)
        ~> (main_pc \in {"open", "exit"} \/ ~device_loop_run)

(* A SIGINT that finds main polling ends the program, even when the camera has
   fallen silent and the capture thread hangs in DQBUF (main.c:319-347). *)
StopsWhenPolling ==
    (main_pc = "poll" /\ ~device_loop_run /\ ~capture_loop_run /\ ~control_loop_run)
        ~> main_pc = "exit"

(* What the handler's comment says of every SIGINT, "Terminate program"
   (main.c:51).  device_loop_run is cleared by the handler only. *)
Interrupted ==
    /\ ~device_loop_run
    /\ main_pc \notin {"start_drm", "device_loop_run"}

SigintTerminates == Interrupted ~> main_pc = "exit"

=============================================================================
