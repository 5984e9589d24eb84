-------------------------- MODULE SupervisorProofs --------------------------
(***************************************************************************)
(* Safety of main's sessions.  SessionInv says for each of main's program  *)
(* points which resources are held and which threads may run, for every    *)
(* camera and driver; BuffersMapped adds where the mappings are, for a     *)
(* driver that does not refuse a buffer; IInv adds where the capture       *)
(* buffers are and that no thread is left behind, for a camera that never  *)
(* falls silent either.  DescriptorInv, on top of SessionInv, says which   *)
(* file descriptor belongs to whom.                                        *)
(***************************************************************************)
EXTENDS Descriptors, TLAPS

(* Between these points the device is open, the decoder and CEC are on. *)
Starting == {"capture_loop_run", "control_loop_run", "create_capture"}
Serving == {"create_control", "poll", "join_capture", "join_control"}

DeviceOpen ==
    {"format", "map", "mapped", "init_cec", "hw_init", "unmap", "close"}
        \cup Starting \cup Serving
HwOn == {"unmap", "close", "hw_close"} \cup Starting \cup Serving
CecOn == {"hw_init", "stop_cec"} \cup HwOn
MayBeMapped == DeviceOpen \ {"format", "close"}

(* The end of the process may come at any point of a session, so what is known
   of a stopped program is only what its threads rely on. *)
Resources ==
    main_pc # "exit" =>
        /\ device_file <=> main_pc \in DeviceOpen
        /\ hw <=> main_pc \in HwOn
        /\ cec <=> main_pc \in CecOn

ControlJoined ==
    ControlAlive => main_pc \in {"poll", "join_capture", "join_control", "exit"}

(* Where main may be while a capture thread runs that it has not given up, and where
   it goes when it has. *)
Watched == {"create_control", "poll", "join_capture", "exit"}
Ending ==
    {"join_control", "unmap", "close", "hw_close", "stop_cec", "device_loop", "stop_drm"}

(* Only SIGINT tells a capture thread to stop that is not about to leave its loop by
   itself; so a thread that main finds in DQBUF when it joins is one of a program that
   was told to end. *)
StrayStops ==
    /\ CaptureAlive => main_pc \in Watched \/ (main_pc \in Ending /\ ~device_loop_run)
    /\ capture_pc \in {"dqbuf", "decode", "qbuf"} /\ ~capture_loop_run
          => ~device_loop_run
    /\ main_pc = "join_capture" => ~capture_loop_run

SessionInv == TypeOK /\ Resources /\ ControlJoined /\ StrayStops

(* A driver that takes every mapped buffer: what is mapped is unmapped again. *)
BuffersMapped ==
    /\ main_pc \notin MayBeMapped \cup {"exit"} => Mapped = {}
    /\ main_pc \in {"map", "mapped"} /\ ~has_buffer_mapped => Mapped = {}

CaptureJoined == CaptureAlive => main_pc \in Watched

(* A buffer is with the driver only while it is mapped, and one of them is with
   the driver whenever the capture thread holds none. *)
CaptureBuffers ==
    /\ main_pc \notin {"close", "exit"} => driver \subseteq Mapped
    /\ main_pc = "map" => \A i \in driver : i < map_index
    /\ main_pc \in {"map", "mapped"} /\ has_buffer_mapped => driver # {}
    /\ main_pc \in {"init_cec", "hw_init"} \cup Starting => driver # {}
    /\ capture_pc \in {"stream_on", "loop", "dqbuf"} => driver # {}
    /\ capture_pc \in {"decode", "qbuf"} => capture_index \in Mapped

(* Even where main has stopped, its threads have what they use. *)
IInv ==
    /\ SessionInv
    /\ BuffersMapped
    /\ CaptureJoined
    /\ NoUseAfterTeardown
    /\ CaptureBuffers

-----------------------------------------------------------------------------
(* The first state is type correct. *)
LEMMA TypeInit == Init => TypeOK
<1> SUFFICES ASSUME Init PROVE TypeOK
  OBVIOUS
<1>1. /\ device_loop_run \in BOOLEAN /\ capture_loop_run \in BOOLEAN
      /\ control_loop_run \in BOOLEAN /\ device_file \in BOOLEAN
      /\ has_buffer_mapped \in BOOLEAN /\ cec \in BOOLEAN /\ hw \in BOOLEAN
  BY Zenon DEF Init
<1>2. map_index \in 0..CAPTURE_BUFFER_COUNT /\ capture_index \in Index
  BY DEF Init, Index, CAPTURE_BUFFER_COUNT
<1> QED
  BY <1>1, <1>2 DEF Init, TypeOK

(* Every step of main.c keeps the types; the mapping loop leaves its index at
   the number of buffers. *)
LEMMA TypeStep == TypeOK /\ [Next]_vars => TypeOK'
<1> SUFFICES ASSUME TypeOK, [Next]_vars PROVE TypeOK'
  OBVIOUS
<1> USE DEF TypeOK, Index, CAPTURE_BUFFER_COUNT
<1>1. CASE StartDrm
  BY <1>1 DEF StartDrm, Goto, session, flags, mapVars, threadVars, services
<1>2. CASE SetDeviceLoopRun
  BY <1>2 DEF SetDeviceLoopRun, Goto, mapVars, threadVars, services
<1>3. CASE DeviceLoop
  BY <1>3 DEF DeviceLoop, session, flags, mapVars, threadVars, services
<1>4. CASE OpenDevice
  BY <1>4 DEF OpenDevice, Goto, flags, mapVars, threadVars, services
<1>5. CASE OpenDeviceFails
  BY <1>5 DEF OpenDeviceFails, Goto, session, flags, mapVars, threadVars, services
<1>6. CASE NegotiateFormat
  <2>1. has_buffer_mapped' = FALSE /\ map_index' = 0 /\ main_pc' = "map"
    BY <1>6 DEF NegotiateFormat, Goto
  <2>2. has_buffer_mapped' \in BOOLEAN
    BY <2>1, Zenon
  <2>3. map_index' \in 0..3 /\ map_index' \in 0..2
    BY <2>1
  <2> QED
    BY <1>6, <2>1, <2>2, <2>3 DEF NegotiateFormat, flags, threadVars, services
<1>7. CASE FormatFails
  BY <1>7 DEF FormatFails, Goto, flags, mapVars, threadVars, services
<1>8. CASE MapBuffer
  BY <1>8 DEF MapBuffer, flags, threadVars, services
<1>9. CASE MapBufferFails
  BY <1>9 DEF MapBufferFails, Goto, flags, threadVars, services
<1>10. CASE QueueMappedFails
  BY <1>10 DEF QueueMappedFails, Goto, flags, threadVars, services
<1>11. CASE CheckMapped
  BY <1>11 DEF CheckMapped, flags, mapVars, threadVars, services
<1>12. CASE InitCecControls
  BY <1>12 DEF InitCecControls, Goto, flags, mapVars, threadVars
<1>13. CASE HwInit
  BY <1>13 DEF HwInit, Goto, flags, mapVars, threadVars
<1>14. CASE SetCaptureLoopRun
  BY <1>14 DEF SetCaptureLoopRun, Goto, mapVars, threadVars, services
<1>15. CASE SetControlLoopRun
  BY <1>15 DEF SetControlLoopRun, Goto, mapVars, threadVars, services
<1>16. CASE CreateCaptureThread
  BY <1>16 DEF CreateCaptureThread, Goto, flags, mapVars, services
<1>17. CASE CreateControlThread
  BY <1>17 DEF CreateControlThread, Goto, flags, mapVars, services
<1>18. CASE PollFlags
  BY <1>18 DEF PollFlags, Goto, session, flags, mapVars, threadVars, services
<1>19. CASE JoinCapture
  BY <1>19 DEF JoinCapture, Goto, session, flags, mapVars, threadVars, services
<1>20. CASE JoinControl
  BY <1>20 DEF JoinControl, Goto, session, flags, mapVars, threadVars, services
<1>21. CASE UnmapBuffers
  BY <1>21 DEF UnmapBuffers, Goto, flags, threadVars, services
<1>22. CASE CloseDevice
  BY <1>22 DEF CloseDevice, Goto, flags, mapVars, threadVars, services
<1>23. CASE HwClose
  BY <1>23 DEF HwClose, Goto, flags, mapVars, threadVars
<1>24. CASE StopCecControls
  BY <1>24 DEF StopCecControls, Goto, flags, mapVars, threadVars
<1>25. CASE StopDrm
  BY <1>25 DEF StopDrm, Goto, session, flags, mapVars, threadVars, services
<1>26. CASE StreamOn
  BY <1>26 DEF StreamOn, mainVars, flags, mapVars, services
<1>27. CASE StreamOnFails
  <2>1. capture_loop_run' \in BOOLEAN /\ control_loop_run' \in BOOLEAN
    BY <1>27, Zenon DEF StreamOnFails
  <2> QED
    BY <1>27, <2>1 DEF StreamOnFails, mainVars, mapVars, services
<1>28. CASE CaptureLoop
  BY <1>28 DEF CaptureLoop, mainVars, flags, mapVars, services
<1>29. CASE Dequeue
  BY <1>29 DEF Dequeue, mainVars, flags, mapVars, services
<1>30. CASE DequeueFails
  <2>1. capture_loop_run' \in BOOLEAN /\ control_loop_run' \in BOOLEAN
    BY <1>30, Zenon DEF DequeueFails
  <2> QED
    BY <1>30, <2>1 DEF DequeueFails, mainVars, mapVars, services
<1>31. CASE DecodeJpeg
  BY <1>31 DEF DecodeJpeg, mainVars, flags, mapVars, services
<1>32. CASE Requeue
  BY <1>32 DEF Requeue, mainVars, flags, mapVars, services
<1>33. CASE RequeueFails
  BY <1>33 DEF RequeueFails, mainVars, flags, mapVars, services
<1>34. CASE StreamOff
  BY <1>34 DEF StreamOff, mainVars, flags, mapVars, services
<1>35. CASE LoadControls
  BY <1>35 DEF LoadControls, mainVars, flags, mapVars, services
<1>36. CASE LeaveControlLoop
  BY <1>36 DEF LeaveControlLoop, mainVars, flags, mapVars, services
<1>37. CASE DisplayExits
  BY <1>37 DEF DisplayExits, session, flags, mapVars, threadVars, services
<1>38. CASE Sigint
  <2>1. /\ device_loop_run' \in BOOLEAN /\ capture_loop_run' \in BOOLEAN
        /\ control_loop_run' \in BOOLEAN
    BY <1>38, Zenon DEF Sigint
  <2> QED
    BY <1>38, <2>1 DEF Sigint, mainVars, mapVars, threadVars, services
<1>39. CASE UNCHANGED vars
  BY <1>39 DEF vars, session, flags, mapVars, threadVars, services
<1> QED
  BY <1>1, <1>2, <1>3, <1>4, <1>5, <1>6, <1>7, <1>8, <1>9, <1>10, <1>11, <1>12,
     <1>13, <1>14, <1>15, <1>16, <1>17, <1>18, <1>19, <1>20, <1>21, <1>22, <1>23,
     <1>24, <1>25, <1>26, <1>27, <1>28, <1>29, <1>30, <1>31, <1>32, <1>33, <1>34,
     <1>35, <1>36, <1>37, <1>38, <1>39
  DEF Next, MainThread, CaptureThread, DequeueReturns, ControlThread, Running

(* Type correctness of main.c for every camera and driver. *)
THEOREM TypeCorrect == Spec => []TypeOK
BY TypeInit, TypeStep, PTL DEF Spec

-----------------------------------------------------------------------------
(* Before start_drm nothing is held and no thread runs. *)
LEMMA SessionInit == Init => SessionInv
<1> SUFFICES ASSUME Init PROVE SessionInv
  OBVIOUS
<1>1. TypeOK
  BY TypeInit
<1> QED
  BY <1>1 DEF Init, SessionInv, Resources, ControlJoined, StrayStops, CaptureAlive,
     ControlAlive, DeviceOpen, HwOn, CecOn, Starting, Serving, Watched, Ending

(* Whatever camera and driver do, main knows at each point what it holds, and a
   capture thread that it gave up meets a program that ends. *)
LEMMA SessionStep == SessionInv /\ [Next]_vars => SessionInv'
<1> SUFFICES ASSUME SessionInv, [Next]_vars PROVE SessionInv'
  OBVIOUS
<1>t. TypeOK /\ TypeOK'
  BY TypeStep DEF SessionInv
<1> USE DEF SessionInv, Resources, ControlJoined, StrayStops, CaptureAlive, ControlAlive,
            DeviceOpen, HwOn, CecOn, Starting, Serving, Watched, Ending, TypeOK
<1>1. CASE StartDrm
  BY <1>t, <1>1 DEF StartDrm, Goto, session, flags, mapVars, threadVars, services
<1>2. CASE SetDeviceLoopRun
  BY <1>t, <1>2 DEF SetDeviceLoopRun, Goto, mapVars, threadVars, services
<1>3. CASE DeviceLoop
  BY <1>t, <1>3 DEF DeviceLoop, session, flags, mapVars, threadVars, services
<1>4. CASE OpenDevice
  BY <1>t, <1>4 DEF OpenDevice, Goto, flags, mapVars, threadVars, services
<1>5. CASE OpenDeviceFails
  BY <1>t, <1>5 DEF OpenDeviceFails, Goto, session, flags, mapVars, threadVars,
      services
<1>6. CASE NegotiateFormat
  BY <1>t, <1>6 DEF NegotiateFormat, Goto, flags, threadVars, services
<1>7. CASE FormatFails
  BY <1>t, <1>7 DEF FormatFails, Goto, flags, mapVars, threadVars, services
<1>8. CASE MapBuffer
  BY <1>t, <1>8 DEF MapBuffer, flags, threadVars, services
<1>9. CASE MapBufferFails
  BY <1>t, <1>9 DEF MapBufferFails, Goto, flags, threadVars, services
<1>10. CASE QueueMappedFails
  BY <1>t, <1>10 DEF QueueMappedFails, Goto, flags, threadVars, services
<1>11. CASE CheckMapped
  BY <1>t, <1>11 DEF CheckMapped, flags, mapVars, threadVars, services
<1>12. CASE InitCecControls
  BY <1>t, <1>12 DEF InitCecControls, Goto, flags, mapVars, threadVars
<1>13. CASE HwInit
  BY <1>t, <1>13 DEF HwInit, Goto, flags, mapVars, threadVars
<1>14. CASE SetCaptureLoopRun
  BY <1>t, <1>14 DEF SetCaptureLoopRun, Goto, mapVars, threadVars, services
<1>15. CASE SetControlLoopRun
  BY <1>t, <1>15 DEF SetControlLoopRun, Goto, mapVars, threadVars, services
<1>16. CASE CreateCaptureThread
  BY <1>t, <1>16 DEF CreateCaptureThread, Goto, flags, mapVars, services
<1>17. CASE CreateControlThread
  BY <1>t, <1>17 DEF CreateControlThread, Goto, flags, mapVars, services
<1>18. CASE PollFlags
  BY <1>t, <1>18 DEF PollFlags, Goto, session, flags, mapVars, threadVars, services
<1>19. CASE JoinCapture
  BY <1>t, <1>19 DEF JoinCapture, Goto, session, flags, mapVars, threadVars,
      services
<1>20. CASE JoinControl
  BY <1>t, <1>20 DEF JoinControl, Goto, session, flags, mapVars, threadVars,
      services
<1>21. CASE UnmapBuffers
  BY <1>t, <1>21 DEF UnmapBuffers, Goto, flags, threadVars, services
<1>22. CASE CloseDevice
  BY <1>t, <1>22 DEF CloseDevice, Goto, flags, mapVars, threadVars, services
<1>23. CASE HwClose
  BY <1>t, <1>23 DEF HwClose, Goto, flags, mapVars, threadVars
<1>24. CASE StopCecControls
  BY <1>t, <1>24 DEF StopCecControls, Goto, flags, mapVars, threadVars
<1>25. CASE StopDrm
  BY <1>t, <1>25 DEF StopDrm, Goto, session, flags, mapVars, threadVars, services
<1>26. CASE StreamOn
  BY <1>t, <1>26 DEF StreamOn, mainVars, flags, mapVars, services
<1>27. CASE StreamOnFails
  BY <1>t, <1>27 DEF StreamOnFails, mainVars, mapVars, services
<1>28. CASE CaptureLoop
  BY <1>t, <1>28 DEF CaptureLoop, mainVars, flags, mapVars, services
<1>29. CASE Dequeue
  BY <1>t, <1>29 DEF Dequeue, mainVars, flags, mapVars, services
<1>30. CASE DequeueFails
  BY <1>t, <1>30 DEF DequeueFails, mainVars, mapVars, services
<1>31. CASE DecodeJpeg
  BY <1>t, <1>31 DEF DecodeJpeg, mainVars, flags, mapVars, services
<1>32. CASE Requeue
  BY <1>t, <1>32 DEF Requeue, mainVars, flags, mapVars, services
<1>33. CASE RequeueFails
  BY <1>t, <1>33 DEF RequeueFails, mainVars, flags, mapVars, services
<1>34. CASE StreamOff
  BY <1>t, <1>34 DEF StreamOff, mainVars, flags, mapVars, services
<1>35. CASE LoadControls
  BY <1>t, <1>35 DEF LoadControls, mainVars, flags, mapVars, services
<1>36. CASE LeaveControlLoop
  BY <1>t, <1>36 DEF LeaveControlLoop, mainVars, flags, mapVars, services
<1>37. CASE DisplayExits
  BY <1>t, <1>37 DEF DisplayExits, session, flags, mapVars, threadVars, services
<1>38. CASE Sigint
  BY <1>t, <1>38 DEF Sigint, mainVars, threadVars, mapVars, services
<1>39. CASE UNCHANGED vars
  BY <1>t, <1>39 DEF vars, session, flags, mapVars, threadVars, services
<1> QED
  BY <1>1, <1>2, <1>3, <1>4, <1>5, <1>6, <1>7, <1>8, <1>9, <1>10, <1>11, <1>12,
     <1>13, <1>14, <1>15, <1>16, <1>17, <1>18, <1>19, <1>20, <1>21, <1>22, <1>23,
     <1>24, <1>25, <1>26, <1>27, <1>28, <1>29, <1>30, <1>31, <1>32, <1>33, <1>34,
     <1>35, <1>36, <1>37, <1>38, <1>39
  DEF Next, MainThread, CaptureThread, DequeueReturns, ControlThread, Running

(* Hence every reachable state satisfies it. *)
LEMMA SessionAlways == Spec => []SessionInv
BY SessionInit, SessionStep, PTL DEF Spec

(* A capture thread that main gave up waiting for, blocked in the driver of a camera
   that fell silent, meets no later session: the program was told to end. *)
THEOREM StrayConfined == Spec => []StrayOnlyAtExit
<1>1. SessionInv => StrayOnlyAtExit
  BY DEF SessionInv, StrayStops, StrayOnlyAtExit, Watched, Ending
<1> QED
  BY <1>1, SessionAlways, PTL

-----------------------------------------------------------------------------
(* No buffer is mapped at first. *)
LEMMA MappedInit == Init => BuffersMapped
BY DEF Init, BuffersMapped, Mapped

(* With a driver that takes every buffer nothing stays mapped, whatever the camera
   does. *)
LEMMA MappedStep ==
    ASSUME ~QbufFaults
    PROVE  SessionInv /\ BuffersMapped /\ [Next]_vars => BuffersMapped'
<1> SUFFICES ASSUME SessionInv, BuffersMapped, [Next]_vars PROVE BuffersMapped'
  OBVIOUS
<1>t. TypeOK
  BY DEF SessionInv
<1> USE DEF BuffersMapped, Mapped, DeviceOpen, MayBeMapped, Starting, Serving, TypeOK,
            Index, CAPTURE_BUFFER_COUNT
<1>1. CASE StartDrm
  BY <1>t, <1>1 DEF StartDrm, Goto, session, flags, mapVars, threadVars, services
<1>2. CASE SetDeviceLoopRun
  BY <1>t, <1>2 DEF SetDeviceLoopRun, Goto, mapVars, threadVars, services
<1>3. CASE DeviceLoop
  BY <1>t, <1>3 DEF DeviceLoop, session, flags, mapVars, threadVars, services
<1>4. CASE OpenDevice
  BY <1>t, <1>4 DEF OpenDevice, Goto, flags, mapVars, threadVars, services
<1>5. CASE OpenDeviceFails
  BY <1>t, <1>5 DEF OpenDeviceFails, Goto, session, flags, mapVars, threadVars,
      services
<1>6. CASE NegotiateFormat
  BY <1>t, <1>6 DEF NegotiateFormat, Goto, flags, threadVars, services
<1>7. CASE FormatFails
  BY <1>t, <1>7 DEF FormatFails, Goto, flags, mapVars, threadVars, services
<1>8. CASE MapBuffer
  BY <1>t, <1>8 DEF MapBuffer, flags, threadVars, services
<1>9. CASE MapBufferFails
  BY <1>t, <1>9 DEF MapBufferFails, Goto, flags, threadVars, services
<1>10. CASE QueueMappedFails
  BY <1>t, <1>10 DEF QueueMappedFails, Goto, flags, threadVars, services
<1>11. CASE CheckMapped
  BY <1>t, <1>11 DEF CheckMapped, flags, mapVars, threadVars, services
<1>12. CASE InitCecControls
  BY <1>t, <1>12 DEF InitCecControls, Goto, flags, mapVars, threadVars
<1>13. CASE HwInit
  BY <1>t, <1>13 DEF HwInit, Goto, flags, mapVars, threadVars
<1>14. CASE SetCaptureLoopRun
  BY <1>t, <1>14 DEF SetCaptureLoopRun, Goto, mapVars, threadVars, services
<1>15. CASE SetControlLoopRun
  BY <1>t, <1>15 DEF SetControlLoopRun, Goto, mapVars, threadVars, services
<1>16. CASE CreateCaptureThread
  BY <1>t, <1>16 DEF CreateCaptureThread, Goto, flags, mapVars, services
<1>17. CASE CreateControlThread
  BY <1>t, <1>17 DEF CreateControlThread, Goto, flags, mapVars, services
<1>18. CASE PollFlags
  BY <1>t, <1>18 DEF PollFlags, Goto, session, flags, mapVars, threadVars, services
<1>19. CASE JoinCapture
  BY <1>t, <1>19 DEF JoinCapture, Goto, session, flags, mapVars, threadVars,
      services
<1>20. CASE JoinControl
  BY <1>t, <1>20 DEF JoinControl, Goto, session, flags, mapVars, threadVars,
      services
<1>21. CASE UnmapBuffers
  BY <1>t, <1>21 DEF UnmapBuffers, Goto, flags, threadVars, services
<1>22. CASE CloseDevice
  BY <1>t, <1>22 DEF CloseDevice, Goto, flags, mapVars, threadVars, services
<1>23. CASE HwClose
  BY <1>t, <1>23 DEF HwClose, Goto, flags, mapVars, threadVars
<1>24. CASE StopCecControls
  BY <1>t, <1>24 DEF StopCecControls, Goto, flags, mapVars, threadVars
<1>25. CASE StopDrm
  BY <1>t, <1>25 DEF StopDrm, Goto, session, flags, mapVars, threadVars, services
<1>26. CASE StreamOn
  BY <1>t, <1>26 DEF StreamOn, mainVars, flags, mapVars, services
<1>27. CASE StreamOnFails
  BY <1>t, <1>27 DEF StreamOnFails, mainVars, mapVars, services
<1>28. CASE CaptureLoop
  BY <1>t, <1>28 DEF CaptureLoop, mainVars, flags, mapVars, services
<1>29. CASE Dequeue
  BY <1>t, <1>29 DEF Dequeue, mainVars, flags, mapVars, services
<1>30. CASE DequeueFails
  BY <1>t, <1>30 DEF DequeueFails, mainVars, mapVars, services
<1>31. CASE DecodeJpeg
  BY <1>t, <1>31 DEF DecodeJpeg, mainVars, flags, mapVars, services
<1>32. CASE Requeue
  BY <1>t, <1>32 DEF Requeue, mainVars, flags, mapVars, services
<1>33. CASE RequeueFails
  BY <1>t, <1>33 DEF RequeueFails, mainVars, flags, mapVars, services
<1>34. CASE StreamOff
  BY <1>t, <1>34 DEF StreamOff, mainVars, flags, mapVars, services
<1>35. CASE LoadControls
  BY <1>t, <1>35 DEF LoadControls, mainVars, flags, mapVars, services
<1>36. CASE LeaveControlLoop
  BY <1>t, <1>36 DEF LeaveControlLoop, mainVars, flags, mapVars, services
<1>37. CASE DisplayExits
  BY <1>t, <1>37 DEF DisplayExits, session, flags, mapVars, threadVars, services
<1>38. CASE Sigint
  BY <1>t, <1>38 DEF Sigint, mainVars, threadVars, mapVars, services
<1>39. CASE UNCHANGED vars
  BY <1>t, <1>39 DEF vars, session, flags, mapVars, threadVars, services
<1> QED
  BY <1>1, <1>2, <1>3, <1>4, <1>5, <1>6, <1>7, <1>8, <1>9, <1>10, <1>11, <1>12,
     <1>13, <1>14, <1>15, <1>16, <1>17, <1>18, <1>19, <1>20, <1>21, <1>22, <1>23,
     <1>24, <1>25, <1>26, <1>27, <1>28, <1>29, <1>30, <1>31, <1>32, <1>33, <1>34,
     <1>35, <1>36, <1>37, <1>38, <1>39
  DEF Next, MainThread, CaptureThread, DequeueReturns, ControlThread, Running

LEMMA MappedAlways ==
    ASSUME ~QbufFaults
    PROVE  Spec => []BuffersMapped
BY SessionAlways, MappedInit, MappedStep, PTL DEF Spec

(* When main opens the device nothing is left of an earlier session, also after one
   whose camera fell silent. *)
THEOREM SessionsStartClean ==
    ASSUME ~QbufFaults
    PROVE  Spec => []CleanStart
<1>1. SessionInv /\ BuffersMapped => CleanStart
  BY DEF SessionInv, BuffersMapped, CleanStart, Resources, ControlJoined, StrayStops,
         DeviceOpen, HwOn, CecOn, MayBeMapped, Starting, Serving, Watched, Ending
<1> QED
  BY <1>1, SessionAlways, MappedAlways, PTL

-----------------------------------------------------------------------------
(* No thread runs and no buffer is queued at first. *)
LEMMA IInvInit == Init => IInv
<1> SUFFICES ASSUME Init PROVE IInv
  OBVIOUS
<1>1. SessionInv /\ BuffersMapped
  BY SessionInit, MappedInit
<1>2. Mapped = {}
  BY DEF Init, Mapped
<1> QED
  BY <1>1, <1>2 DEF Init, IInv, CaptureJoined, NoUseAfterTeardown, CaptureBuffers,
     CaptureAlive, ControlAlive, Starting, Watched

(* Every step of the code keeps the invariant. *)
LEMMA IInvStep ==
    ASSUME ~SilentCamera, ~QbufFaults
    PROVE  IInv /\ [Next]_vars => IInv'
<1> SUFFICES ASSUME IInv, [Next]_vars PROVE IInv'
  OBVIOUS
<1>t. SessionInv /\ BuffersMapped /\ SessionInv' /\ BuffersMapped'
  BY SessionStep, MappedStep DEF IInv
<1> USE DEF IInv, SessionInv, Resources, ControlJoined, BuffersMapped, CaptureJoined,
            NoUseAfterTeardown, CaptureBuffers, CaptureAlive, ControlAlive,
            DeviceOpen,
            HwOn, MayBeMapped, Starting, Serving, Watched, Mapped, TypeOK,
            Index, CAPTURE_BUFFER_COUNT
<1>1. CASE StartDrm
  BY <1>t, <1>1 DEF StartDrm, Goto, session, flags, mapVars, threadVars, services
<1>2. CASE SetDeviceLoopRun
  BY <1>t, <1>2 DEF SetDeviceLoopRun, Goto, mapVars, threadVars, services
<1>3. CASE DeviceLoop
  BY <1>t, <1>3 DEF DeviceLoop, session, flags, mapVars, threadVars, services
<1>4. CASE OpenDevice
  BY <1>t, <1>4 DEF OpenDevice, Goto, flags, mapVars, threadVars, services
<1>5. CASE OpenDeviceFails
  BY <1>t, <1>5 DEF OpenDeviceFails, Goto, session, flags, mapVars, threadVars,
      services
<1>6. CASE NegotiateFormat
  BY <1>t, <1>6 DEF NegotiateFormat, Goto, flags, threadVars, services
<1>7. CASE FormatFails
  BY <1>t, <1>7 DEF FormatFails, Goto, flags, mapVars, threadVars, services
<1>8. CASE MapBuffer
  BY <1>t, <1>8 DEF MapBuffer, flags, threadVars, services
<1>9. CASE MapBufferFails
  BY <1>t, <1>9 DEF MapBufferFails, Goto, flags, threadVars, services
<1>10. CASE QueueMappedFails
  BY <1>t, <1>10 DEF QueueMappedFails, Goto, flags, threadVars, services
<1>11. CASE CheckMapped
  BY <1>t, <1>11 DEF CheckMapped, flags, mapVars, threadVars, services
<1>12. CASE InitCecControls
  BY <1>t, <1>12 DEF InitCecControls, Goto, flags, mapVars, threadVars
<1>13. CASE HwInit
  BY <1>t, <1>13 DEF HwInit, Goto, flags, mapVars, threadVars
<1>14. CASE SetCaptureLoopRun
  BY <1>t, <1>14 DEF SetCaptureLoopRun, Goto, mapVars, threadVars, services
<1>15. CASE SetControlLoopRun
  BY <1>t, <1>15 DEF SetControlLoopRun, Goto, mapVars, threadVars, services
<1>16. CASE CreateCaptureThread
  BY <1>t, <1>16 DEF CreateCaptureThread, Goto, flags, mapVars, services
<1>17. CASE CreateControlThread
  BY <1>t, <1>17 DEF CreateControlThread, Goto, flags, mapVars, services
<1>18. CASE PollFlags
  BY <1>t, <1>18 DEF PollFlags, Goto, session, flags, mapVars, threadVars, services
<1>19. CASE JoinCapture
  BY <1>t, <1>19 DEF JoinCapture, Goto, session, flags, mapVars, threadVars,
      services
<1>20. CASE JoinControl
  BY <1>t, <1>20 DEF JoinControl, Goto, session, flags, mapVars, threadVars,
      services
<1>21. CASE UnmapBuffers
  BY <1>t, <1>21 DEF UnmapBuffers, Goto, flags, threadVars, services
<1>22. CASE CloseDevice
  BY <1>t, <1>22 DEF CloseDevice, Goto, flags, mapVars, threadVars, services
<1>23. CASE HwClose
  BY <1>t, <1>23 DEF HwClose, Goto, flags, mapVars, threadVars
<1>24. CASE StopCecControls
  BY <1>t, <1>24 DEF StopCecControls, Goto, flags, mapVars, threadVars
<1>25. CASE StopDrm
  BY <1>t, <1>25 DEF StopDrm, Goto, session, flags, mapVars, threadVars, services
<1>26. CASE StreamOn
  BY <1>t, <1>26 DEF StreamOn, mainVars, flags, mapVars, services
<1>27. CASE StreamOnFails
  BY <1>t, <1>27 DEF StreamOnFails, mainVars, mapVars, services
<1>28. CASE CaptureLoop
  BY <1>t, <1>28 DEF CaptureLoop, mainVars, flags, mapVars, services
<1>29. CASE Running /\ Dequeue
  BY <1>t, <1>29 DEF Running, Dequeue, mainVars, flags, mapVars, services
<1>30. CASE DequeueFails
  BY <1>t, <1>30 DEF DequeueFails, mainVars, mapVars, services
<1>31. CASE DecodeJpeg
  BY <1>t, <1>31 DEF DecodeJpeg, mainVars, flags, mapVars, services
<1>32. CASE Requeue
  BY <1>t, <1>32 DEF Requeue, mainVars, flags, mapVars, services
<1>33. CASE RequeueFails
  BY <1>t, <1>33 DEF RequeueFails, mainVars, flags, mapVars, services
<1>34. CASE StreamOff
  BY <1>t, <1>34 DEF StreamOff, mainVars, flags, mapVars, services
<1>35. CASE LoadControls
  BY <1>t, <1>35 DEF LoadControls, mainVars, flags, mapVars, services
<1>36. CASE LeaveControlLoop
  BY <1>t, <1>36 DEF LeaveControlLoop, mainVars, flags, mapVars, services
<1>37. CASE DisplayExits
  BY <1>t, <1>37 DEF DisplayExits, session, flags, mapVars, threadVars, services
<1>38. CASE Sigint
  BY <1>t, <1>38 DEF Sigint, mainVars, threadVars, mapVars, services
<1>39. CASE UNCHANGED vars
  BY <1>t, <1>39 DEF vars, session, flags, mapVars, threadVars, services
<1> QED
  BY <1>1, <1>2, <1>3, <1>4, <1>5, <1>6, <1>7, <1>8, <1>9, <1>10, <1>11, <1>12,
     <1>13, <1>14, <1>15, <1>16, <1>17, <1>18, <1>19, <1>20, <1>21, <1>22, <1>23,
     <1>24, <1>25, <1>26, <1>27, <1>28, <1>29, <1>30, <1>31, <1>32, <1>33, <1>34,
     <1>35, <1>36, <1>37, <1>38, <1>39
  DEF Next, MainThread, CaptureThread, DequeueReturns, ControlThread, Running

(* Hence every reachable state satisfies the invariant. *)
LEMMA IInvAlways ==
    ASSUME ~SilentCamera, ~QbufFaults
    PROVE  Spec => []IInv
BY IInvInit, IInvStep, PTL DEF Spec

(* No thread uses the device, the decoder or a mapping after main took it away. *)
THEOREM TeardownSafe ==
    ASSUME ~SilentCamera, ~QbufFaults
    PROVE  Spec => []NoUseAfterTeardown
<1>1. IInv => NoUseAfterTeardown
  BY DEF IInv
<1> QED
  BY <1>1, IInvAlways, PTL

(* A capture thread that waits for a frame has left the driver a buffer, when QBUF does
   not fail and DQBUF does not block for longer than a join waits (main.c:75-93). *)
THEOREM DriverNeverStarves ==
    ASSUME ~SilentCamera, ~QbufFaults
    PROVE  Spec => []NeverStarves
<1>1. IInv => NeverStarves
  BY DEF IInv, CaptureBuffers, NeverStarves
<1> QED
  BY <1>1, IInvAlways, PTL

-----------------------------------------------------------------------------
(* The file descriptors, for any camera and driver.  DescriptorInv says who owns each
   number. *)

Owners == {"stdin", "camera", "cec", "inotify", "display"}

FdTypeOK ==
    /\ owner \in [Fd -> {"free"} \cup Owners]
    /\ video_fd \in Fd /\ inotify_fd \in Fd
    /\ cec_fd \in Fd \cup {NoFd}
    /\ buf_fd \in Fd \X Fd \X Fd
    /\ display_up \in BOOLEAN

(* A number that is open belongs to a part in use whose variable names it. *)
Recorded ==
    \A n \in Fd :
        /\ owner[n] = "stdin" => n = 0
        /\ owner[n] = "camera" => device_file /\ n = video_fd
        /\ owner[n] = "cec" => cec /\ n = cec_fd
        /\ owner[n] = "inotify" => control_pc = "loop" /\ n = inotify_fd
        /\ owner[n] = "display" => display_up /\ n \in {buf_fd[1], buf_fd[2], buf_fd[3]}

(* A part in use owns its numbers, but for the two exceptions. *)
InUse ==
    /\ device_file => owner[video_fd] = "camera"
    /\ control_pc = "loop" => owner[inotify_fd] = "inotify"
    /\ cec /\ cec_fd # NoFd /\ main_pc # "stop_cec" => owner[cec_fd] = "cec"
    /\ display_up /\ (hw \/ device_loop_run) =>
           \A i \in {1, 2, 3} : owner[buf_fd[i]] = "display"

(* Only a capture thread that main gave up brings up the display outside hw_init
   and hw_close. *)
LateDisplay ==
    display_up =>
        \/ hw \/ main_pc = "exit"
        \/ main_pc \in {"stop_cec", "device_loop", "stop_drm"} /\ ~device_loop_run

(* The camera is opened first and gets number 0 if stdin's is free, so CEC, which
   takes 0 for not open, never does. *)
ZeroTaken ==
    /\ main_pc \in {"format", "map", "mapped", "init_cec"} => owner[0] # "free"
    /\ cec => cec_fd # 0

DescriptorInv == FdTypeOK /\ Recorded /\ InUse /\ LateDisplay /\ ZeroTaken

(* The kernel hands out a free number, the lowest one. *)
LEMMA LowestFree ==
    ASSUME NEW table, \E n \in Fd : table[n] = "free"
    PROVE  /\ Lowest(table) \in Fd /\ table[Lowest(table)] = "free"
           /\ table[0] = "free" => Lowest(table) = 0
<1> DEFINE S == {n \in Fd : table[n] = "free"}
<1>1. \E x \in S : \A y \in S : x <= y
  <2>1. S \subseteq 0..6 /\ S # {}
    BY DEF Fd
  <2> QED
    BY <2>1
<1>2. Lowest(table) \in S /\ \A y \in S : Lowest(table) <= y
  BY <1>1 DEF Lowest, Min
<1> QED
  BY <1>2 DEF Fd

(* Opening takes that number and no other. *)
LEMMA OpenedValue ==
    ASSUME NEW table \in [Fd -> {"free"} \cup Owners], NEW who \in Owners,
           \E n \in Fd : table[n] = "free"
    PROVE  /\ Opened(table, who) \in [Fd -> {"free"} \cup Owners]
           /\ \A n \in Fd : Opened(table, who)[n] =
                             IF n = Lowest(table) THEN who ELSE table[n]
BY LowestFree DEF Opened

(* Closing frees one number, or none where there is nothing to close. *)
LEMMA ClosedValue ==
    ASSUME NEW table \in [Fd -> {"free"} \cup Owners], NEW m \in Fd \cup {NoFd}
    PROVE  /\ Closed(table, m) \in [Fd -> {"free"} \cup Owners]
           /\ \A n \in Fd : Closed(table, m)[n] = IF n = m THEN "free" ELSE table[n]
BY DEF Closed

(* Seven numbers are enough: stdin and five others leave one free. *)
LEMMA Pigeonhole ==
    ASSUME NEW table, NEW a, NEW b, NEW c, NEW d, NEW e,
           \A n \in Fd : table[n] # "free" => n \in {0, a, b, c, d, e}
    PROVE  \E n \in Fd : table[n] = "free"
<1> SUFFICES ASSUME \A n \in 1..6 : n \in {a, b, c, d, e} PROVE FALSE
  BY DEF Fd
<1>1. /\ 1 \in {a, b, c, d, e} /\ 2 \in {a, b, c, d, e} /\ 3 \in {a, b, c, d, e}
      /\ 4 \in {a, b, c, d, e} /\ 5 \in {a, b, c, d, e} /\ 6 \in {a, b, c, d, e}
  OBVIOUS
<1> QED
  BY <1>1

(* At the start only stdin is open. *)
LEMMA DescriptorStart == DescriptorInit => DescriptorInv
<1> SUFFICES ASSUME DescriptorInit PROVE DescriptorInv
  OBVIOUS
<1>1. FdTypeOK
  <2>1. display_up \in BOOLEAN
    BY Zenon DEF DescriptorInit
  <2> QED
    BY <2>1 DEF DescriptorInit, FdTypeOK, Fd, NoFd, Owners
<1>2. Recorded
  BY DEF DescriptorInit, Recorded, Fd
<1>3. InUse /\ LateDisplay /\ ZeroTaken
  BY DEF DescriptorInit, Init, InUse, LateDisplay, ZeroTaken
<1> QED
  BY <1>1, <1>2, <1>3 DEF DescriptorInv

(* A step of the descriptors is a step of the supervisor. *)
LEMMA DescriptorIsSupervisor ==
    [DescriptorNext]_<<vars, fdVars>> => [Next]_vars
BY DEF DescriptorNext, Next, MainThread, CaptureThread, DequeueReturns, ControlThread,
       Running, OpenCamera, CloseCamera, OpenCec, CloseCec, OpenInotify,
       CloseInotify, ExportBuffers, DeallocateBuffers, Elsewhere

(* So the descriptors add nothing to what main does, and what is proved of the sessions
   holds with them. *)
LEMMA DescriptorsRefineSupervisor == DescriptorSpec => Spec
<1>1. DescriptorInit => Init
  BY DEF DescriptorInit
<1> QED
  BY <1>1, DescriptorIsSupervisor, PTL DEF DescriptorSpec, Spec

(* What the steps that open and close nothing do to the state the numbers hang on. *)
LEMMA ElsewhereKeeps ==
    ASSUME SessionInv, DescriptorInv, Running, Elsewhere
    PROVE  /\ device_file' = device_file /\ cec' = cec
           /\ control_pc' = "loop" <=> control_pc = "loop"
           /\ main_pc = "stop_cec" => main_pc' = "stop_cec"
           /\ main_pc' \in {"format", "map", "mapped", "init_cec"} =>
                  main_pc \in {"format", "map", "mapped", "init_cec"}
           /\ display_up => (hw' \/ device_loop_run' => hw \/ device_loop_run)
           /\ LateDisplay'
           /\ UNCHANGED fdVars
<1>t. /\ TypeOK /\ Resources /\ ControlJoined /\ StrayStops /\ LateDisplay
      /\ main_pc # "exit" /\ UNCHANGED fdVars
  BY DEF SessionInv, DescriptorInv, Running, Elsewhere
<1> USE DEF LateDisplay, fdVars, Goto
<1>1. CASE \/ StartDrm \/ SetDeviceLoopRun \/ DeviceLoop \/ OpenDeviceFails
           \/ NegotiateFormat \/ StopDrm
  BY <1>1, <1>t
  DEF StartDrm, SetDeviceLoopRun, DeviceLoop, OpenDeviceFails, NegotiateFormat,
      StopDrm, session, flags, mapVars, threadVars, services, Resources, HwOn,
      Starting, Serving
<1>2. CASE \/ MapBuffer \/ MapBufferFails \/ QueueMappedFails
           \/ (CheckMapped /\ has_buffer_mapped)
  BY <1>2, <1>t
  DEF MapBuffer, MapBufferFails, QueueMappedFails, CheckMapped, flags, mapVars,
      threadVars, services, Resources, DeviceOpen, HwOn, Starting, Serving
<1>3. CASE HwInit \/ SetCaptureLoopRun \/ SetControlLoopRun
  BY <1>3, <1>t
  DEF HwInit, SetCaptureLoopRun, SetControlLoopRun, flags, mapVars, threadVars,
      services, Resources, HwOn, Starting, Serving
<1>4. CASE CreateCaptureThread \/ CreateControlThread
  BY <1>4, <1>t
  DEF CreateCaptureThread, CreateControlThread, flags, mapVars, services,
      ControlJoined, ControlAlive
<1>5. CASE PollFlags \/ JoinCapture \/ JoinControl \/ UnmapBuffers
  BY <1>5, <1>t
  DEF PollFlags, JoinCapture, JoinControl, UnmapBuffers, session, flags, mapVars,
      threadVars, services
<1>6. CASE StreamOn \/ StreamOnFails \/ CaptureLoop \/ DecodeJpeg
  BY <1>6, <1>t
  DEF StreamOn, StreamOnFails, CaptureLoop, DecodeJpeg, mainVars, flags, mapVars,
      services
<1>7. CASE Requeue \/ RequeueFails \/ StreamOff \/ DequeueReturns
  BY <1>7, <1>t
  DEF Requeue, RequeueFails, StreamOff, DequeueReturns, Dequeue, DequeueFails,
      mainVars, flags, mapVars, services
<1>8. CASE DisplayExits \/ Sigint
  BY <1>8, <1>t
  DEF DisplayExits, Sigint, session, mainVars, flags, mapVars, threadVars, services
<1> QED
  BY <1>1, <1>2, <1>3, <1>4, <1>5, <1>6, <1>7, <1>8 DEF Elsewhere

(* Every step keeps the numbers where they belong. *)
LEMMA DescriptorStep ==
    ASSUME SessionInv, SessionInv', DescriptorInv, [DescriptorNext]_<<vars, fdVars>>
    PROVE  DescriptorInv'
<1>t. /\ Resources /\ ControlJoined /\ StrayStops /\ Resources' /\ TypeOK
      /\ FdTypeOK /\ Recorded /\ InUse /\ LateDisplay /\ ZeroTaken
  BY DEF SessionInv, DescriptorInv
<1>b. \A i \in {1, 2, 3} : buf_fd[i] \in Fd
  BY <1>t DEF FdTypeOK
<1>r. \A n \in Fd : owner[n] # "free" =>
          n \in {0, video_fd, cec_fd, inotify_fd, buf_fd[1], buf_fd[2], buf_fd[3]}
  BY <1>t DEF FdTypeOK, Recorded, Owners
<1> USE DEF Recorded, InUse, LateDisplay, ZeroTaken
<1>1. CASE OpenCamera
  <2>1. /\ ~device_file /\ ~display_up /\ device_file' = TRUE /\ main_pc = "open"
        /\ video_fd' = Lowest(owner) /\ owner' = Opened(owner, "camera")
        /\ UNCHANGED <<flags, control_pc, services, cec_fd, inotify_fd, buf_fd, display_up>>
        /\ main_pc' = "format" /\ ~cec
    BY <1>1, <1>t
    DEF OpenCamera, OpenDevice, Goto, flags, services, threadVars, Resources,
        DeviceOpen, HwOn, CecOn, Starting, Serving
  <2>2. \E n \in Fd : owner[n] = "free"
    <3>1. \A n \in Fd : owner[n] # "free" =>
              n \in {0, cec_fd, inotify_fd, buf_fd[1], buf_fd[2], buf_fd[3]}
      BY <1>t, <2>1 DEF FdTypeOK, Owners
    <3> QED
      BY <3>1, Pigeonhole
  <2>3. /\ owner' \in [Fd -> {"free"} \cup Owners]
        /\ video_fd' \in Fd /\ owner[video_fd'] = "free"
        /\ \A n \in Fd : owner'[n] = IF n = video_fd' THEN "camera" ELSE owner[n]
        /\ owner[0] = "free" => video_fd' = 0
    BY <1>t, <2>1, <2>2, LowestFree, OpenedValue DEF FdTypeOK, Owners
  <2>4. FdTypeOK'
    BY <1>t, <2>1, <2>3 DEF FdTypeOK
  <2>5. Recorded'
    BY <1>t, <1>b, <2>1, <2>3 DEF FdTypeOK, Owners
  <2>6. InUse'
    BY <1>t, <1>b, <2>1, <2>3 DEF flags, services, FdTypeOK
  <2>7. LateDisplay' /\ ZeroTaken'
    BY <1>t, <2>1, <2>3 DEF services, Fd
  <2> QED
    BY <2>4, <2>5, <2>6, <2>7 DEF DescriptorInv
<1>2. CASE CloseCamera
  <2>1. /\ device_file /\ device_file' = FALSE
        /\ main_pc' \in {"device_loop", "hw_close"}
        /\ main_pc \in {"format", "close", "mapped"}
        /\ owner' = Closed(owner, video_fd)
        /\ UNCHANGED <<flags, control_pc, services>>
        /\ UNCHANGED <<video_fd, cec_fd, inotify_fd, buf_fd, display_up>>
    BY <1>2, <1>t
    DEF CloseCamera, FormatFails, CloseDevice, CheckMapped, Goto, flags, services,
        threadVars, Resources, DeviceOpen, Starting, Serving
  <2>2. /\ owner' \in [Fd -> {"free"} \cup Owners]
        /\ \A n \in Fd : owner'[n] = IF n = video_fd THEN "free" ELSE owner[n]
    BY <1>t, <2>1, ClosedValue DEF FdTypeOK
  <2>3. owner[video_fd] = "camera"
    BY <1>t, <2>1
  <2>4. FdTypeOK'
    BY <1>t, <2>1, <2>2 DEF FdTypeOK
  <2>5. Recorded'
    BY <1>t, <2>1, <2>2 DEF services
  <2>6. InUse'
    BY <1>t, <1>b, <2>1, <2>2, <2>3 DEF flags, services, FdTypeOK
  <2>7. LateDisplay' /\ ZeroTaken'
    BY <1>t, <2>1 DEF flags, services, Resources, HwOn, Starting, Serving
  <2> QED
    BY <2>4, <2>5, <2>6, <2>7 DEF DescriptorInv
<1>3. CASE OpenCec
  <2>1. /\ ~cec /\ ~display_up /\ cec' = TRUE /\ main_pc = "init_cec"
        /\ main_pc' = "hw_init" /\ UNCHANGED <<flags, device_file, control_pc, hw>>
        /\ UNCHANGED <<video_fd, inotify_fd, buf_fd, display_up>>
        /\ \/ cec_fd' = Lowest(owner) /\ owner' = Opened(owner, "cec")
           \/ cec_fd' = NoFd /\ UNCHANGED owner
    BY <1>3, <1>t
    DEF OpenCec, InitCecControls, Goto, flags, threadVars, Resources, HwOn, CecOn,
        Starting, Serving
  <2>2. CASE cec_fd' = NoFd /\ UNCHANGED owner
    <3>1. FdTypeOK'
      BY <1>t, <2>1, <2>2 DEF FdTypeOK
    <3>2. Recorded' /\ InUse' /\ LateDisplay' /\ ZeroTaken'
      BY <1>t, <2>1, <2>2 DEF flags, FdTypeOK, NoFd
    <3> QED
      BY <3>1, <3>2 DEF DescriptorInv
  <2>3. CASE cec_fd' = Lowest(owner) /\ owner' = Opened(owner, "cec")
    <3>1. \E n \in Fd : owner[n] = "free"
      <4>1. \A n \in Fd : owner[n] # "free" =>
                n \in {0, video_fd, inotify_fd, buf_fd[1], buf_fd[2], buf_fd[3]}
        BY <1>t, <2>1 DEF FdTypeOK, Owners
      <4> QED
        BY <4>1, Pigeonhole
    <3>2. /\ owner' \in [Fd -> {"free"} \cup Owners]
          /\ cec_fd' \in Fd /\ owner[cec_fd'] = "free"
          /\ \A n \in Fd : owner'[n] = IF n = cec_fd' THEN "cec" ELSE owner[n]
      BY <1>t, <2>3, <3>1, LowestFree, OpenedValue DEF FdTypeOK, Owners
    <3>3. cec_fd' # 0
      BY <1>t, <2>1, <3>2
    <3>4. FdTypeOK'
      BY <1>t, <2>1, <3>2 DEF FdTypeOK
    <3>5. Recorded'
      BY <1>t, <1>b, <2>1, <3>2 DEF FdTypeOK, Owners
    <3>6. InUse'
      BY <1>t, <1>b, <2>1, <3>2 DEF flags, FdTypeOK
    <3>7. LateDisplay' /\ ZeroTaken'
      BY <1>t, <2>1, <3>3 DEF flags
    <3> QED
      BY <3>4, <3>5, <3>6, <3>7 DEF DescriptorInv
  <2> QED
    BY <2>1, <2>2, <2>3
<1>4. CASE CloseCec
  <2>1. /\ cec /\ ~hw /\ ~device_file /\ cec' = FALSE /\ main_pc = "stop_cec"
        /\ main_pc' = "device_loop" /\ owner' = Closed(owner, cec_fd)
        /\ UNCHANGED <<flags, device_file, control_pc, hw>>
        /\ UNCHANGED <<video_fd, cec_fd, inotify_fd, buf_fd, display_up>>
    BY <1>4, <1>t
    DEF CloseCec, StopCecControls, Goto, flags, threadVars, Resources, DeviceOpen,
        HwOn, CecOn, Starting, Serving
  <2>2. /\ owner' \in [Fd -> {"free"} \cup Owners]
        /\ \A n \in Fd : owner'[n] = IF n = cec_fd THEN "free" ELSE owner[n]
    BY <1>t, <2>1, ClosedValue DEF FdTypeOK
  <2>3. control_pc # "loop"
    BY <1>t, <2>1 DEF ControlJoined, ControlAlive
  <2>4. FdTypeOK'
    BY <1>t, <2>1, <2>2 DEF FdTypeOK
  <2>5. Recorded' /\ InUse' /\ LateDisplay' /\ ZeroTaken'
    BY <1>t, <2>1, <2>2, <2>3 DEF flags
  <2> QED
    BY <2>4, <2>5 DEF DescriptorInv
<1>5. CASE OpenInotify
  <2>1. /\ control_pc = "load" /\ control_pc' = "loop"
        /\ inotify_fd' = Lowest(owner) /\ owner' = Opened(owner, "inotify")
        /\ UNCHANGED <<main_pc, flags, device_file, services>>
        /\ UNCHANGED <<video_fd, cec_fd, buf_fd, display_up>>
    BY <1>5 DEF OpenInotify, LoadControls, mainVars
  <2>2. \E n \in Fd : owner[n] = "free"
    <3>1. \A n \in Fd : owner[n] # "free" =>
              n \in {0, video_fd, cec_fd, buf_fd[1], buf_fd[2], buf_fd[3]}
      BY <1>t, <2>1 DEF FdTypeOK, Owners
    <3> QED
      BY <3>1, Pigeonhole
  <2>3. /\ owner' \in [Fd -> {"free"} \cup Owners]
        /\ inotify_fd' \in Fd /\ owner[inotify_fd'] = "free"
        /\ \A n \in Fd : owner'[n] = IF n = inotify_fd' THEN "inotify" ELSE owner[n]
    BY <1>t, <2>1, <2>2, LowestFree, OpenedValue DEF FdTypeOK, Owners
  <2>4. FdTypeOK'
    BY <1>t, <2>1, <2>3 DEF FdTypeOK
  <2>5. Recorded'
    BY <1>t, <1>b, <2>1, <2>3 DEF services, FdTypeOK, Owners
  <2>6. InUse' /\ LateDisplay' /\ ZeroTaken'
    BY <1>t, <1>b, <2>1, <2>3 DEF flags, services, FdTypeOK, Fd
  <2> QED
    BY <2>4, <2>5, <2>6 DEF DescriptorInv
<1>6. CASE CloseInotify
  <2>1. /\ control_pc = "loop" /\ control_pc' = "done"
        /\ owner' = Closed(owner, inotify_fd)
        /\ UNCHANGED <<main_pc, flags, device_file, services>>
        /\ UNCHANGED <<video_fd, cec_fd, inotify_fd, buf_fd, display_up>>
        /\ main_pc \in {"poll", "join_capture", "join_control", "exit"}
    BY <1>6, <1>t
    DEF CloseInotify, LeaveControlLoop, mainVars, ControlJoined, ControlAlive
  <2>2. /\ owner' \in [Fd -> {"free"} \cup Owners]
        /\ \A n \in Fd : owner'[n] = IF n = inotify_fd THEN "free" ELSE owner[n]
    BY <1>t, <2>1, ClosedValue DEF FdTypeOK
  <2>3. owner[inotify_fd] = "inotify"
    BY <1>t, <2>1
  <2>4. FdTypeOK'
    BY <1>t, <2>1, <2>2 DEF FdTypeOK
  <2>5. Recorded' /\ InUse' /\ LateDisplay' /\ ZeroTaken'
    BY <1>t, <1>b, <2>1, <2>2, <2>3 DEF flags, services, FdTypeOK
  <2> QED
    BY <2>4, <2>5 DEF DescriptorInv
<1>7. CASE ExportBuffers
  <2> DEFINE one == Opened(owner, "display")
             two == Opened(one, "display")
  <2>1. /\ ~display_up /\ display_up' = TRUE /\ capture_pc = "decode"
        /\ buf_fd' = <<Lowest(owner), Lowest(one), Lowest(two)>>
        /\ owner' = Opened(two, "display")
        /\ UNCHANGED <<main_pc, flags, device_file, control_pc, services>>
        /\ UNCHANGED <<video_fd, cec_fd, inotify_fd>>
    BY <1>7 DEF ExportBuffers, DecodeJpeg, mainVars
  <2>2. \A n \in Fd : owner[n] # "free" =>
            n \in {0, video_fd, cec_fd, inotify_fd, inotify_fd, inotify_fd}
    BY <1>t, <2>1 DEF FdTypeOK, Owners
  <2>3. /\ one \in [Fd -> {"free"} \cup Owners]
        /\ Lowest(owner) \in Fd /\ owner[Lowest(owner)] = "free"
        /\ \A n \in Fd : one[n] = IF n = Lowest(owner) THEN "display" ELSE owner[n]
    <3>1. \E n \in Fd : owner[n] = "free"
      BY <2>2, Pigeonhole
    <3> QED
      BY <1>t, <3>1, LowestFree, OpenedValue DEF FdTypeOK, Owners
  <2>4. /\ two \in [Fd -> {"free"} \cup Owners]
        /\ Lowest(one) \in Fd /\ one[Lowest(one)] = "free"
        /\ \A n \in Fd : two[n] = IF n = Lowest(one) THEN "display" ELSE one[n]
    <3>1. \A n \in Fd : one[n] # "free" =>
              n \in {0, video_fd, cec_fd, inotify_fd, Lowest(owner), Lowest(owner)}
      BY <2>2, <2>3
    <3>2. \E n \in Fd : one[n] = "free"
      BY <3>1, Pigeonhole
    <3> QED
      BY <2>3, <3>2, LowestFree, OpenedValue DEF Owners
  <2>5. /\ owner' \in [Fd -> {"free"} \cup Owners]
        /\ Lowest(two) \in Fd /\ two[Lowest(two)] = "free"
        /\ \A n \in Fd : owner'[n] = IF n = Lowest(two) THEN "display" ELSE two[n]
    <3>1. \A n \in Fd : two[n] # "free" =>
              n \in {0, video_fd, cec_fd, inotify_fd, Lowest(owner), Lowest(one)}
      BY <2>2, <2>3, <2>4
    <3>2. \E n \in Fd : two[n] = "free"
      BY <3>1, Pigeonhole
    <3> QED
      BY <2>1, <2>4, <3>2, LowestFree, OpenedValue DEF Owners
  <2>6. /\ buf_fd' \in Fd \X Fd \X Fd
        /\ buf_fd'[1] \in Fd /\ buf_fd'[2] \in Fd /\ buf_fd'[3] \in Fd
        /\ \A n \in Fd : IF n \in {buf_fd'[1], buf_fd'[2], buf_fd'[3]}
                         THEN owner[n] = "free" /\ owner'[n] = "display"
                         ELSE owner'[n] = owner[n]
    BY <2>1, <2>3, <2>4, <2>5
  <2> HIDE DEF one, two
  <2>7. FdTypeOK'
    BY <1>t, <2>1, <2>5, <2>6, Zenon DEF FdTypeOK
  <2>8. Recorded'
    BY <1>t, <1>b, <2>1, <2>6 DEF services, FdTypeOK, Owners
  <2>9. InUse' /\ ZeroTaken'
    BY <1>t, <2>1, <2>6 DEF flags, services, FdTypeOK, Fd
  <2>10. LateDisplay'
    BY <1>t, <2>1
    DEF flags, services, StrayStops, CaptureAlive, Watched, Ending, Resources, HwOn,
        Starting, Serving
  <2> QED
    BY <2>7, <2>8, <2>9, <2>10 DEF DescriptorInv
<1>8. CASE DeallocateBuffers
  <2> DEFINE one == Closed(owner, buf_fd[1])
             two == Closed(one, buf_fd[2])
  <2>1. /\ hw /\ ~device_file /\ main_pc = "hw_close" /\ main_pc' = "stop_cec"
        /\ hw' = FALSE /\ display_up' = FALSE /\ owner' = Closed(two, buf_fd[3])
        /\ UNCHANGED <<flags, device_file, control_pc, cec>>
        /\ UNCHANGED <<video_fd, cec_fd, inotify_fd, buf_fd>>
    BY <1>8, <1>t
    DEF DeallocateBuffers, deallocate_buffers, HwClose, Goto, flags, threadVars,
        Resources, DeviceOpen, HwOn, Starting, Serving
  <2>2. /\ owner' \in [Fd -> {"free"} \cup Owners]
        /\ \A n \in Fd : owner'[n] = IF n \in {buf_fd[1], buf_fd[2], buf_fd[3]}
                                     THEN "free" ELSE owner[n]
    <3>1. /\ one \in [Fd -> {"free"} \cup Owners]
          /\ \A n \in Fd : one[n] = IF n = buf_fd[1] THEN "free" ELSE owner[n]
      BY <1>t, <1>b, ClosedValue DEF FdTypeOK
    <3>2. /\ two \in [Fd -> {"free"} \cup Owners]
          /\ \A n \in Fd : two[n] = IF n = buf_fd[2] THEN "free" ELSE one[n]
      BY <1>b, <3>1, ClosedValue
    <3>3. /\ owner' \in [Fd -> {"free"} \cup Owners]
          /\ \A n \in Fd : owner'[n] = IF n = buf_fd[3] THEN "free" ELSE two[n]
      BY <1>b, <2>1, <3>2, ClosedValue
    <3> QED
      BY <3>1, <3>2, <3>3
  <2>3. control_pc # "loop"
    BY <1>t, <2>1 DEF ControlJoined, ControlAlive
  <2> HIDE DEF one, two
  <2>4. FdTypeOK'
    <3>1. display_up' \in BOOLEAN
      BY <2>1, Zenon
    <3> QED
      BY <1>t, <2>1, <2>2, <3>1 DEF FdTypeOK
  <2>5. Recorded' /\ InUse' /\ LateDisplay' /\ ZeroTaken'
    BY <1>t, <2>1, <2>2, <2>3 DEF flags
  <2> QED
    BY <2>4, <2>5 DEF DescriptorInv
<1>9. CASE Running /\ Elsewhere
  <2>1. /\ device_file' = device_file /\ cec' = cec
        /\ control_pc' = "loop" <=> control_pc = "loop"
        /\ main_pc = "stop_cec" => main_pc' = "stop_cec"
        /\ main_pc' \in {"format", "map", "mapped", "init_cec"} =>
               main_pc \in {"format", "map", "mapped", "init_cec"}
        /\ display_up => (hw' \/ device_loop_run' => hw \/ device_loop_run)
        /\ LateDisplay'
        /\ UNCHANGED fdVars
    BY <1>9, ElsewhereKeeps
  <2>2. FdTypeOK'
    BY <1>t, <2>1 DEF FdTypeOK, fdVars
  <2>3. Recorded'
    BY <1>t, <2>1 DEF fdVars
  <2>4. InUse'
    BY <1>t, <2>1 DEF fdVars
  <2>5. ZeroTaken'
    BY <1>t, <2>1 DEF fdVars
  <2> QED
    BY <2>1, <2>2, <2>3, <2>4, <2>5 DEF DescriptorInv
<1>10. CASE UNCHANGED <<vars, fdVars>>
  <2>1. FdTypeOK'
    BY <1>t, <1>10 DEF FdTypeOK, fdVars
  <2>2. Recorded' /\ InUse' /\ LateDisplay' /\ ZeroTaken'
    BY <1>t, <1>10 DEF vars, fdVars, session, flags, threadVars, services
  <2> QED
    BY <2>1, <2>2 DEF DescriptorInv
<1> QED
  BY <1>1, <1>2, <1>3, <1>4, <1>5, <1>6, <1>7, <1>8, <1>9, <1>10 DEF DescriptorNext

(* Each part of the program has exactly the descriptors open that its variables name:
   none is lost when a session ends and none is closed under the part that uses it,
   but for the two exceptions DescriptorsOwned states. *)
THEOREM DescriptorsKept == DescriptorSpec => []DescriptorsOwned
<1>1. ASSUME SessionInv, DescriptorInv
      PROVE  DescriptorsOwned
  <2>1. /\ FdTypeOK /\ Recorded /\ InUse /\ LateDisplay
    BY <1>1 DEF DescriptorInv
  <2>2. \A i \in {1, 2, 3} : buf_fd[i] \in Fd
    BY <2>1 DEF FdTypeOK
  <2>3. OwnedBy("camera", IF device_file THEN {video_fd} ELSE {})
    BY <2>1 DEF OwnedBy, FdTypeOK, Recorded, InUse
  <2>4. OwnedBy("inotify", IF control_pc = "loop" THEN {inotify_fd} ELSE {})
    BY <2>1 DEF OwnedBy, FdTypeOK, Recorded, InUse
  <2>5. ASSUME main_pc # "stop_cec"
        PROVE  OwnedBy("cec", IF cec /\ cec_fd # NoFd THEN {cec_fd} ELSE {})
    BY <2>1, <2>5 DEF OwnedBy, FdTypeOK, Recorded, InUse, NoFd, Fd
  <2>6. ASSUME hw \/ device_loop_run
        PROVE  OwnedBy("display",
                       IF display_up THEN {buf_fd[1], buf_fd[2], buf_fd[3]} ELSE {})
    BY <2>1, <2>2, <2>6 DEF OwnedBy, Recorded, InUse
  <2> QED
    BY <2>3, <2>4, <2>5, <2>6 DEF DescriptorsOwned
<1>2. DescriptorInit => SessionInv /\ DescriptorInv
  BY SessionInit, DescriptorStart DEF DescriptorInit
<1>3. SessionInv /\ DescriptorInv /\ [DescriptorNext]_<<vars, fdVars>>
          => (SessionInv /\ DescriptorInv)'
  BY SessionStep, DescriptorIsSupervisor, DescriptorStep
<1> QED
  BY <1>1, <1>2, <1>3, PTL DEF DescriptorSpec

=============================================================================
