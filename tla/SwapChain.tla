------------------------------ MODULE SwapChain ------------------------------
(***************************************************************************)
(* The triple-buffered swap chain between the capture thread, which has    *)
(* the Cedar video engine (VE) decode JPEG frames into frame buffers, and  *)
(* the display thread, which puts decoded buffers on the HDMI and          *)
(* composite planes (display.c, jpeg_dec_main.c), from the first frame of  *)
(* a session (hw_init_display) to hw_close, and on to the next session.    *)
(*                                                                         *)
(* Granularity.  A critical section of current_values_lock is one step:    *)
(* everything it touches is touched only under that lock.                  *)
(* pthread_cond_wait splits it in two: the thread waits, is woken by a     *)
(* signal (or spuriously) and runs the rest under the lock again.          *)
(* run_video_update is read and written without the lock, so its accesses  *)
(* are steps of their own.                                                 *)
(***************************************************************************)
EXTENDS Integers

CONSTANTS
    MaxFrame,        \* bound: frames the camera delivers
    Outputs,         \* CRTCs (0 HDMI, 1 composite) find_new_plane found a plane for
    SpuriousWakeups, \* may pthread_cond_wait return without a signal?
    VeTimeouts       \* may ve_wait return before the engine is done?

ASSUME SwapChainAssumption ==
    /\ MaxFrame \in Nat
    /\ Outputs \subseteq {0, 1} /\ Outputs # {}
    /\ SpuriousWakeups \in BOOLEAN
    /\ VeTimeouts \in BOOLEAN

Buffer == 1..3
NoBuffer == 0
Slot == 0..2
Blank == 0          \* the picture init_display paints; frames are numbered from 1

VARIABLES
    current_display_buffer,   \* buffer_t: decoded, waiting to be shown
    current_available_buffer, \* buffer_t: free for decoding
    run_video_update,         \* the display thread's loop flag
    display_pc,               \* where the display thread is
    display_buffer,           \* its local: buffer on screen
    prev_display_buffer,      \* its local: buffer to give back
    capture_pc,               \* where the capture thread is
    write_buffer,             \* buffer number of the frame being decoded
    display_initialized,      \* jpeg_dec_main.c's flag
    main_pc,                  \* where the main thread is in terminate_display
    planes,                   \* buffer each CRTC's plane scans out
    engine,                   \* buffer the VE is writing, NoBuffer when idle
    content,                  \* frame each buffer holds
    frame,                    \* frames delivered so far
    exited                    \* exit(1) was called

queueVars == <<current_display_buffer, current_available_buffer>>
displayVars == <<display_pc, display_buffer, prev_display_buffer>>
captureVars == <<capture_pc, write_buffer, display_initialized, frame>>
hardwareVars == <<planes, engine, content>>
vars == <<queueVars, displayVars, captureVars, hardwareVars,
          run_video_update, main_pc, exited>>

-----------------------------------------------------------------------------
(* buffer_t: three slots, filled from slot 0, 0 for an empty slot. *)

EmptyQueue == [i \in Slot |-> NoBuffer]

(* Fault form: the vacated last slot keeps its buffer number. *)
forward_KeepsLast(arr) == [arr EXCEPT ![0] = arr[1], ![1] = arr[2]]

forward(arr) == [arr EXCEPT ![0] = arr[1], ![1] = arr[2], ![2] = NoBuffer]

(* Fault form: the third buffer is stored one past the array. *)
put_OffByOne(arr, data) ==
    IF arr[0] = NoBuffer THEN [arr EXCEPT ![0] = data]
    ELSE IF arr[1] = NoBuffer THEN [arr EXCEPT ![1] = data]
    ELSE [i \in 0..3 |-> IF i = 3 THEN data ELSE arr[i]]

(* Fault form: the newest buffer goes to the head of the queue. *)
put_AtHead(arr, data) ==
    IF data = NoBuffer THEN arr
    ELSE [arr EXCEPT ![0] = data, ![1] = arr[0], ![2] = arr[1]]

put(arr, data) ==
    IF arr[0] = NoBuffer THEN [arr EXCEPT ![0] = data]
    ELSE IF arr[1] = NoBuffer THEN [arr EXCEPT ![1] = data]
    ELSE IF arr[2] = NoBuffer THEN [arr EXCEPT ![2] = data]
    ELSE arr

(* Fault form: the signal is forgotten. *)
Signal_Forgotten(pc) == pc

(* pthread_cond_signal wakes the one thread that can wait on each condition. *)
SignalAvailable(pc) == IF pc = "wait" THEN "woken" ELSE pc
SignalDisplay(pc) == IF pc = "wait" THEN "woken" ELSE pc

-----------------------------------------------------------------------------
(* The display thread: display_thread_loop. *)

DisplayCheck ==
    /\ display_pc = "check"
    /\ display_pc' = IF run_video_update THEN "take" ELSE "done"
    /\ UNCHANGED <<queueVars, display_buffer, prev_display_buffer, captureVars,
                   hardwareVars, run_video_update, main_pc, exited>>

(* Under the lock: the head of the queue becomes the buffer to show. *)
TakeForDisplay ==
    /\ prev_display_buffer' = display_buffer
    /\ display_buffer' = current_display_buffer[0]
    /\ current_display_buffer' = forward(current_display_buffer)
    /\ display_pc' = "hdmi"

DisplayTake ==
    /\ display_pc = "take"
    /\ \/ /\ current_display_buffer[0] # NoBuffer
          /\ TakeForDisplay
       \/ /\ current_display_buffer[0] = NoBuffer
          /\ display_pc' = "wait"
          /\ UNCHANGED <<current_display_buffer, display_buffer, prev_display_buffer>>
    /\ UNCHANGED <<current_available_buffer, captureVars, hardwareVars,
                   run_video_update, main_pc, exited>>

(* Back from pthread_cond_wait: the queue may still be empty (terminate_display
   signals too), then nothing is drawn. *)
DisplayWoken ==
    /\ display_pc = "woken"
    /\ \/ /\ current_display_buffer[0] # NoBuffer
          /\ TakeForDisplay
       \/ /\ current_display_buffer[0] = NoBuffer
          /\ display_pc' = "release"
          /\ UNCHANGED <<current_display_buffer, display_buffer, prev_display_buffer>>
    /\ UNCHANGED <<current_available_buffer, captureVars, hardwareVars,
                   run_video_update, main_pc, exited>>

DisplaySpuriousWakeup ==
    /\ SpuriousWakeups
    /\ display_pc = "wait"
    /\ display_pc' = "woken"
    /\ UNCHANGED <<queueVars, display_buffer, prev_display_buffer, captureVars,
                   hardwareVars, run_video_update, main_pc, exited>>

(* Fault form: the second plane is never moved to the new buffer. *)
SetPlane_HdmiOnly(crtc, nextPc) ==
    /\ planes' = IF crtc = 0 \/ planes[crtc] = NoBuffer
                 THEN [planes EXCEPT ![crtc] = display_buffer] ELSE planes
    /\ display_pc' = nextPc
    /\ UNCHANGED <<queueVars, display_buffer, prev_display_buffer, captureVars,
                   engine, content, run_video_update, main_pc, exited>>

(* drmModeSetPlane on one CRTC, skipped where there is no plane. *)
SetPlane(crtc, nextPc) ==
    /\ planes' = IF crtc \in Outputs
                 THEN [planes EXCEPT ![crtc] = display_buffer] ELSE planes
    /\ display_pc' = nextPc
    /\ UNCHANGED <<queueVars, display_buffer, prev_display_buffer, captureVars,
                   engine, content, run_video_update, main_pc, exited>>

DisplayHdmi == display_pc = "hdmi" /\ SetPlane(0, "composite")

DisplayComposite == display_pc = "composite" /\ SetPlane(1, "release")

(* A failing drmModeSetPlane ends the process. *)
SetPlaneFails ==
    /\ \/ display_pc = "hdmi" /\ 0 \in Outputs
       \/ display_pc = "composite" /\ 1 \in Outputs
    /\ exited' = TRUE
    /\ UNCHANGED <<queueVars, displayVars, captureVars, hardwareVars,
                   run_video_update, main_pc>>

(* Fault form: the replaced buffer is never given back. *)
DisplayRelease_Leak ==
    /\ display_pc = "release"
    /\ prev_display_buffer' = NoBuffer
    /\ display_pc' = "check"
    /\ UNCHANGED <<queueVars, display_buffer, captureVars, hardwareVars,
                   run_video_update, main_pc, exited>>

(* Only after both planes show the new buffer is the previous one given back. *)
DisplayRelease ==
    /\ display_pc = "release"
    /\ IF prev_display_buffer # NoBuffer
       THEN /\ current_available_buffer' =
                   put(current_available_buffer, prev_display_buffer)
            /\ capture_pc' = SignalAvailable(capture_pc)
       ELSE UNCHANGED <<current_available_buffer, capture_pc>>
    /\ prev_display_buffer' = NoBuffer
    /\ display_pc' = "check"
    /\ UNCHANGED <<current_display_buffer, display_buffer, write_buffer,
                   display_initialized, frame, hardwareVars, run_video_update,
                   main_pc, exited>>

-----------------------------------------------------------------------------
(* The capture thread: hw_decode_jpeg_main, once per frame. *)

(* A frame that does not parse, or whose subsampling is unusable for
   initialising the display, is dropped. *)
DropFrame ==
    /\ capture_pc = "idle" /\ main_pc = "run"
    /\ frame < MaxFrame
    /\ frame' = frame + 1
    /\ UNCHANGED <<queueVars, displayVars, capture_pc, write_buffer,
                   display_initialized, hardwareVars, run_video_update, main_pc,
                   exited>>

StartFrame ==
    /\ capture_pc = "idle" /\ main_pc = "run"
    /\ frame < MaxFrame
    /\ frame' = frame + 1
    /\ capture_pc' = IF display_initialized THEN "get" ELSE "init"
    /\ UNCHANGED <<queueVars, displayVars, write_buffer, display_initialized,
                   hardwareVars, run_video_update, main_pc, exited>>

(* init_display: the buffers are created and painted, buffer 1 is queued for
   display, and the display thread starts.  Nothing else reads this state
   before pthread_create. *)
InitDisplay ==
    /\ capture_pc = "init"
    /\ current_display_buffer' = [EmptyQueue EXCEPT ![0] = 1]
    /\ current_available_buffer' = [EmptyQueue EXCEPT ![0] = 2, ![1] = 3]
    /\ content' = [b \in Buffer |-> Blank]
    /\ run_video_update' = TRUE
    /\ display_pc' = "check"
    /\ display_buffer' = NoBuffer
    /\ prev_display_buffer' = NoBuffer
    /\ capture_pc' = "outputs"
    /\ UNCHANGED <<write_buffer, display_initialized, frame, planes, engine, main_pc,
                   exited>>

(* The rest of hw_init_display: the addresses of the buffers' three components.
   The display thread runs already. *)
GetOutputs ==
    /\ capture_pc = "outputs"
    /\ display_initialized' = TRUE
    /\ capture_pc' = "get"
    /\ UNCHANGED <<queueVars, displayVars, write_buffer, frame, hardwareVars,
                   run_video_update, main_pc, exited>>

(* find_new_plane found no plane, or the first framebuffer was not created. *)
InitDisplayFails ==
    /\ capture_pc = "init"
    /\ exited' = TRUE
    /\ UNCHANGED <<queueVars, displayVars, captureVars, hardwareVars,
                   run_video_update, main_pc>>

(* get_buffer_number.  With both queues empty it fails and returns 0. *)
GetBuffer ==
    /\ capture_pc = "get"
    /\ \/ /\ \/ current_available_buffer[0] # NoBuffer
             \/ current_display_buffer[0] = NoBuffer
          /\ write_buffer' = current_available_buffer[0]
          /\ current_available_buffer' =
                 IF current_available_buffer[0] # NoBuffer
                 THEN forward(current_available_buffer)
                 ELSE current_available_buffer
          /\ capture_pc' = "decode"
       \/ /\ current_available_buffer[0] = NoBuffer
          /\ current_display_buffer[0] # NoBuffer
          /\ capture_pc' = "wait"
          /\ UNCHANGED <<current_available_buffer, write_buffer>>
    /\ UNCHANGED <<current_display_buffer, displayVars, display_initialized, frame,
                   hardwareVars, run_video_update, main_pc, exited>>

(* Back from pthread_cond_wait: the wait is not in a loop, so a spurious
   wakeup yields buffer number 0. *)
GetBufferWoken ==
    /\ capture_pc = "woken"
    /\ write_buffer' = current_available_buffer[0]
    /\ current_available_buffer' = forward(current_available_buffer)
    /\ capture_pc' = "decode"
    /\ UNCHANGED <<current_display_buffer, displayVars, display_initialized, frame,
                   hardwareVars, run_video_update, main_pc, exited>>

CaptureSpuriousWakeup ==
    /\ SpuriousWakeups
    /\ capture_pc = "wait"
    /\ capture_pc' = "woken"
    /\ UNCHANGED <<queueVars, displayVars, write_buffer, display_initialized, frame,
                   hardwareVars, run_video_update, main_pc, exited>>

(* Fault form: buffer 3 shares the addresses of buffer 2. *)
get_buffer_TwoOutputs(number) == IF number \in {2, 3} THEN 2 ELSE 1

(* get_buffer: the addresses that go with a buffer number; any number other
   than 2 and 3 selects buffer 1. *)
get_buffer(number) == IF number \in {2, 3} THEN number ELSE 1

(* hw_decode_jpeg up to the trigger.  Its tests for bad output addresses pass:
   init_display's offsets make them nonzero and ordered. *)
Decode ==
    /\ capture_pc = "decode"
    /\ engine' = get_buffer(write_buffer)
    /\ content' = [content EXCEPT ![get_buffer(write_buffer)] = frame]
    /\ capture_pc' = "ve_wait"
    /\ UNCHANGED <<queueVars, displayVars, write_buffer, display_initialized, frame,
                   planes, run_video_update, main_pc, exited>>

(* ve_wait returns on the engine's interrupt, or after its timeout; the result
   is not looked at. *)
VeWait ==
    /\ capture_pc = "ve_wait"
    /\ engine = NoBuffer \/ VeTimeouts
    /\ capture_pc' = "put"
    /\ UNCHANGED <<queueVars, displayVars, write_buffer, display_initialized, frame,
                   hardwareVars, run_video_update, main_pc, exited>>

PutBuffer ==
    /\ capture_pc = "put"
    /\ current_display_buffer' = put(current_display_buffer, write_buffer)
    /\ display_pc' = SignalDisplay(display_pc)
    /\ capture_pc' = "idle"
    /\ UNCHANGED <<current_available_buffer, display_buffer, prev_display_buffer,
                   write_buffer, display_initialized, frame, hardwareVars,
                   run_video_update, main_pc, exited>>

-----------------------------------------------------------------------------
(* The video engine (external): it finishes the picture it was triggered for. *)
EngineDone ==
    /\ engine # NoBuffer
    /\ engine' = NoBuffer
    /\ UNCHANGED <<queueVars, displayVars, captureVars, planes, content,
                   run_video_update, main_pc, exited>>

-----------------------------------------------------------------------------
(* The main thread: hw_close, called when the capture thread has been joined.
   ve_put disables the engine.  terminate_display returns at once when no
   display was initialised, which changes nothing here. *)
TerminateStop ==
    /\ main_pc = "run" /\ capture_pc = "idle"
    /\ display_initialized
    /\ engine' = NoBuffer
    /\ run_video_update' = FALSE
    /\ main_pc' = "signal"
    /\ UNCHANGED <<queueVars, displayVars, captureVars, planes, content, exited>>

(* pthread_cond_signal without the lock: lost unless the thread waits already. *)
TerminateSignal ==
    /\ main_pc = "signal"
    /\ display_pc' = SignalDisplay(display_pc)
    /\ main_pc' = "join"
    /\ UNCHANGED <<queueVars, display_buffer, prev_display_buffer, captureVars,
                   hardwareVars, run_video_update, exited>>

TerminateJoin ==
    /\ main_pc = "join"
    /\ display_pc = "done"
    /\ planes' = [p \in {0, 1} |-> NoBuffer]
    /\ display_pc' = "off"
    /\ display_initialized' = FALSE
    /\ main_pc' = "run"
    /\ UNCHANGED <<queueVars, display_buffer, prev_display_buffer, capture_pc,
                   write_buffer, frame, engine, content, run_video_update, exited>>

-----------------------------------------------------------------------------
Init ==
    /\ current_display_buffer = EmptyQueue
    /\ current_available_buffer = EmptyQueue
    /\ run_video_update = FALSE
    /\ display_pc = "off"
    /\ display_buffer = NoBuffer
    /\ prev_display_buffer = NoBuffer
    /\ capture_pc = "idle"
    /\ write_buffer = NoBuffer
    /\ display_initialized = FALSE
    /\ main_pc = "run"
    /\ planes = [p \in {0, 1} |-> NoBuffer]
    /\ engine = NoBuffer
    /\ content = [b \in Buffer |-> Blank]
    /\ frame = 0
    /\ exited = FALSE

DisplayThread ==
    \/ DisplayCheck \/ DisplayTake \/ DisplayWoken
    \/ DisplayHdmi \/ DisplayComposite \/ DisplayRelease

DecodeFrame ==
    \/ InitDisplay \/ GetOutputs \/ GetBuffer \/ GetBufferWoken
    \/ Decode \/ VeWait \/ PutBuffer

HwClose == TerminateSignal \/ TerminateJoin

Environment ==
    \/ DropFrame \/ StartFrame \/ TerminateStop
    \/ InitDisplayFails \/ SetPlaneFails
    \/ DisplaySpuriousWakeup \/ CaptureSpuriousWakeup

Next ==
    /\ ~exited
    /\ DisplayThread \/ DecodeFrame \/ HwClose \/ EngineDone \/ Environment

Spec == Init /\ [][Next]_vars

(* Threads are scheduled and the engine finishes; frames, failures, spurious
   wakeups and the end of a session are not promised. *)
Fairness ==
    /\ WF_vars(~exited /\ DisplayThread)
    /\ WF_vars(~exited /\ DecodeFrame)
    /\ WF_vars(~exited /\ HwClose)
    /\ WF_vars(~exited /\ EngineDone)

FairSpec == Spec /\ Fairness

-----------------------------------------------------------------------------
(* Type invariant: the arrays never grow past their three slots, buffer
   numbers stay in 0..3 and each thread is at one of its program points
   (display.c:29, 97-203; jpeg_dec_main.c:393-425). *)
BufferT == [Slot -> {NoBuffer} \cup Buffer]

TypeOK ==
    /\ current_display_buffer \in BufferT
    /\ current_available_buffer \in BufferT
    /\ run_video_update \in BOOLEAN
    /\ display_pc \in {"off", "check", "take", "wait", "woken", "hdmi",
                       "composite", "release", "done"}
    /\ display_buffer \in {NoBuffer} \cup Buffer
    /\ prev_display_buffer \in {NoBuffer} \cup Buffer
    /\ capture_pc \in {"idle", "init", "outputs", "get", "wait", "woken",
                       "decode", "ve_wait", "put"}
    /\ write_buffer \in {NoBuffer} \cup Buffer
    /\ display_initialized \in BOOLEAN
    /\ main_pc \in {"run", "signal", "join"}
    /\ planes \in [{0, 1} -> {NoBuffer} \cup Buffer]
    /\ engine \in {NoBuffer} \cup Buffer
    /\ content \in [Buffer -> 0..MaxFrame]
    /\ frame \in 0..MaxFrame
    /\ exited \in BOOLEAN

(* The buffer the capture thread owns: write_buffer is static and keeps its
   value after put_buffer, so it counts only while a frame is being decoded. *)
Held == IF capture_pc \in {"decode", "ve_wait", "put"} THEN write_buffer ELSE NoBuffer

(* Every place a buffer number can be: two queues, the capture thread, the
   screen and the display thread's hand-back. *)
Place == 1..9
At(k) ==
    CASE k \in 1..3 -> current_display_buffer[k - 1]
      [] k \in 4..6 -> current_available_buffer[k - 4]
      [] k = 7 -> Held
      [] k = 8 -> display_buffer
      [] k = 9 -> prev_display_buffer

(* While the display thread exists each of the three buffers is in exactly one
   place: none is lost by put (display.c:87-95, which drops what does not fit)
   and none is handed out twice, whatever wakeups and timeouts occur. *)
BuffersConserved ==
    display_pc # "off" =>
        /\ \A j, k \in Place : j # k /\ At(j) # NoBuffer => At(j) # At(k)
        /\ \A b \in Buffer : \E k \in Place : At(k) = b

(* A buffer a plane still scans out belongs to the display thread: it is given
   back (display.c:155-165) only when neither output shows it any more. *)
OnScreenOwned ==
    \A p \in {0, 1} : planes[p] # NoBuffer =>
        planes[p] \in {display_buffer, prev_display_buffer}

(* get_buffer_number never takes its "Failed to dequeue available buffer" branch
   (display.c:184-187): with three buffers one is always queued somewhere. *)
GetNeverFails ==
    capture_pc = "get" =>
        \/ current_available_buffer[0] # NoBuffer
        \/ current_display_buffer[0] # NoBuffer

(* The VE never writes into a buffer that an output shows or that waits to be
   shown.  It needs a platform without spurious wakeups (a wakeup without a
   signal makes get_buffer fall back to buffer 1, jpeg_dec_main.c:382) and
   decodes that end before ve_wait's timeout (jpeg_dec_main.c:275). *)
NoTearing ==
    engine # NoBuffer =>
        /\ \A p \in {0, 1} : planes[p] # engine
        /\ \A i \in Slot : current_display_buffer[i] # engine

(* Each output moves forward in time: a plane is only ever switched to a frame
   newer than the one it shows (display.c:97-168 and put_buffer's FIFO). *)
ShownInOrder ==
    [][\A p \in {0, 1} :
          planes[p] # NoBuffer /\ planes'[p] \notin {NoBuffer, planes[p]}
              => content'[planes'[p]] > content[planes[p]]]_vars

(* A frame handed over by put_buffer reaches every output, unless the session is
   being closed or the process has exited. *)
Queued(f) ==
    \E i \in Slot : /\ current_display_buffer[i] # NoBuffer
                    /\ content[current_display_buffer[i]] = f
Shown(f) == \A p \in Outputs : planes[p] # NoBuffer /\ content[planes[p]] = f

EveryFrameShown ==
    \A f \in 1..MaxFrame :
        (display_initialized /\ main_pc = "run" /\ Queued(f))
            ~> (Shown(f) \/ main_pc # "run" \/ exited)

(* A capture thread that waits for a free buffer (display.c:178-183) gets one. *)
CaptureResumes == (capture_pc = "wait") ~> (capture_pc = "decode" \/ exited)

(* terminate_display comes back: its signal, sent without the lock (display.c:849-851),
   is lost only on a display thread that has tested run_video_update and is about to
   wait for an empty queue. *)
SignalLost == display_pc = "take" /\ current_display_buffer[0] = NoBuffer

StopReturns == (main_pc = "signal" /\ ~SignalLost) ~> (main_pc = "run" \/ exited)

=============================================================================
