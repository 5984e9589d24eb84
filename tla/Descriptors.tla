----------------------------- MODULE Descriptors -----------------------------
(***************************************************************************)
(* The file descriptors of a session, on top of the supervisor: the camera *)
(* (main), the CEC adapter, inotify (control thread) and the three frame   *)
(* buffers exported by init_display (capture thread).  Each part keeps its *)
(* numbers in static variables that nobody clears, the kernel hands out    *)
(* the lowest free number again, and deallocate_buffers closes what its    *)
(* variables say whether or not the session initialised the display.       *)
(*                                                                         *)
(* Number 0 is stdin.  The descriptors of DRM and the video engine stay    *)
(* open until the end and the control file's is closed where it is opened: *)
(* they take part in nothing here and are left out.                        *)
(***************************************************************************)
EXTENDS Supervisor, FiniteSetsExt

Fd == 0..6      \* enough for stdin, camera, CEC, inotify and three buffers
NoFd == -1

VARIABLES
    owner,       \* the kernel's table: who opened each number
    video_fd,    \* video_device.device_file
    cec_fd,
    inotify_fd,
    buf_fd,      \* buf_fd, buf_fd2 and buf_fd3
    display_up   \* has init_display run in this session?

fdVars == <<owner, video_fd, cec_fd, inotify_fd, buf_fd, display_up>>

-----------------------------------------------------------------------------
(* The kernel (external). *)
Lowest(table) == Min({n \in Fd : table[n] = "free"})

Opened(table, who) == [table EXCEPT ![Lowest(table)] = who]

(* A number that is not open gives EBADF, which nobody looks at. *)
Closed(table, n) == IF n \in Fd THEN [table EXCEPT ![n] = "free"] ELSE table

-----------------------------------------------------------------------------
OpenCamera ==
    /\ OpenDevice
    /\ video_fd' = Lowest(owner) /\ owner' = Opened(owner, "camera")
    /\ UNCHANGED <<cec_fd, inotify_fd, buf_fd, display_up>>

(* FormatFails, CloseDevice, and CheckMapped when nothing was mapped. *)
CloseCamera ==
    /\ FormatFails \/ CloseDevice \/ (CheckMapped /\ ~has_buffer_mapped)
    /\ owner' = Closed(owner, video_fd)
    /\ UNCHANGED <<video_fd, cec_fd, inotify_fd, buf_fd, display_up>>

OpenCec ==
    /\ InitCecControls
    /\ \/ cec_fd' = Lowest(owner) /\ owner' = Opened(owner, "cec")
       \/ cec_fd' = NoFd /\ UNCHANGED owner
    /\ UNCHANGED <<video_fd, inotify_fd, buf_fd, display_up>>

CloseCec ==
    /\ StopCecControls
    /\ owner' = IF cec_fd # 0 THEN Closed(owner, cec_fd) ELSE owner
    /\ UNCHANGED <<video_fd, cec_fd, inotify_fd, buf_fd, display_up>>

OpenInotify ==
    /\ LoadControls
    /\ inotify_fd' = Lowest(owner) /\ owner' = Opened(owner, "inotify")
    /\ UNCHANGED <<video_fd, cec_fd, buf_fd, display_up>>

CloseInotify ==
    /\ LeaveControlLoop
    /\ owner' = Closed(owner, inotify_fd)
    /\ UNCHANGED <<video_fd, cec_fd, inotify_fd, buf_fd, display_up>>

(* The first usable frame of a session: init_display exports three buffers. *)
ExportBuffers ==
    LET one == Opened(owner, "display")
        two == Opened(one, "display")
    IN  /\ DecodeJpeg /\ ~display_up
        /\ buf_fd' = <<Lowest(owner), Lowest(one), Lowest(two)>>
        /\ owner' = Opened(two, "display")
        /\ display_up' = TRUE
        /\ UNCHANGED <<video_fd, cec_fd, inotify_fd>>

(* Fault form: the third buffer's descriptor stays open. *)
deallocate_buffers_TwoOfThree(table) == Closed(Closed(table, buf_fd[1]), buf_fd[2])

deallocate_buffers(table) == Closed(Closed(Closed(table, buf_fd[1]), buf_fd[2]), buf_fd[3])

DeallocateBuffers ==
    /\ HwClose
    /\ owner' = deallocate_buffers(owner)
    /\ display_up' = FALSE
    /\ UNCHANGED <<video_fd, cec_fd, inotify_fd, buf_fd>>

(* The rest of the program opens and closes nothing. *)
Elsewhere ==
    /\ \/ StartDrm \/ SetDeviceLoopRun \/ DeviceLoop \/ OpenDeviceFails
       \/ NegotiateFormat \/ MapBuffer \/ MapBufferFails \/ QueueMappedFails
       \/ (CheckMapped /\ has_buffer_mapped)
       \/ HwInit \/ SetCaptureLoopRun \/ SetControlLoopRun
       \/ CreateCaptureThread \/ CreateControlThread
       \/ PollFlags \/ JoinCapture \/ JoinControl \/ UnmapBuffers \/ StopDrm
       \/ StreamOn \/ StreamOnFails \/ CaptureLoop \/ DecodeJpeg
       \/ Requeue \/ RequeueFails \/ StreamOff
       \/ DequeueReturns \/ DisplayExits \/ Sigint
    /\ UNCHANGED fdVars

DescriptorInit ==
    /\ Init
    /\ owner = [n \in Fd |-> IF n = 0 THEN "stdin" ELSE "free"]
    /\ video_fd = 0 /\ cec_fd = 0 /\ inotify_fd = 0
    /\ buf_fd = <<0, 0, 0>>
    /\ display_up = FALSE

DescriptorNext ==
    /\ Running
    /\ \/ OpenCamera \/ CloseCamera \/ OpenCec \/ CloseCec \/ OpenInotify \/ CloseInotify
       \/ ExportBuffers \/ DeallocateBuffers \/ Elsewhere

DescriptorSpec == DescriptorInit /\ [][DescriptorNext]_<<vars, fdVars>> /\ Fairness

-----------------------------------------------------------------------------
(* Each part of the program has open exactly what its variables say: no descriptor
   is lost when a session ends, none is closed under the part that uses it
   (main.c:172-361; display.c:730-806, 884-886; cec_controls.c:217, 258;
   control-file.c:434, 472).  There are two exceptions.  A session whose display never
   came up closes the numbers of an earlier session, and CEC, still open then, may
   have got one of them.  And a capture thread that main gave up may bring up the
   display after hw_close; only the end of the program follows. *)
OwnedBy(who, numbers) == {n \in Fd : owner[n] = who} = numbers

DescriptorsOwned ==
    /\ OwnedBy("camera", IF device_file THEN {video_fd} ELSE {})
    /\ OwnedBy("inotify", IF control_pc = "loop" THEN {inotify_fd} ELSE {})
    /\ main_pc # "stop_cec" =>
           OwnedBy("cec", IF cec /\ cec_fd # NoFd THEN {cec_fd} ELSE {})
    /\ hw \/ device_loop_run =>
           OwnedBy("display",
                   IF display_up THEN {buf_fd[1], buf_fd[2], buf_fd[3]} ELSE {})

=============================================================================
