-------------------------- MODULE SwapChainChannel --------------------------
(***************************************************************************)
(* The swap chain implements FrameChannel: the display queue, read through *)
(* the buffers' contents, is the channel's queue, the display thread's     *)
(* buffer its current frame, and what the planes scan out its screen.      *)
(***************************************************************************)
EXTENDS SwapChain, Sequences

FrameIn(b) == content[b]

QueuedFrames ==
    LET q == current_display_buffer
    IN  IF display_pc = "off" \/ q[0] = NoBuffer THEN <<>>
        ELSE IF q[1] = NoBuffer THEN <<FrameIn(q[0])>>
        ELSE IF q[2] = NoBuffer THEN <<FrameIn(q[0]), FrameIn(q[1])>>
        ELSE <<FrameIn(q[0]), FrameIn(q[1]), FrameIn(q[2])>>

CurrentFrame ==
    IF display_pc # "off" /\ display_buffer # NoBuffer
    THEN FrameIn(display_buffer) ELSE -1

OnScreen == [o \in Outputs |-> IF planes[o] = NoBuffer THEN -1 ELSE FrameIn(planes[o])]

Channel == INSTANCE FrameChannel WITH
    open <- display_pc # "off",
    queue <- QueuedFrames,
    current <- CurrentFrame,
    screen <- OnScreen

(* Without spurious wakeups and engine timeouts the threads of display.c and
   jpeg_dec_main.c implement the FIFO frame channel. *)
ImplementsChannel == Channel!Spec

=============================================================================
