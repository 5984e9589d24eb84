---------------------------- MODULE FrameChannel ----------------------------
(***************************************************************************)
(* What the swap chain promises, without buffers, locks or threads: a      *)
(* bounded FIFO channel of frames from the decoder to the outputs.  A      *)
(* session opens with a blank picture queued.  Frames are queued in the    *)
(* order of capture; the next one is taken only when every output shows    *)
(* the current one; no frame is lost, shown twice or altered on the way.   *)
(***************************************************************************)
EXTENDS Integers, Sequences

CONSTANTS Outputs, MaxFrame

Blank == 0
None == -1
Capacity == 3

VARIABLES open, queue, current, screen

chanVars == <<open, queue, current, screen>>

Open ==
    /\ ~open
    /\ open' = TRUE
    /\ queue' = <<Blank>>
    /\ UNCHANGED <<current, screen>>

PutFrame(f) ==
    /\ open
    /\ Len(queue) < Capacity
    /\ \A i \in 1..Len(queue) : queue[i] < f
    /\ current < f
    /\ queue' = Append(queue, f)
    /\ UNCHANGED <<open, current, screen>>

TakeFrame ==
    /\ queue # <<>>
    /\ \A o \in Outputs : screen[o] = current
    /\ current' = Head(queue)
    /\ queue' = Tail(queue)
    /\ UNCHANGED <<open, screen>>

Show(o) ==
    /\ screen[o] # current
    /\ screen' = [screen EXCEPT ![o] = current]
    /\ UNCHANGED <<open, queue, current>>

Close ==
    /\ open
    /\ open' = FALSE
    /\ queue' = <<>>
    /\ current' = None
    /\ screen' = [o \in Outputs |-> None]

Init ==
    /\ open = FALSE
    /\ queue = <<>>
    /\ current = None
    /\ screen = [o \in Outputs |-> None]

Next ==
    \/ Open \/ Close \/ TakeFrame
    \/ \E f \in 1..MaxFrame : PutFrame(f)
    \/ \E o \in Outputs : Show(o)

Spec == Init /\ [][Next]_chanVars

=============================================================================
