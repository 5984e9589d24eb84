--------------------------- MODULE SwapChainProofs ---------------------------
(***************************************************************************)
(* Safety of the swap chain for every number of frames, every set of       *)
(* outputs and, except for NoTearing, with spurious wakeups and engine     *)
(* timeouts.  The inductive invariant is IInv.                             *)
(***************************************************************************)
EXTENDS SwapChainChannel, TLAPS

(* A queue is filled from slot 0 without gaps. *)
Packed(q) ==
    /\ q[0] = NoBuffer => q[1] = NoBuffer
    /\ q[1] = NoBuffer => q[2] = NoBuffer

Is(x, b) == IF x = b THEN 1 ELSE 0

(* How often buffer b occurs in a queue, and in all places together. *)
In(q, b) == Is(q[0], b) + Is(q[1], b) + Is(q[2], b)

Occurrences(b) ==
    In(current_display_buffer, b) + In(current_available_buffer, b)
    + Is(Held, b) + Is(display_buffer, b) + Is(prev_display_buffer, b)

(* Each buffer is in exactly one place. *)
Once == \A b \in Buffer : Occurrences(b) = 1

(* How the program points of the three threads go together. *)
Phases ==
    /\ display_pc = "off" =>
         /\ main_pc = "run"
         /\ capture_pc \in {"idle", "init"}
         /\ planes[0] = NoBuffer /\ planes[1] = NoBuffer
    /\ display_pc # "off" => capture_pc # "init"
    /\ display_initialized => display_pc # "off"
    /\ ~display_initialized => capture_pc \in {"idle", "init", "outputs"}
    /\ capture_pc = "idle" /\ display_pc # "off" => display_initialized
    /\ main_pc # "run" => capture_pc = "idle"

(* What the planes scan out at each point of the display thread. *)
OnPlanes ==
    /\ \A p \in {0, 1} : p \notin Outputs => planes[p] = NoBuffer
    /\ display_pc \in {"check", "take", "wait", "woken", "release", "done"} =>
         /\ planes[0] \in {NoBuffer, display_buffer}
         /\ planes[1] \in {NoBuffer, display_buffer}
    /\ display_pc = "hdmi" =>
         /\ planes[0] \in {NoBuffer, prev_display_buffer}
         /\ planes[1] \in {NoBuffer, prev_display_buffer}
    /\ display_pc = "composite" =>
         /\ planes[0] \in {NoBuffer, display_buffer}
         /\ planes[1] \in {NoBuffer, prev_display_buffer}

(* The display thread has nothing to give back outside its drawing steps. *)
NothingToGiveBack ==
    display_pc \in {"check", "take", "wait", "woken", "done"} =>
        prev_display_buffer = NoBuffer

Queues ==
    display_pc # "off" =>
        /\ Packed(current_display_buffer)
        /\ Packed(current_available_buffer)
        /\ Once

IInv == TypeOK /\ Phases /\ OnPlanes /\ NothingToGiveBack /\ Queues

(* On a platform without spurious wakeups and engine timeouts the engine only
   writes the buffer the capture thread holds. *)
EngineInv ==
    /\ capture_pc = "woken" => current_available_buffer[0] # NoBuffer
    /\ capture_pc \in {"decode", "ve_wait", "put"} => write_buffer # NoBuffer
    /\ engine # NoBuffer => capture_pc = "ve_wait" /\ engine = write_buffer

-----------------------------------------------------------------------------
(* The queue operations. *)

(* Occurrences are counted in Nat. *)
LEMMA InNat ==
    ASSUME NEW arr, NEW b
    PROVE  In(arr, b) \in Nat
BY DEF In, Is

(* forward takes the head off the queue and keeps the rest, in order. *)
LEMMA ForwardValue ==
    ASSUME NEW arr \in BufferT
    PROVE  /\ forward(arr) \in BufferT
           /\ forward(arr)[0] = arr[1]
           /\ forward(arr)[1] = arr[2]
           /\ forward(arr)[2] = NoBuffer
BY DEF forward, BufferT, Slot, Buffer, NoBuffer

(* put fills the first empty slot and touches no other. *)
LEMMA PutValue ==
    ASSUME NEW arr \in BufferT, NEW data \in {NoBuffer} \cup Buffer
    PROVE  /\ put(arr, data) \in BufferT
           /\ put(arr, data)[0] = IF arr[0] = NoBuffer THEN data ELSE arr[0]
           /\ put(arr, data)[1] =
                  IF arr[0] # NoBuffer /\ arr[1] = NoBuffer THEN data ELSE arr[1]
           /\ put(arr, data)[2] =
                  IF arr[0] # NoBuffer /\ arr[1] # NoBuffer /\ arr[2] = NoBuffer
                  THEN data ELSE arr[2]
BY DEF put, BufferT, Slot, Buffer, NoBuffer

(* put drops nothing when the last slot is empty. *)
LEMMA PutCount ==
    ASSUME NEW arr \in BufferT, Packed(arr),
           NEW data \in {NoBuffer} \cup Buffer,
           data = NoBuffer \/ arr[2] = NoBuffer,
           NEW b \in Buffer
    PROVE  /\ Packed(put(arr, data))
           /\ In(put(arr, data), b) = In(arr, b) + Is(data, b)
<1>1. CASE data = NoBuffer
  BY <1>1, PutValue DEF Packed, In, Is, BufferT, Slot, Buffer, NoBuffer
<1>2. CASE arr[2] = NoBuffer /\ data # NoBuffer
  <2>1. CASE arr[0] = NoBuffer
    BY <1>2, <2>1, PutValue DEF Packed, In, Is, BufferT, Slot, Buffer, NoBuffer
  <2>2. CASE arr[0] # NoBuffer /\ arr[1] = NoBuffer
    BY <1>2, <2>2, PutValue DEF Packed, In, Is, BufferT, Slot, Buffer, NoBuffer
  <2>3. CASE arr[0] # NoBuffer /\ arr[1] # NoBuffer
    BY <1>2, <2>3, PutValue DEF Packed, In, Is, BufferT, Slot, Buffer, NoBuffer
  <2> QED
    BY <2>1, <2>2, <2>3
<1> QED
  BY <1>1, <1>2

(* Pigeonhole: a queue of distinct buffers that lacks one of the three has its
   last slot empty. *)
LEMMA RoomToPut ==
    ASSUME NEW arr \in BufferT, Packed(arr), NEW data \in Buffer,
           \A b \in Buffer : In(arr, b) + Is(data, b) <= 1
    PROVE  arr[2] = NoBuffer
<1>1. /\ 1 \in Buffer /\ 2 \in Buffer /\ 3 \in Buffer
      /\ \A i \in {0, 1, 2} : arr[i] \in {0, 1, 2, 3}
  BY DEF BufferT, Slot, Buffer, NoBuffer
<1>2. /\ In(arr, 1) + Is(data, 1) <= 1
      /\ In(arr, 2) + Is(data, 2) <= 1
      /\ In(arr, 3) + Is(data, 3) <= 1
  BY <1>1
<1> QED
  BY <1>1, <1>2 DEF Packed, In, Is, Buffer, NoBuffer

(* The first picture: buffer 1 queued for display, 2 and 3 free. *)
LEMMA FreshQueues ==
    /\ [EmptyQueue EXCEPT ![0] = 1] \in BufferT
    /\ [EmptyQueue EXCEPT ![0] = 1][0] = 1
    /\ [EmptyQueue EXCEPT ![0] = 1][1] = NoBuffer
    /\ [EmptyQueue EXCEPT ![0] = 1][2] = NoBuffer
    /\ [EmptyQueue EXCEPT ![0] = 2, ![1] = 3] \in BufferT
    /\ [EmptyQueue EXCEPT ![0] = 2, ![1] = 3][0] = 2
    /\ [EmptyQueue EXCEPT ![0] = 2, ![1] = 3][1] = 3
    /\ [EmptyQueue EXCEPT ![0] = 2, ![1] = 3][2] = NoBuffer
BY DEF EmptyQueue, BufferT, Slot, Buffer, NoBuffer

-----------------------------------------------------------------------------
(* The first state is type correct. *)
LEMMA TypeInit == Init => TypeOK
<1> SUFFICES ASSUME Init PROVE TypeOK
  OBVIOUS
<1>1. EmptyQueue \in BufferT
  BY DEF EmptyQueue, BufferT
<1>2. 0 \in 0..MaxFrame
  BY SwapChainAssumption
<1>3. content \in [Buffer -> 0..MaxFrame]
  BY <1>2 DEF Init, Blank
<1> QED
  BY <1>1, <1>2, <1>3 DEF Init, TypeOK

(* Every step of the code keeps the types. *)
LEMMA TypeStep == TypeOK /\ [Next]_vars => TypeOK'
<1> SUFFICES ASSUME TypeOK, [Next]_vars PROVE TypeOK'
  OBVIOUS
<1> USE DEF TypeOK
<1>1. CASE DisplayCheck
  BY <1>1 DEF DisplayCheck, queueVars, captureVars, hardwareVars
<1>2. CASE DisplayTake
  BY <1>2, ForwardValue
  DEF DisplayTake, TakeForDisplay, captureVars, hardwareVars, BufferT, Slot,
      Buffer, NoBuffer
<1>3. CASE DisplayWoken
  BY <1>3, ForwardValue
  DEF DisplayWoken, TakeForDisplay, captureVars, hardwareVars, BufferT, Slot,
      Buffer, NoBuffer
<1>4. CASE DisplaySpuriousWakeup
  BY <1>4 DEF DisplaySpuriousWakeup, queueVars, captureVars, hardwareVars
<1>5. CASE DisplayHdmi
  BY <1>5 DEF DisplayHdmi, SetPlane, queueVars, captureVars, Buffer, NoBuffer
<1>6. CASE DisplayComposite
  BY <1>6
  DEF DisplayComposite, SetPlane, queueVars, captureVars, Buffer, NoBuffer
<1>7. CASE SetPlaneFails
  BY <1>7 DEF SetPlaneFails, queueVars, displayVars, captureVars, hardwareVars
<1>8. CASE DisplayRelease
  BY <1>8, PutValue
  DEF DisplayRelease, SignalAvailable, hardwareVars, Buffer, NoBuffer
<1>9. CASE DropFrame
  BY <1>9, SwapChainAssumption
  DEF DropFrame, queueVars, displayVars, hardwareVars
<1>10. CASE StartFrame
  BY <1>10, SwapChainAssumption
  DEF StartFrame, queueVars, displayVars, hardwareVars
<1>11. CASE InitDisplay
  BY <1>11, FreshQueues, SwapChainAssumption
  DEF InitDisplay, BufferT, Slot, Blank, Buffer, NoBuffer
<1>12. CASE GetOutputs
  BY <1>12 DEF GetOutputs, queueVars, displayVars, hardwareVars
<1>13. CASE InitDisplayFails
  BY <1>13
  DEF InitDisplayFails, queueVars, displayVars, captureVars, hardwareVars
<1>14. CASE GetBuffer
  BY <1>14, ForwardValue
  DEF GetBuffer, displayVars, hardwareVars, BufferT, Slot, Buffer, NoBuffer
<1>15. CASE GetBufferWoken
  BY <1>15, ForwardValue
  DEF GetBufferWoken, displayVars, hardwareVars, BufferT, Slot, Buffer,
      NoBuffer
<1>16. CASE CaptureSpuriousWakeup
  BY <1>16 DEF CaptureSpuriousWakeup, queueVars, displayVars, hardwareVars
<1>17. CASE Decode
  BY <1>17 DEF Decode, get_buffer, queueVars, displayVars, Buffer, NoBuffer
<1>18. CASE VeWait
  BY <1>18 DEF VeWait, queueVars, displayVars, hardwareVars
<1>19. CASE PutBuffer
  BY <1>19, PutValue DEF PutBuffer, SignalDisplay, hardwareVars
<1>20. CASE EngineDone
  BY <1>20
  DEF EngineDone, queueVars, displayVars, captureVars, Buffer, NoBuffer
<1>21. CASE TerminateStop
  BY <1>21
  DEF TerminateStop, queueVars, displayVars, captureVars, Buffer, NoBuffer
<1>22. CASE TerminateSignal
  BY <1>22
  DEF TerminateSignal, SignalDisplay, queueVars, captureVars, hardwareVars
<1>23. CASE TerminateJoin
  BY <1>23 DEF TerminateJoin, queueVars, Buffer, NoBuffer
<1>24. CASE UNCHANGED vars
  BY <1>24 DEF vars, queueVars, displayVars, captureVars, hardwareVars
<1> QED
  BY <1>1, <1>2, <1>3, <1>4, <1>5, <1>6, <1>7, <1>8, <1>9, <1>10, <1>11,
     <1>12, <1>13, <1>14, <1>15, <1>16, <1>17, <1>18, <1>19, <1>20, <1>21,
     <1>22, <1>23, <1>24
  DEF Next, DisplayThread, DecodeFrame, HwClose, Environment

(* Type correctness: no queue access leaves the three slots of buffer_t and no
   thread leaves its program points, whatever the platform does. *)
THEOREM TypeCorrect == Spec => []TypeOK
BY TypeInit, TypeStep, PTL DEF Spec

-----------------------------------------------------------------------------
(* The inductive invariant holds before the first session. *)
LEMMA IInvInit == Init => IInv
BY TypeInit DEF IInv, Init, Phases, OnPlanes, NothingToGiveBack, Queues

(* Every step of the code keeps the inductive invariant. *)
LEMMA IInvStep == IInv /\ [Next]_vars => IInv'
<1> SUFFICES ASSUME IInv, [Next]_vars PROVE IInv'
  OBVIOUS
<1>t. TypeOK /\ TypeOK'
  BY TypeStep DEF IInv
<1> USE DEF IInv
<1>1. CASE DisplayCheck
  <2>1. Phases'
    BY <1>1 DEF DisplayCheck, captureVars, hardwareVars, Phases
  <2>2. OnPlanes'
    BY <1>1, <1>t
    DEF DisplayCheck, queueVars, hardwareVars, Phases, NothingToGiveBack,
        TypeOK, OnPlanes
  <2>3. NothingToGiveBack'
    BY <1>1 DEF DisplayCheck, Phases, NothingToGiveBack
  <2>4. Queues'
    BY <1>1
    DEF DisplayCheck, queueVars, captureVars, Queues, Phases, Packed, Once,
        Occurrences, Held
  <2> QED
    BY <1>t, <2>1, <2>2, <2>3, <2>4
<1>2. CASE DisplayTake
  <2>1. Phases'
    BY <1>2 DEF DisplayTake, TakeForDisplay, captureVars, hardwareVars, Phases
  <2>2. OnPlanes'
    BY <1>2, <1>t
    DEF DisplayTake, TakeForDisplay, hardwareVars, NothingToGiveBack, TypeOK,
        OnPlanes
  <2>3. NothingToGiveBack'
    BY <1>2 DEF DisplayTake, TakeForDisplay, Phases, NothingToGiveBack
  <2>4. Queues'
    BY <1>2, <1>t, ForwardValue
    DEF DisplayTake, TakeForDisplay, captureVars, Queues, Phases, Packed,
        Once, Occurrences, Held, NothingToGiveBack, In, Is, TypeOK, Buffer,
        NoBuffer
  <2> QED
    BY <1>t, <2>1, <2>2, <2>3, <2>4
<1>3. CASE DisplayWoken
  <2>1. Phases'
    BY <1>3 DEF DisplayWoken, TakeForDisplay, captureVars, hardwareVars, Phases
  <2>2. OnPlanes'
    BY <1>3, <1>t
    DEF DisplayWoken, TakeForDisplay, hardwareVars, Phases, NothingToGiveBack,
        TypeOK, OnPlanes
  <2>3. NothingToGiveBack'
    BY <1>3 DEF DisplayWoken, TakeForDisplay, Phases, NothingToGiveBack
  <2>4. Queues'
    BY <1>3, <1>t, ForwardValue
    DEF DisplayWoken, TakeForDisplay, captureVars, Queues, Phases, Packed,
        Once, Occurrences, Held, NothingToGiveBack, In, Is, TypeOK, Buffer,
        NoBuffer
  <2> QED
    BY <1>t, <2>1, <2>2, <2>3, <2>4
<1>4. CASE DisplaySpuriousWakeup
  <2>1. Phases'
    BY <1>4 DEF DisplaySpuriousWakeup, captureVars, hardwareVars, Phases
  <2>2. OnPlanes'
    BY <1>4, <1>t
    DEF DisplaySpuriousWakeup, queueVars, hardwareVars, Phases,
        NothingToGiveBack, TypeOK, OnPlanes
  <2>3. NothingToGiveBack'
    BY <1>4 DEF DisplaySpuriousWakeup, Phases, NothingToGiveBack
  <2>4. Queues'
    BY <1>4
    DEF DisplaySpuriousWakeup, queueVars, captureVars, Queues, Phases, Packed,
        Once, Occurrences, Held
  <2> QED
    BY <1>t, <2>1, <2>2, <2>3, <2>4
<1>5. CASE DisplayHdmi
  <2>1. Phases'
    BY <1>5, <1>t DEF DisplayHdmi, SetPlane, captureVars, TypeOK, Phases
  <2>2. OnPlanes'
    BY <1>5, <1>t
    DEF DisplayHdmi, SetPlane, queueVars, Phases, NothingToGiveBack, TypeOK,
        OnPlanes
  <2>3. NothingToGiveBack'
    BY <1>5 DEF DisplayHdmi, SetPlane, Phases, NothingToGiveBack
  <2>4. Queues'
    BY <1>5
    DEF DisplayHdmi, SetPlane, queueVars, captureVars, Queues, Phases, Packed,
        Once, Occurrences, Held
  <2> QED
    BY <1>t, <2>1, <2>2, <2>3, <2>4
<1>6. CASE DisplayComposite
  <2>1. Phases'
    BY <1>6, <1>t DEF DisplayComposite, SetPlane, captureVars, TypeOK, Phases
  <2>2. OnPlanes'
    BY <1>6, <1>t
    DEF DisplayComposite, SetPlane, queueVars, Phases, NothingToGiveBack,
        TypeOK, OnPlanes
  <2>3. NothingToGiveBack'
    BY <1>6 DEF DisplayComposite, SetPlane, Phases, NothingToGiveBack
  <2>4. Queues'
    BY <1>6
    DEF DisplayComposite, SetPlane, queueVars, captureVars, Queues, Phases,
        Packed, Once, Occurrences, Held
  <2> QED
    BY <1>t, <2>1, <2>2, <2>3, <2>4
<1>7. CASE SetPlaneFails
  BY <1>7, <1>t
  DEF SetPlaneFails, queueVars, displayVars, captureVars, hardwareVars,
      Phases, OnPlanes, NothingToGiveBack, Queues, Packed, Once, Occurrences,
      Held
<1>8. CASE DisplayRelease
  <2>1. Phases'
    BY <1>8 DEF DisplayRelease, SignalAvailable, hardwareVars, Phases
  <2>2. OnPlanes'
    BY <1>8, <1>t
    DEF DisplayRelease, SignalAvailable, hardwareVars, Phases,
        NothingToGiveBack, TypeOK, OnPlanes
  <2>3. NothingToGiveBack'
    BY <1>8 DEF DisplayRelease, SignalAvailable, Phases, NothingToGiveBack
  <2>4. Queues'
    <3> SUFFICES ASSUME display_pc # "off"
                 PROVE  /\ Packed(current_available_buffer')
                        /\ \A b \in Buffer : Occurrences(b)' = 1
      BY <1>8, <1>t DEF DisplayRelease, Queues, Packed, Once
    <3> DEFINE put_back == put(current_available_buffer, prev_display_buffer)
    <3>1. /\ current_available_buffer \in BufferT
          /\ Packed(current_available_buffer)
          /\ prev_display_buffer \in {NoBuffer} \cup Buffer
      BY <1>t DEF Queues, TypeOK
    <3>2. \A b \in Buffer : Occurrences(b) = 1
      BY DEF Queues, Once
    <3>3. prev_display_buffer = NoBuffer \/ current_available_buffer[2] = NoBuffer
      <4> SUFFICES ASSUME prev_display_buffer # NoBuffer
                   PROVE  current_available_buffer[2] = NoBuffer
        OBVIOUS
      <4>1. ASSUME NEW b \in Buffer
            PROVE  In(current_available_buffer, b) + Is(prev_display_buffer, b) <= 1
        BY <3>2, InNat DEF Occurrences, Is
      <4> QED
        BY <3>1, <4>1, RoomToPut
    <3>4. ASSUME NEW b \in Buffer
          PROVE  /\ Packed(put_back)
                 /\ In(put_back, b) = In(current_available_buffer, b)
                                      + Is(prev_display_buffer, b)
      BY <3>1, <3>3, PutCount
    <3>5. current_available_buffer' =
              IF prev_display_buffer # NoBuffer THEN put_back
              ELSE current_available_buffer
      BY <1>8 DEF DisplayRelease
    <3>6. Held' = Held
      BY <1>8 DEF DisplayRelease, SignalAvailable, Held
    <3>7. Packed(current_available_buffer')
      BY <3>1, <3>4, <3>5 DEF Buffer
    <3>8. ASSUME NEW b \in Buffer
          PROVE  Occurrences(b)' = 1
      <4>1. In(current_available_buffer', b) = In(current_available_buffer, b)
                                               + Is(prev_display_buffer, b)
        BY <3>4, <3>5, InNat DEF Is, Buffer, NoBuffer
      <4>2. /\ current_display_buffer' = current_display_buffer
            /\ display_buffer' = display_buffer
            /\ Is(prev_display_buffer', b) = 0
        BY <1>8 DEF DisplayRelease, Is, Buffer, NoBuffer
      <4> HIDE DEF put_back
      <4> QED
        BY <3>2, <3>6, <4>1, <4>2, InNat DEF Occurrences, Is
    <3> QED
      BY <3>7, <3>8
  <2> QED
    BY <1>t, <2>1, <2>2, <2>3, <2>4
<1>9. CASE DropFrame
  BY <1>9, <1>t
  DEF DropFrame, queueVars, displayVars, hardwareVars, Phases, OnPlanes,
      NothingToGiveBack, Queues, Packed, Once, Occurrences, Held
<1>10. CASE StartFrame
  <2>1. Phases'
    BY <1>10 DEF StartFrame, displayVars, hardwareVars, Phases
  <2>2. Queues'
    BY <1>10
    DEF StartFrame, queueVars, displayVars, Queues, Phases, Packed, Once,
        Occurrences, Held
  <2> QED
    BY <1>10, <1>t, <2>1, <2>2
    DEF StartFrame, queueVars, displayVars, hardwareVars, OnPlanes,
        NothingToGiveBack
<1>11. CASE InitDisplay
  <2>1. Phases'
    BY <1>11 DEF InitDisplay, Phases
  <2>2. OnPlanes'
    BY <1>11, <1>t DEF InitDisplay, Phases, NothingToGiveBack, TypeOK, OnPlanes
  <2>3. NothingToGiveBack'
    BY <1>11 DEF InitDisplay, Phases, NothingToGiveBack
  <2>4. Queues'
    <3>1. /\ current_display_buffer' = [EmptyQueue EXCEPT ![0] = 1]
          /\ current_available_buffer' = [EmptyQueue EXCEPT ![0] = 2, ![1] = 3]
          /\ display_buffer' = NoBuffer /\ prev_display_buffer' = NoBuffer
          /\ Held' = NoBuffer
      BY <1>11 DEF InitDisplay, Held
    <3>2. Packed(current_display_buffer') /\ Packed(current_available_buffer')
      BY <3>1, FreshQueues DEF Packed, NoBuffer
    <3>3. ASSUME NEW b \in Buffer
          PROVE  Occurrences(b)' = 1
      BY <3>1, FreshQueues DEF Occurrences, In, Is, Buffer, NoBuffer
    <3> QED
      BY <3>2, <3>3 DEF Queues, Packed, Once
  <2> QED
    BY <1>t, <2>1, <2>2, <2>3, <2>4
<1>12. CASE GetOutputs
  <2>1. Phases'
    BY <1>12 DEF GetOutputs, displayVars, hardwareVars, Phases
  <2>2. Queues'
    BY <1>12
    DEF GetOutputs, queueVars, displayVars, Queues, Phases, Packed, Once,
        Occurrences, Held
  <2> QED
    BY <1>12, <1>t, <2>1, <2>2
    DEF GetOutputs, queueVars, displayVars, hardwareVars, OnPlanes,
        NothingToGiveBack
<1>13. CASE InitDisplayFails
  BY <1>13, <1>t
  DEF InitDisplayFails, queueVars, displayVars, captureVars, hardwareVars,
      Phases, OnPlanes, NothingToGiveBack, Queues, Packed, Once, Occurrences,
      Held
<1>14. CASE GetBuffer
  <2>1. Phases'
    BY <1>14 DEF GetBuffer, displayVars, hardwareVars, Phases
  <2>2. Queues'
    BY <1>14, <1>t, ForwardValue
    DEF GetBuffer, displayVars, Queues, Phases, Packed, Once, Occurrences,
        Held, NothingToGiveBack, In, Is, TypeOK, Buffer, NoBuffer
  <2> QED
    BY <1>14, <1>t, <2>1, <2>2
    DEF GetBuffer, displayVars, hardwareVars, OnPlanes, NothingToGiveBack
<1>15. CASE GetBufferWoken
  <2>1. Phases'
    BY <1>15 DEF GetBufferWoken, displayVars, hardwareVars, Phases
  <2>2. Queues'
    BY <1>15, <1>t, ForwardValue
    DEF GetBufferWoken, displayVars, Queues, Phases, Packed, Once,
        Occurrences, Held, NothingToGiveBack, In, Is, TypeOK, Buffer, NoBuffer
  <2> QED
    BY <1>15, <1>t, <2>1, <2>2
    DEF GetBufferWoken, displayVars, hardwareVars, OnPlanes, NothingToGiveBack
<1>16. CASE CaptureSpuriousWakeup
  <2>1. Phases'
    BY <1>16 DEF CaptureSpuriousWakeup, displayVars, hardwareVars, Phases
  <2>2. Queues'
    BY <1>16
    DEF CaptureSpuriousWakeup, queueVars, displayVars, Queues, Phases, Packed,
        Once, Occurrences, Held
  <2> QED
    BY <1>16, <1>t, <2>1, <2>2
    DEF CaptureSpuriousWakeup, queueVars, displayVars, hardwareVars, OnPlanes,
        NothingToGiveBack
<1>17. CASE Decode
  <2>1. Phases'
    BY <1>17 DEF Decode, get_buffer, displayVars, Phases
  <2>2. Queues'
    BY <1>17
    DEF Decode, get_buffer, queueVars, displayVars, Queues, Phases, Packed,
        Once, Occurrences, Held
  <2> QED
    BY <1>17, <1>t, <2>1, <2>2
    DEF Decode, get_buffer, queueVars, displayVars, OnPlanes, NothingToGiveBack
<1>18. CASE VeWait
  <2>1. Phases'
    BY <1>18 DEF VeWait, displayVars, hardwareVars, Phases
  <2>2. Queues'
    BY <1>18
    DEF VeWait, queueVars, displayVars, Queues, Phases, Packed, Once,
        Occurrences, Held
  <2> QED
    BY <1>18, <1>t, <2>1, <2>2
    DEF VeWait, queueVars, displayVars, hardwareVars, OnPlanes,
        NothingToGiveBack
<1>19. CASE PutBuffer
  <2>1. Phases'
    BY <1>19 DEF PutBuffer, SignalDisplay, hardwareVars, Phases
  <2>2. OnPlanes'
    BY <1>19, <1>t
    DEF PutBuffer, SignalDisplay, hardwareVars, Phases, NothingToGiveBack,
        TypeOK, OnPlanes
  <2>3. NothingToGiveBack'
    BY <1>19 DEF PutBuffer, SignalDisplay, Phases, NothingToGiveBack
  <2>4. Queues'
    <3> SUFFICES ASSUME display_pc # "off"
                 PROVE  /\ Packed(current_display_buffer')
                        /\ \A b \in Buffer : Occurrences(b)' = 1
      BY <1>19, <1>t DEF PutBuffer, SignalDisplay, Queues, Packed, Once
    <3>1. /\ current_display_buffer \in BufferT
          /\ Packed(current_display_buffer)
          /\ write_buffer \in {NoBuffer} \cup Buffer
      BY <1>t DEF Queues, TypeOK
    <3>2. \A b \in Buffer : Occurrences(b) = 1
      BY DEF Queues, Once
    <3>3. Held = write_buffer /\ Held' = NoBuffer
      BY <1>19 DEF PutBuffer, Held
    <3>4. write_buffer = NoBuffer \/ current_display_buffer[2] = NoBuffer
      <4> SUFFICES ASSUME write_buffer # NoBuffer
                   PROVE  current_display_buffer[2] = NoBuffer
        OBVIOUS
      <4>1. ASSUME NEW b \in Buffer
            PROVE  In(current_display_buffer, b) + Is(write_buffer, b) <= 1
        BY <3>2, <3>3, InNat DEF Occurrences, Is
      <4> QED
        BY <3>1, <4>1, RoomToPut
    <3>5. ASSUME NEW b \in Buffer
          PROVE  /\ Packed(current_display_buffer')
                 /\ In(current_display_buffer', b) = In(current_display_buffer, b)
                                                     + Is(write_buffer, b)
      BY <1>19, <3>1, <3>4, PutCount DEF PutBuffer
    <3>6. ASSUME NEW b \in Buffer
          PROVE  Occurrences(b)' = 1
      <4>1. /\ current_available_buffer' = current_available_buffer
            /\ display_buffer' = display_buffer
            /\ prev_display_buffer' = prev_display_buffer
            /\ Is(Held', b) = 0
        BY <1>19, <3>3 DEF PutBuffer, Is, Buffer, NoBuffer
      <4> QED
        BY <3>2, <3>3, <3>5, <4>1, InNat DEF Occurrences, Is
    <3> QED
      BY <3>5, <3>6 DEF Buffer
  <2> QED
    BY <1>t, <2>1, <2>2, <2>3, <2>4
<1>20. CASE EngineDone
  BY <1>20, <1>t
  DEF EngineDone, queueVars, displayVars, captureVars, Phases, OnPlanes,
      NothingToGiveBack, Queues, Packed, Once, Occurrences, Held
<1>21. CASE TerminateStop
  <2>1. Phases'
    BY <1>21 DEF TerminateStop, displayVars, captureVars, Phases
  <2> QED
    BY <1>21, <1>t, <2>1
    DEF TerminateStop, queueVars, displayVars, captureVars, OnPlanes,
        NothingToGiveBack, Queues, Packed, Once, Occurrences, Held
<1>22. CASE TerminateSignal
  <2>1. Phases'
    BY <1>22
    DEF TerminateSignal, SignalDisplay, captureVars, hardwareVars, Phases
  <2>2. OnPlanes'
    BY <1>22, <1>t
    DEF TerminateSignal, SignalDisplay, queueVars, hardwareVars, Phases,
        NothingToGiveBack, TypeOK, OnPlanes
  <2>3. NothingToGiveBack'
    BY <1>22 DEF TerminateSignal, SignalDisplay, Phases, NothingToGiveBack
  <2>4. Queues'
    BY <1>22
    DEF TerminateSignal, SignalDisplay, queueVars, captureVars, Queues,
        Phases, Packed, Once, Occurrences, Held
  <2> QED
    BY <1>t, <2>1, <2>2, <2>3, <2>4
<1>23. CASE TerminateJoin
  <2>1. Phases'
    BY <1>23, <1>t DEF TerminateJoin, TypeOK, Phases
  <2>2. OnPlanes'
    BY <1>23, <1>t
    DEF TerminateJoin, queueVars, Phases, NothingToGiveBack, TypeOK, OnPlanes
  <2>3. NothingToGiveBack'
    BY <1>23 DEF TerminateJoin, Phases, NothingToGiveBack
  <2>4. Queues'
    BY <1>23
    DEF TerminateJoin, queueVars, Queues, Phases, Packed, Once, Occurrences,
        Held
  <2> QED
    BY <1>t, <2>1, <2>2, <2>3, <2>4
<1>24. CASE UNCHANGED vars
  BY <1>24, <1>t
  DEF vars, queueVars, displayVars, captureVars, hardwareVars, Phases,
      OnPlanes, NothingToGiveBack, Queues, Packed, Once, Occurrences, Held
<1> QED
  BY <1>1, <1>2, <1>3, <1>4, <1>5, <1>6, <1>7, <1>8, <1>9, <1>10, <1>11,
     <1>12, <1>13, <1>14, <1>15, <1>16, <1>17, <1>18, <1>19, <1>20, <1>21,
     <1>22, <1>23, <1>24
  DEF Next, DisplayThread, DecodeFrame, HwClose, Environment

(* IInv holds in every reachable state. *)
LEMMA IInvAlways == Spec => []IInv
BY IInvInit, IInvStep, PTL DEF Spec

-----------------------------------------------------------------------------
(* The three buffers are conserved: put never drops one and no buffer is handed
   out twice, also with spurious wakeups and late engines. *)
THEOREM Conservation == Spec => []BuffersConserved
<1>1. IInv => BuffersConserved
  <2> SUFFICES ASSUME IInv, display_pc # "off"
               PROVE  /\ \A j, k \in Place :
                            j # k /\ At(j) # NoBuffer => At(j) # At(k)
                      /\ \A b \in Buffer : \E k \in Place : At(k) = b
    BY DEF BuffersConserved
  <2>1. \A b \in Buffer : Occurrences(b) = 1
    BY DEF IInv, Queues, Once
  <2>2. /\ At(1) = current_display_buffer[0]
        /\ At(2) = current_display_buffer[1]
        /\ At(3) = current_display_buffer[2]
        /\ At(4) = current_available_buffer[0]
        /\ At(5) = current_available_buffer[1]
        /\ At(6) = current_available_buffer[2]
        /\ At(7) = Held
        /\ At(8) = display_buffer
        /\ At(9) = prev_display_buffer
    BY DEF At
  <2>3. ASSUME NEW b
        PROVE  Occurrences(b) =
                   Is(At(1), b) + Is(At(2), b) + Is(At(3), b) + Is(At(4), b)
                   + Is(At(5), b) + Is(At(6), b) + Is(At(7), b) + Is(At(8), b)
                   + Is(At(9), b)
    BY <2>2 DEF Occurrences, In, Is
  <2>4. ASSUME NEW j \in Place, NEW k \in Place, j # k, At(j) # NoBuffer
        PROVE  At(j) # At(k)
    <3>1. \A m \in Place : At(m) \in {NoBuffer} \cup Buffer
      BY <2>2 DEF IInv, TypeOK, BufferT, Slot, Held, Place
    <3> SUFFICES ASSUME At(j) = At(k) PROVE FALSE
      OBVIOUS
    <3>2. At(j) \in Buffer
      BY <2>4, <3>1
    <3>3. Occurrences(At(j)) = 1
      BY <2>1, <3>2
    <3> QED
      BY <2>3, <2>4, <3>3 DEF Is, Place
  <2>5. ASSUME NEW b \in Buffer
        PROVE  \E k \in Place : At(k) = b
    BY <2>1, <2>3 DEF Is, Place
  <2> QED
    BY <2>4, <2>5
<1> QED
  BY <1>1, IInvAlways, PTL

(* A buffer goes back to the decoder only when no output scans it out. *)
THEOREM ScreenOwnership == Spec => []OnScreenOwned
<1>1. IInv => OnScreenOwned
  BY DEF IInv, TypeOK, Phases, OnPlanes, OnScreenOwned
<1> QED
  BY <1>1, IInvAlways, PTL

(* With both queues empty the display thread would have to own all three
   buffers, and it owns at most two. *)
LEMMA QueuesNeverBothEmpty == IInv => GetNeverFails
<1> SUFFICES ASSUME IInv, capture_pc = "get",
                    current_available_buffer[0] = NoBuffer,
                    current_display_buffer[0] = NoBuffer
             PROVE  FALSE
  BY DEF GetNeverFails
<1>1. Queues /\ display_pc # "off"
  BY DEF IInv, Phases
<1>2. ASSUME NEW b \in Buffer
      PROVE  Is(display_buffer, b) + Is(prev_display_buffer, b) = 1
  BY <1>1 DEF Queues, Packed, Once, Occurrences, In, Is, Held, Buffer, NoBuffer
<1>3. 1 \in Buffer /\ 2 \in Buffer /\ 3 \in Buffer
  BY DEF Buffer
<1> QED
  BY <1>2, <1>3 DEF Is

(* The failure branch of get_buffer_number is dead code. *)
THEOREM GetSucceeds == Spec => []GetNeverFails
BY QueuesNeverBothEmpty, IInvAlways, PTL

-----------------------------------------------------------------------------
(* The engine's part of the invariant, on a platform that behaves. *)
LEMMA EngineInit == Init => EngineInv
BY DEF Init, EngineInv

(* Every step of the code keeps it: a woken capture thread finds the buffer it
   was woken for, so it never decodes with buffer number 0. *)
LEMMA EngineStep ==
    ASSUME ~SpuriousWakeups, ~VeTimeouts
    PROVE  IInv /\ EngineInv /\ [Next]_vars => EngineInv'
<1> SUFFICES ASSUME IInv, EngineInv, [Next]_vars PROVE EngineInv'
  OBVIOUS
<1>t. TypeOK
  BY DEF IInv
<1> USE DEF EngineInv
<1>1. CASE \/ DisplayCheck \/ DisplayTake \/ DisplayWoken
           \/ DisplayHdmi \/ DisplayComposite \/ SetPlaneFails
  BY <1>1 DEF DisplayCheck, DisplayTake, DisplayWoken, TakeForDisplay,
         DisplayHdmi, DisplayComposite, SetPlane, SetPlaneFails, queueVars,
         captureVars, hardwareVars
<1>2. CASE DisplayRelease
  <2>1. put(current_available_buffer, prev_display_buffer)[0] =
            IF current_available_buffer[0] = NoBuffer THEN prev_display_buffer
            ELSE current_available_buffer[0]
    BY <1>t, PutValue DEF TypeOK
  <2> QED
    BY <1>2, <2>1 DEF DisplayRelease, SignalAvailable, hardwareVars
<1>3. CASE DropFrame \/ StartFrame
           \/ InitDisplay \/ GetOutputs \/ InitDisplayFails
  BY <1>3 DEF DropFrame, StartFrame, InitDisplay, GetOutputs, InitDisplayFails,
         queueVars, captureVars, hardwareVars
<1>4. CASE GetBuffer
  BY <1>4, QueuesNeverBothEmpty DEF GetBuffer, GetNeverFails, hardwareVars
<1>5. CASE GetBufferWoken
  BY <1>5 DEF GetBufferWoken, hardwareVars
<1>6. CASE DisplaySpuriousWakeup \/ CaptureSpuriousWakeup
  BY <1>6 DEF DisplaySpuriousWakeup, CaptureSpuriousWakeup
<1>7. CASE Decode
  BY <1>7, <1>t DEF Decode, get_buffer, queueVars, TypeOK, Buffer, NoBuffer
<1>8. CASE VeWait \/ PutBuffer \/ EngineDone
  BY <1>8 DEF VeWait, PutBuffer, EngineDone, queueVars, captureVars, hardwareVars
<1>9. CASE TerminateStop \/ TerminateSignal \/ TerminateJoin
  BY <1>9 DEF TerminateStop, TerminateSignal, TerminateJoin, queueVars,
         captureVars, hardwareVars
<1>10. CASE UNCHANGED vars
  BY <1>10 DEF vars, queueVars, captureVars, hardwareVars
<1> QED
  BY <1>1, <1>2, <1>3, <1>4, <1>5, <1>6, <1>7, <1>8, <1>9, <1>10
  DEF Next, DisplayThread, DecodeFrame, HwClose, Environment

(* No tearing: the engine never writes a buffer that an output shows or that
   waits to be shown, provided pthread_cond_wait returns only on a signal and
   ve_wait only when the engine is done. *)
THEOREM TearFree ==
    ASSUME ~SpuriousWakeups, ~VeTimeouts
    PROVE  Spec => []NoTearing
<1>1. IInv /\ EngineInv => NoTearing
  <2> SUFFICES ASSUME IInv, EngineInv, engine # NoBuffer PROVE NoTearing
    BY DEF NoTearing
  <2>1. /\ capture_pc = "ve_wait" /\ engine \in Buffer
        /\ Held = engine /\ display_pc # "off"
    BY DEF EngineInv, IInv, TypeOK, Phases, Held
  <2>2. Occurrences(engine) = 1 /\ Is(Held, engine) = 1
    BY <2>1 DEF IInv, Queues, Once, Is
  <2>3. /\ In(current_display_buffer, engine) = 0
        /\ Is(display_buffer, engine) = 0
        /\ Is(prev_display_buffer, engine) = 0
    BY <2>2, InNat DEF Occurrences, Is
  <2>4. ASSUME NEW i \in Slot
        PROVE  current_display_buffer[i] # engine
    BY <2>3 DEF In, Is, Slot
  <2>5. ASSUME NEW p \in {0, 1}
        PROVE  planes[p] # engine
    BY <2>1, <2>3 DEF IInv, TypeOK, Phases, OnPlanes, Is
  <2> QED
    BY <2>4, <2>5 DEF NoTearing
<1>2. Spec => []EngineInv
  BY IInvAlways, EngineInit, EngineStep, PTL DEF Spec
<1> QED
  BY <1>1, <1>2, IInvAlways, PTL

-----------------------------------------------------------------------------
(* The FIFO channel.  On a platform that behaves (no spurious wakeups, no decode
   that outlasts ve_wait's timeout) every step of the three threads is a step of
   FrameChannel or changes nothing there, for every number of frames and every set
   of outputs.  To the invariants above this adds what the outputs show at each
   program point (InStep) and that frames are in the order of capture all the way
   from the plane to the engine (InOrder). *)

(* Outside the drawing steps every output shows the display thread's buffer. *)
InStep ==
    /\ display_pc \in {"check", "take", "wait", "woken", "release", "done"} =>
         \A p \in Outputs : planes[p] = display_buffer
    /\ display_pc = "hdmi" =>
         \A p \in Outputs : planes[p] = prev_display_buffer
    /\ display_pc = "composite" =>
         /\ 0 \in Outputs => planes[0] = display_buffer
         /\ 1 \in Outputs => planes[1] = prev_display_buffer
    /\ display_pc \in {"hdmi", "composite"} => display_buffer # NoBuffer

(* Frame of buffer b precedes the one of buffer c, where there are both. *)
Before(b, c) == b # NoBuffer /\ c # NoBuffer => content[b] < content[c]

(* A buffer that is shown or queued holds a frame delivered before the one that is
   being decoded. *)
Older(b) ==
    b # NoBuffer =>
        content[b] <= frame /\ (capture_pc # "idle" => content[b] < frame)

InOrder ==
    /\ capture_pc # "idle" => frame > 0
    /\ capture_pc \in {"ve_wait", "put"} => content[write_buffer] = frame
    /\ display_pc # "off" =>
         LET q == current_display_buffer
         IN  /\ prev_display_buffer # NoBuffer => display_buffer # NoBuffer
             /\ Before(prev_display_buffer, display_buffer)
             /\ Before(display_buffer, q[0])
             /\ Before(q[0], q[1]) /\ Before(q[1], q[2])
             /\ Older(display_buffer) /\ Older(q[0]) /\ Older(q[1]) /\ Older(q[2])

ChannelInv == IInv /\ EngineInv /\ InStep /\ InOrder

-----------------------------------------------------------------------------
(* The buffer the capture thread holds is nowhere else. *)
LEMMA HeldApart ==
    ASSUME IInv, display_pc # "off", Held \in Buffer
    PROVE  /\ \A i \in Slot : current_display_buffer[i] # Held
           /\ display_buffer # Held /\ prev_display_buffer # Held
           /\ \A p \in {0, 1} : planes[p] # Held
           /\ current_display_buffer[2] = NoBuffer
<1>1. Occurrences(Held) = 1 /\ Is(Held, Held) = 1
  BY DEF IInv, Queues, Once, Is
<1>2. /\ In(current_display_buffer, Held) = 0
      /\ Is(display_buffer, Held) = 0 /\ Is(prev_display_buffer, Held) = 0
  BY <1>1, InNat DEF Occurrences, Is
<1>3. \A i \in Slot : current_display_buffer[i] # Held
  BY <1>2 DEF In, Is, Slot
<1>4. \A p \in {0, 1} : planes[p] # Held
  BY <1>2 DEF IInv, TypeOK, OnPlanes, Is, Buffer, NoBuffer
<1>5. \A b \in Buffer : In(current_display_buffer, b) + Is(Held, b) <= 1
  BY InNat DEF IInv, Queues, Once, Occurrences, Is
<1>6. current_display_buffer[2] = NoBuffer
  BY <1>5, RoomToPut DEF IInv, Queues, TypeOK
<1> QED
  BY <1>2, <1>3, <1>4, <1>6 DEF Is

-----------------------------------------------------------------------------
(* Before the first session nothing is shown. *)
LEMMA ChannelInit == Init => InStep /\ InOrder
BY DEF Init, InStep, InOrder

(* Every step keeps the outputs in step with the display thread. *)
LEMMA InStepStep == ChannelInv /\ [Next]_vars => InStep'
<1> SUFFICES ASSUME ChannelInv, [Next]_vars PROVE InStep'
  OBVIOUS
<1> USE DEF InStep
<1>t. TypeOK /\ Phases /\ OnPlanes /\ NothingToGiveBack /\ InStep
  BY DEF ChannelInv, IInv
<1>o. Outputs \subseteq {0, 1}
  BY SwapChainAssumption
<1>1. CASE DisplayCheck
  BY <1>1, <1>t DEF DisplayCheck, hardwareVars
<1>2. CASE DisplayTake
  BY <1>2, <1>t DEF DisplayTake, TakeForDisplay, hardwareVars
<1>3. CASE DisplayWoken
  BY <1>3, <1>t DEF DisplayWoken, TakeForDisplay, hardwareVars
<1>4. CASE DisplayHdmi
  BY <1>4, <1>t, <1>o DEF DisplayHdmi, SetPlane, TypeOK
<1>5. CASE DisplayComposite
  BY <1>5, <1>t, <1>o DEF DisplayComposite, SetPlane, TypeOK
<1>6. CASE DisplayRelease
  BY <1>6, <1>t DEF DisplayRelease, hardwareVars
<1>7. CASE InitDisplay
  BY <1>7, <1>t, <1>o DEF InitDisplay, Phases
<1>8. CASE TerminateJoin
  BY <1>8, <1>t DEF TerminateJoin
<1>9. CASE PutBuffer \/ TerminateSignal
  BY <1>9, <1>t DEF PutBuffer, TerminateSignal, SignalDisplay, hardwareVars
<1>10. CASE \/ DisplaySpuriousWakeup \/ CaptureSpuriousWakeup \/ SetPlaneFails
            \/ InitDisplayFails \/ DropFrame \/ StartFrame \/ GetOutputs
  BY <1>10, <1>t
  DEF DisplaySpuriousWakeup, CaptureSpuriousWakeup, SetPlaneFails,
      InitDisplayFails, DropFrame, StartFrame, GetOutputs, queueVars, displayVars,
      captureVars, hardwareVars
<1>11. CASE \/ GetBuffer \/ GetBufferWoken \/ Decode \/ VeWait \/ EngineDone
            \/ TerminateStop
  BY <1>11, <1>t
  DEF GetBuffer, GetBufferWoken, Decode, VeWait, EngineDone, TerminateStop,
      queueVars, displayVars, captureVars, hardwareVars
<1>12. CASE UNCHANGED vars
  BY <1>12, <1>t DEF vars, queueVars, displayVars, captureVars, hardwareVars
<1> QED
  BY <1>1, <1>2, <1>3, <1>4, <1>5, <1>6, <1>7, <1>8, <1>9, <1>10, <1>11, <1>12
  DEF Next, DisplayThread, DecodeFrame, HwClose, Environment

(* Every step keeps the frames in the order of capture. *)
LEMMA InOrderStep ==
    ASSUME ~SpuriousWakeups, ~VeTimeouts
    PROVE  ChannelInv /\ [Next]_vars => InOrder'
<1> SUFFICES ASSUME ChannelInv, [Next]_vars PROVE InOrder'
  OBVIOUS
<1>t. /\ TypeOK /\ Phases /\ NothingToGiveBack /\ Queues
      /\ InStep /\ EngineInv /\ InOrder
  BY DEF ChannelInv, IInv
<1>n. /\ frame \in Nat /\ frame <= MaxFrame /\ MaxFrame \in Nat
      /\ \A b \in Buffer : content[b] \in Nat
      /\ \A i \in {0, 1, 2} : current_display_buffer[i] \in {NoBuffer} \cup Buffer
      /\ display_buffer \in {NoBuffer} \cup Buffer
      /\ prev_display_buffer \in {NoBuffer} \cup Buffer
      /\ write_buffer \in {NoBuffer} \cup Buffer
  BY <1>t, SwapChainAssumption DEF TypeOK, BufferT, Slot
<1>e. capture_pc \in {"decode", "ve_wait", "put"} =>
          write_buffer \in Buffer /\ Held = write_buffer /\ display_pc # "off"
  BY <1>t, <1>n DEF EngineInv, Phases, Held
<1> USE DEF InOrder
<1>1. CASE DisplayTake \/ DisplayWoken
  <2>1. CASE TakeForDisplay
    BY <1>1, <1>t, <1>n, <2>1, ForwardValue
    DEF DisplayTake, DisplayWoken, TakeForDisplay, captureVars, hardwareVars,
        TypeOK, Before, Older, NothingToGiveBack
  <2>2. CASE ~TakeForDisplay
    BY <1>1, <1>t, <1>n, <2>2
    DEF DisplayTake, DisplayWoken, captureVars, hardwareVars, Before, Older
  <2> QED
    BY <2>1, <2>2
<1>2. CASE DisplayRelease
  BY <1>2, <1>t, <1>n DEF DisplayRelease, SignalAvailable, hardwareVars, Before,
      Older
<1>3. CASE DropFrame \/ StartFrame
  BY <1>3, <1>t, <1>n
  DEF DropFrame, StartFrame, queueVars, displayVars, hardwareVars, Before, Older
<1>4. CASE InitDisplay
  BY <1>4, <1>t, <1>n, FreshQueues
  DEF InitDisplay, Before, Older, Buffer, Blank, NoBuffer
<1>5. CASE Decode
  <2>1. /\ capture_pc = "decode" /\ capture_pc' = "ve_wait" /\ display_pc # "off"
        /\ content' = [content EXCEPT ![write_buffer] = frame]
        /\ UNCHANGED <<queueVars, displayVars, write_buffer, frame>>
        /\ write_buffer \in Buffer
    <3>1. get_buffer(write_buffer) = write_buffer
      BY <1>5, <1>e DEF Decode, get_buffer, Buffer
    <3> QED
      BY <1>5, <1>e, <3>1 DEF Decode
  <2>2. content'[write_buffer] = frame
    BY <1>t, <2>1 DEF TypeOK
  <2>3. ASSUME NEW b \in Buffer, b # write_buffer
        PROVE  content'[b] = content[b]
    BY <1>t, <2>1, <2>3 DEF TypeOK
  <2>4. /\ \A i \in {0, 1, 2} : current_display_buffer[i] # write_buffer
        /\ display_buffer # write_buffer /\ prev_display_buffer # write_buffer
    BY <1>e, <2>1, HeldApart DEF ChannelInv, Slot
  <2> QED
    BY <1>t, <1>n, <2>1, <2>2, <2>3, <2>4 DEF queueVars, displayVars, Before, Older
<1>6. CASE PutBuffer
  <2>1. Packed(current_display_buffer) /\ current_display_buffer[2] = NoBuffer
    BY <1>6, <1>t, <1>e, HeldApart DEF PutBuffer, Queues, ChannelInv
  <2> QED
    BY <1>6, <1>t, <1>n, <1>e, <2>1, PutValue
    DEF PutBuffer, hardwareVars, SignalDisplay, TypeOK, Packed, Before, Older,
        Buffer, NoBuffer
<1>7. CASE TerminateJoin
  BY <1>7, <1>t DEF TerminateJoin
<1>8. CASE TerminateSignal
  BY <1>8, <1>t, <1>n
  DEF TerminateSignal, SignalDisplay, queueVars, captureVars, hardwareVars, Before,
      Older
<1>9. CASE GetBuffer \/ GetBufferWoken
  BY <1>9, <1>t, <1>n DEF GetBuffer, GetBufferWoken, displayVars, hardwareVars,
      Before, Older
<1>10. CASE DisplayHdmi \/ DisplayComposite \/ DisplayCheck
  BY <1>10, <1>t, <1>n
  DEF DisplayHdmi, DisplayComposite, SetPlane, DisplayCheck,
      queueVars, captureVars, hardwareVars, Before, Older
<1>11. CASE \/ DisplaySpuriousWakeup \/ CaptureSpuriousWakeup \/ SetPlaneFails
            \/ InitDisplayFails \/ GetOutputs
  BY <1>11, <1>t, <1>n
  DEF DisplaySpuriousWakeup, CaptureSpuriousWakeup, SetPlaneFails,
      InitDisplayFails, GetOutputs, queueVars, displayVars, captureVars,
      hardwareVars, Before, Older
<1>12. CASE VeWait \/ EngineDone \/ TerminateStop
  BY <1>12, <1>t, <1>n
  DEF VeWait, EngineDone, TerminateStop, queueVars, displayVars, captureVars,
      hardwareVars, Before, Older
<1>13. CASE UNCHANGED vars
  BY <1>13, <1>t, <1>n DEF vars, queueVars, displayVars, captureVars, hardwareVars,
      Before, Older
<1> QED
  BY <1>1, <1>2, <1>3, <1>4, <1>5, <1>6, <1>7, <1>8, <1>9, <1>10, <1>11, <1>12,
     <1>13
  DEF Next, DisplayThread, DecodeFrame, HwClose, Environment

(* The invariant holds in every state of a platform that behaves. *)
LEMMA ChannelAlways ==
    ASSUME ~SpuriousWakeups, ~VeTimeouts
    PROVE  Spec => []ChannelInv
<1>1. Init => ChannelInv
  BY IInvInit, EngineInit, ChannelInit DEF ChannelInv
<1>2. ChannelInv /\ [Next]_vars => ChannelInv'
  BY IInvStep, EngineStep, InStepStep, InOrderStep DEF ChannelInv
<1> QED
  BY <1>1, <1>2, PTL DEF Spec

-----------------------------------------------------------------------------
(* The refinement. *)

(* A step that leaves queue, screen and the frames in them alone changes nothing in
   the channel. *)
LEMMA Stutter ==
    ASSUME UNCHANGED <<current_display_buffer, display_buffer, planes, content>>,
           (display_pc' = "off") <=> (display_pc = "off")
    PROVE  UNCHANGED Channel!chanVars
<1>1. QueuedFrames' = QueuedFrames
  BY DEF QueuedFrames, FrameIn
<1>2. CurrentFrame' = CurrentFrame
  BY DEF CurrentFrame, FrameIn
<1>3. OnScreen' = OnScreen
  BY DEF OnScreen, FrameIn
<1>4. (display_pc # "off")' = (display_pc # "off")
  OBVIOUS
<1> QED
  BY <1>1, <1>2, <1>3, <1>4 DEF Channel!chanVars

(* The display thread takes the frame at the head of the queue, which all
   outputs let go of. *)
LEMMA TakeStep ==
    ASSUME ChannelInv, TakeForDisplay, current_display_buffer[0] # NoBuffer,
           display_pc \in {"take", "woken"}, UNCHANGED <<planes, content>>
    PROVE  Channel!TakeFrame
<1>t. TypeOK /\ InStep /\ Packed(current_display_buffer)
  BY DEF ChannelInv, IInv, Queues
<1>1. /\ current_display_buffer'[0] = current_display_buffer[1]
      /\ current_display_buffer'[1] = current_display_buffer[2]
      /\ current_display_buffer'[2] = NoBuffer
  BY <1>t, ForwardValue DEF TakeForDisplay, TypeOK
<1>2. /\ QueuedFrames # <<>>
      /\ Head(QueuedFrames) = FrameIn(current_display_buffer[0])
      /\ QueuedFrames' = Tail(QueuedFrames)
  <2>1. CASE current_display_buffer[1] = NoBuffer
    BY <1>t, <1>1, <2>1 DEF QueuedFrames, FrameIn, TakeForDisplay, Packed
  <2>2. CASE current_display_buffer[1] # NoBuffer /\ current_display_buffer[2] = NoBuffer
    BY <1>t, <1>1, <2>2 DEF QueuedFrames, FrameIn, TakeForDisplay, Packed
  <2>3. CASE current_display_buffer[1] # NoBuffer /\ current_display_buffer[2] # NoBuffer
    BY <1>t, <1>1, <2>3 DEF QueuedFrames, FrameIn, TakeForDisplay, Packed
  <2> QED
    BY <2>1, <2>2, <2>3
<1>3. CurrentFrame' = FrameIn(current_display_buffer[0])
  BY DEF CurrentFrame, FrameIn, TakeForDisplay
<1>4. \A o \in Outputs : OnScreen[o] = CurrentFrame
  BY <1>t DEF InStep, OnScreen, CurrentFrame
<1>5. OnScreen' = OnScreen /\ (display_pc # "off")' = (display_pc # "off")
  BY DEF OnScreen, FrameIn, TakeForDisplay
<1> QED
  BY <1>2, <1>3, <1>4, <1>5 DEF Channel!TakeFrame

(* drmModeSetPlane moves its output from the previous frame to the current one. *)
LEMMA ShowStep ==
    ASSUME ChannelInv, NEW crtc \in Outputs, NEW pc \in {"composite", "release"},
           SetPlane(crtc, pc), display_pc \in {"hdmi", "composite"},
           planes[crtc] = prev_display_buffer
    PROVE  /\ Channel!Show(crtc)
           /\ planes[crtc] # NoBuffer => content[display_buffer] > content[planes[crtc]]
<1>t. TypeOK /\ InStep /\ InOrder /\ Outputs \subseteq {0, 1}
  BY SwapChainAssumption DEF ChannelInv, IInv
<1>1. /\ display_buffer \in Buffer /\ prev_display_buffer \in {NoBuffer} \cup Buffer
      /\ prev_display_buffer # NoBuffer =>
             content[prev_display_buffer] < content[display_buffer]
      /\ \A b \in Buffer : content[b] \in Nat
  BY <1>t, SwapChainAssumption DEF TypeOK, InStep, InOrder, Before
<1>2. CurrentFrame = content[display_buffer] /\ CurrentFrame' = CurrentFrame
  BY <1>1 DEF CurrentFrame, FrameIn, SetPlane, NoBuffer, Buffer
<1>3. OnScreen[crtc] # CurrentFrame
  BY <1>1, <1>2 DEF OnScreen, FrameIn
<1>4. OnScreen' = [OnScreen EXCEPT ![crtc] = CurrentFrame]
  <2>1. /\ planes' = [planes EXCEPT ![crtc] = display_buffer] /\ content' = content
        /\ planes \in [{0, 1} -> {NoBuffer} \cup Buffer]
    BY <1>t DEF SetPlane, TypeOK
  <2>2. ASSUME NEW o \in Outputs
        PROVE  OnScreen'[o] = IF o = crtc THEN CurrentFrame ELSE OnScreen[o]
    BY <1>t, <1>1, <1>2, <2>1 DEF OnScreen, FrameIn, NoBuffer, Buffer
  <2> QED
    BY <2>2 DEF OnScreen
<1>5. QueuedFrames' = QueuedFrames /\ (display_pc # "off")' = (display_pc # "off")
  BY DEF QueuedFrames, FrameIn, SetPlane, queueVars
<1> QED
  BY <1>1, <1>2, <1>3, <1>4, <1>5 DEF Channel!Show

(* put_buffer appends the frame just decoded, newer than all before it; the queue
   has room. *)
LEMMA PutStep ==
    ASSUME ChannelInv, PutBuffer
    PROVE  Channel!PutFrame(frame) /\ frame \in 1..MaxFrame
<1>t. /\ TypeOK /\ Phases /\ Queues /\ EngineInv /\ InOrder /\ capture_pc = "put"
  BY DEF ChannelInv, IInv, PutBuffer
<1>e. write_buffer \in Buffer /\ Held = write_buffer /\ display_pc # "off"
  BY <1>t DEF EngineInv, Phases, Held, TypeOK
<1>1. Packed(current_display_buffer) /\ current_display_buffer[2] = NoBuffer
  BY <1>t, <1>e, HeldApart DEF Queues, ChannelInv
<1>2. frame \in 1..MaxFrame
  BY <1>t, SwapChainAssumption DEF TypeOK, InOrder
<1>3. \A b \in Buffer : content[b] \in Nat
  BY <1>t, SwapChainAssumption DEF TypeOK
<1>4. /\ FrameIn(write_buffer) = frame
      /\ content' = content /\ display_pc' # "off" /\ display_buffer' = display_buffer
      /\ planes' = planes
  BY <1>t, <1>e DEF InOrder, FrameIn, PutBuffer, SignalDisplay, hardwareVars
<1>5. /\ Len(QueuedFrames) < 3
      /\ \A i \in 1..Len(QueuedFrames) : QueuedFrames[i] < frame
      /\ QueuedFrames' = Append(QueuedFrames, frame)
  <2>1. CASE current_display_buffer[0] = NoBuffer
    <3>1. QueuedFrames = <<>>
      BY <2>1 DEF QueuedFrames
    <3>2. QueuedFrames' = <<frame>>
      BY <1>t, <1>e, <1>1, <1>4, <2>1, PutValue
      DEF PutBuffer, QueuedFrames, FrameIn, TypeOK, Packed, Buffer, NoBuffer
    <3> QED
      BY <3>1, <3>2
  <2>2. CASE current_display_buffer[0] # NoBuffer /\ current_display_buffer[1] = NoBuffer
    <3>1. QueuedFrames = <<content[current_display_buffer[0]]>>
      BY <1>e, <2>2 DEF QueuedFrames, FrameIn
    <3>2. QueuedFrames' = <<content[current_display_buffer[0]], frame>>
      BY <1>t, <1>e, <1>1, <1>4, <2>2, PutValue
      DEF PutBuffer, QueuedFrames, FrameIn, TypeOK, Packed, Buffer, NoBuffer
    <3>3. content[current_display_buffer[0]] < frame
      BY <1>t, <1>e, <2>2 DEF InOrder, Older
    <3> QED
      BY <3>1, <3>2, <3>3
  <2>3. CASE current_display_buffer[0] # NoBuffer /\ current_display_buffer[1] # NoBuffer
    <3>1. QueuedFrames =
              <<content[current_display_buffer[0]], content[current_display_buffer[1]]>>
      BY <1>e, <1>1, <2>3 DEF QueuedFrames, FrameIn
    <3>2. QueuedFrames' = <<content[current_display_buffer[0]],
                            content[current_display_buffer[1]], frame>>
      BY <1>t, <1>e, <1>1, <1>4, <2>3, PutValue
      DEF PutBuffer, QueuedFrames, FrameIn, TypeOK, Packed, Buffer, NoBuffer
    <3>3. /\ content[current_display_buffer[0]] < frame
          /\ content[current_display_buffer[1]] < frame
      BY <1>t, <1>e, <2>3 DEF InOrder, Older
    <3> QED
      BY <3>1, <3>2, <3>3
  <2> QED
    BY <2>1, <2>2, <2>3
<1>6. CurrentFrame < frame /\ CurrentFrame' = CurrentFrame
  BY <1>t, <1>e, <1>2, <1>4 DEF CurrentFrame, FrameIn, InOrder, Older
<1>7. OnScreen' = OnScreen /\ (display_pc # "off")' = (display_pc # "off")
  BY <1>4, <1>e DEF OnScreen, FrameIn
<1> QED
  BY <1>2, <1>5, <1>6, <1>7, <1>e DEF Channel!PutFrame, Channel!Capacity

(* The engine writes a frame that is not in the channel yet. *)
LEMMA DecodeStep ==
    ASSUME ChannelInv, Decode
    PROVE  UNCHANGED Channel!chanVars
<1>t. TypeOK /\ EngineInv /\ capture_pc = "decode" /\ Phases
  BY DEF ChannelInv, IInv, Decode
<1>e. write_buffer \in Buffer /\ Held = write_buffer /\ display_pc # "off"
  BY <1>t DEF EngineInv, Phases, Held, TypeOK
<1>1. get_buffer(write_buffer) = write_buffer
  BY <1>e DEF get_buffer, Buffer
<1>2. ASSUME NEW b \in Buffer, b # write_buffer
      PROVE  content'[b] = content[b]
  BY <1>t, <1>1, <1>2 DEF Decode, TypeOK
<1>3. /\ \A i \in Slot : current_display_buffer[i] # write_buffer
      /\ display_buffer # write_buffer
      /\ \A p \in {0, 1} : planes[p] # write_buffer
  BY <1>e, HeldApart
     DEF ChannelInv
<1>4. UNCHANGED <<current_display_buffer, display_buffer, display_pc, planes>>
  BY DEF Decode, queueVars, displayVars
<1>5. QueuedFrames' = QueuedFrames
  <2>1. ASSUME NEW i \in Slot, current_display_buffer[i] # NoBuffer
        PROVE  FrameIn(current_display_buffer[i])' = FrameIn(current_display_buffer[i])
    BY <1>t, <1>2, <1>3, <1>4, <2>1 DEF FrameIn, TypeOK, BufferT
  <2> QED
    BY <1>4, <2>1 DEF QueuedFrames, Slot
<1>6. CurrentFrame' = CurrentFrame
  BY <1>t, <1>2, <1>3, <1>4 DEF CurrentFrame, FrameIn, TypeOK
<1>7. OnScreen' = OnScreen
  <2>1. ASSUME NEW o \in Outputs
        PROVE  planes[o] # NoBuffer => FrameIn(planes[o])' = FrameIn(planes[o])
    BY <1>t, <1>2, <1>3, <1>4, SwapChainAssumption DEF FrameIn, TypeOK
  <2> QED
    BY <1>4, <2>1 DEF OnScreen
<1> QED
  BY <1>4, <1>5, <1>6, <1>7 DEF Channel!chanVars

(* init_display opens the channel with the blank picture. *)
LEMMA OpenStep ==
    ASSUME ChannelInv, InitDisplay
    PROVE  Channel!Open
<1>1. /\ display_pc = "off" /\ display_pc' # "off" /\ planes' = planes
      /\ \A o \in Outputs : planes[o] = NoBuffer
      /\ display_buffer' = NoBuffer
  BY SwapChainAssumption DEF ChannelInv, IInv, Phases, InitDisplay
<1>2. QueuedFrames' = <<0>>
  BY FreshQueues DEF InitDisplay, QueuedFrames, FrameIn, Blank, Buffer, NoBuffer
<1>3. CurrentFrame' = CurrentFrame /\ OnScreen' = OnScreen
  BY <1>1 DEF CurrentFrame, OnScreen
<1> QED
  BY <1>1, <1>2, <1>3 DEF Channel!Open, Channel!Blank

(* The end of the display thread closes it. *)
LEMMA CloseStep ==
    ASSUME ChannelInv, TerminateJoin
    PROVE  Channel!Close
<1>1. /\ display_pc # "off" /\ display_pc' = "off"
      /\ \A o \in Outputs : planes'[o] = NoBuffer
  BY SwapChainAssumption DEF TerminateJoin
<1>2. QueuedFrames' = <<>> /\ CurrentFrame' = -1
  BY <1>1 DEF QueuedFrames, CurrentFrame
<1>3. OnScreen' = [o \in Outputs |-> -1]
  BY <1>1 DEF OnScreen
<1> QED
  BY <1>1, <1>2, <1>3 DEF Channel!Close, Channel!None

(* The first state is a closed channel. *)
LEMMA MapInit == Init => Channel!Init
<1> SUFFICES ASSUME Init PROVE Channel!Init
  OBVIOUS
<1>1. QueuedFrames = <<>> /\ CurrentFrame = -1 /\ ~(display_pc # "off")
  BY DEF Init, QueuedFrames, CurrentFrame
<1>2. OnScreen = [o \in Outputs |-> -1]
  BY SwapChainAssumption DEF Init, OnScreen
<1> QED
  BY <1>1, <1>2 DEF Channel!Init, Channel!None

(* Every step of the threads is a step of the channel or a stutter. *)
LEMMA MapStep ==
    ASSUME ChannelInv, [Next]_vars
    PROVE  [Channel!Next]_Channel!chanVars
<1>t. InStep /\ Phases /\ OnPlanes
  BY DEF ChannelInv, IInv
<1>1. CASE DisplayTake \/ DisplayWoken
  <2>1. CASE current_display_buffer[0] # NoBuffer
    BY <1>1, <2>1, TakeStep
    DEF DisplayTake, DisplayWoken, hardwareVars, Channel!Next
  <2>2. CASE current_display_buffer[0] = NoBuffer
    BY <1>1, <2>2, Stutter DEF DisplayTake, DisplayWoken, hardwareVars
  <2> QED
    BY <2>1, <2>2
<1>2. CASE DisplayHdmi
  <2>1. CASE 0 \in Outputs
    <3>1. Channel!Show(0)
      BY <1>2, <1>t, <2>1, ShowStep DEF DisplayHdmi, InStep
    <3> QED
      BY <2>1, <3>1 DEF Channel!Next
  <2>2. CASE 0 \notin Outputs
    BY <1>2, <2>2, Stutter DEF DisplayHdmi, SetPlane, queueVars
  <2> QED
    BY <2>1, <2>2
<1>3. CASE DisplayComposite
  <2>1. CASE 1 \in Outputs
    <3>1. Channel!Show(1)
      BY <1>3, <1>t, <2>1, ShowStep DEF DisplayComposite, InStep
    <3> QED
      BY <2>1, <3>1 DEF Channel!Next
  <2>2. CASE 1 \notin Outputs
    BY <1>3, <2>2, Stutter DEF DisplayComposite, SetPlane, queueVars
  <2> QED
    BY <2>1, <2>2
<1>4. CASE PutBuffer
  BY <1>4, PutStep DEF Channel!Next
<1>5. CASE Decode
  BY <1>5, DecodeStep
<1>6. CASE InitDisplay
  BY <1>6, OpenStep DEF Channel!Next
<1>7. CASE TerminateJoin
  BY <1>7, CloseStep DEF Channel!Next
<1>8. CASE DisplayCheck \/ DisplayRelease
  BY <1>8, Stutter DEF DisplayCheck, DisplayRelease, queueVars, hardwareVars
<1>9. CASE \/ DropFrame \/ StartFrame \/ GetOutputs \/ GetBuffer \/ GetBufferWoken
           \/ VeWait
  BY <1>9, Stutter
  DEF DropFrame, StartFrame, GetOutputs, GetBuffer, GetBufferWoken, VeWait,
      queueVars, displayVars, captureVars, hardwareVars
<1>10. CASE EngineDone \/ TerminateStop \/ TerminateSignal
  BY <1>10, Stutter
  DEF EngineDone, TerminateStop, TerminateSignal, SignalDisplay, queueVars,
      displayVars, captureVars, hardwareVars
<1>11. CASE \/ DisplaySpuriousWakeup \/ CaptureSpuriousWakeup \/ SetPlaneFails
            \/ InitDisplayFails
  BY <1>11, Stutter
  DEF DisplaySpuriousWakeup, CaptureSpuriousWakeup, SetPlaneFails,
      InitDisplayFails, queueVars, displayVars, captureVars, hardwareVars
<1>12. CASE UNCHANGED vars
  BY <1>12, Stutter DEF vars, queueVars, displayVars, captureVars, hardwareVars
<1> QED
  BY <1>1, <1>2, <1>3, <1>4, <1>5, <1>6, <1>7, <1>8, <1>9, <1>10, <1>11, <1>12
  DEF Next, DisplayThread, DecodeFrame, HwClose, Environment

(* The three threads of display.c and jpeg_dec_main.c implement the FIFO frame
   channel: no frame is lost between put_buffer and the outputs, none is shown
   twice, altered or out of order, and no output falls a frame behind another. *)
THEOREM ChannelImplemented ==
    ASSUME ~SpuriousWakeups, ~VeTimeouts
    PROVE  Spec => ImplementsChannel
<1>1. ChannelInv /\ [Next]_vars => [Channel!Next]_Channel!chanVars
  BY MapStep
<1>2. Spec => Channel!Spec
  BY <1>1, MapInit, ChannelAlways, PTL DEF Spec, Channel!Spec
<1> QED
  BY <1>2 DEF ImplementsChannel

(* An output that shows a frame is only ever switched to a newer one. *)
THEOREM NewerOnly ==
    ASSUME ~SpuriousWakeups, ~VeTimeouts
    PROVE  Spec => ShownInOrder
<1> DEFINE Forward ==
        \A p \in {0, 1} :
           planes[p] # NoBuffer /\ planes'[p] \notin {NoBuffer, planes[p]}
               => content'[planes'[p]] > content[planes[p]]
<1>1. ASSUME ChannelInv, [Next]_vars
      PROVE  [Forward]_vars
  <2>t. InStep /\ TypeOK
    BY <1>1 DEF ChannelInv, IInv
  <2>1. CASE DisplayHdmi
    <3>1. CASE 0 \in Outputs
      <4>1. planes[0] # NoBuffer => content[display_buffer] > content[planes[0]]
        BY <1>1, <2>1, <2>t, <3>1, ShowStep DEF DisplayHdmi, InStep
      <4>2. planes' = [planes EXCEPT ![0] = display_buffer] /\ content' = content
        BY <2>1, <3>1 DEF DisplayHdmi, SetPlane
      <4> QED
        BY <2>t, <4>1, <4>2 DEF TypeOK
    <3>2. CASE 0 \notin Outputs
      BY <2>1, <3>2 DEF DisplayHdmi, SetPlane
    <3> QED
      BY <3>1, <3>2
  <2>2. CASE DisplayComposite
    <3>1. CASE 1 \in Outputs
      <4>1. planes[1] # NoBuffer => content[display_buffer] > content[planes[1]]
        BY <1>1, <2>2, <2>t, <3>1, ShowStep DEF DisplayComposite, InStep
      <4>2. planes' = [planes EXCEPT ![1] = display_buffer] /\ content' = content
        BY <2>2, <3>1 DEF DisplayComposite, SetPlane
      <4> QED
        BY <2>t, <4>1, <4>2 DEF TypeOK
    <3>2. CASE 1 \notin Outputs
      BY <2>2, <3>2 DEF DisplayComposite, SetPlane
    <3> QED
      BY <3>1, <3>2
  <2>3. CASE TerminateJoin
    BY <2>3 DEF TerminateJoin
  <2>4. CASE planes' = planes
    BY <2>4
  <2> QED
    BY <1>1, <2>1, <2>2, <2>3, <2>4
    DEF Next, DisplayThread, DecodeFrame, HwClose, Environment, vars,
        DisplayCheck, DisplayTake, DisplayWoken, DisplayRelease, DropFrame,
        StartFrame, InitDisplay, GetOutputs, GetBuffer, GetBufferWoken, Decode,
        VeWait, PutBuffer, EngineDone, TerminateStop, TerminateSignal,
        DisplaySpuriousWakeup, CaptureSpuriousWakeup, SetPlaneFails,
        InitDisplayFails, hardwareVars
<1>2. Spec => [][Forward]_vars
  BY <1>1, ChannelAlways, PTL DEF Spec
<1> QED
  BY <1>2 DEF ShownInOrder

=============================================================================
