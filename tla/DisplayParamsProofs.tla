------------------------- MODULE DisplayParamsProofs -------------------------
(***************************************************************************)
(* No change of a display parameter is forgotten, for any number of        *)
(* frames, outputs, sessions and changes.  Of the swap chain the proof     *)
(* needs that main leaves terminate_display only when the display thread   *)
(* has ended; the rest is the protocol of the two flags (PInv).            *)
(***************************************************************************)
EXTENDS DisplayParams, TLAPS

(* The blocks that the display thread has sent when it is at pc. *)
SentAt(pc) ==
    CASE pc = "bws" -> {"fcc"}
      [] pc = "lti" -> {"fcc", "bws"}
      [] pc = "clear" -> Block
      [] OTHER -> {}

Sending == {"fcc", "bws", "lti", "clear"}

ParamTypeOK ==
    /\ unsent \subseteq Block
    /\ set_block \in Block
    /\ set_pc \in {"idle", "stored", "send", "postpone"}
    /\ apply_pc \in {"none", "ready", "test"} \cup Sending
    /\ display_ready \in BOOLEAN
    /\ pending_controls_apply \in BOOLEAN

(* Behind its planes the display thread is not at an end, so main cannot be past
   terminate_display; and terminate_display finds no control thread. *)
Threads ==
    /\ apply_pc # "none" => display_pc = "release"
    /\ main_pc # "run" => set_pc = "idle"

(* While the blocks are sent the flag is up, or no block can be set any more. *)
FlagUp == apply_pc \in Sending \cup {"test"} => display_ready \/ main_pc # "run"

Requested == apply_pc \in Sending => pending_controls_apply

(* A block that changes after it was sent is one the control thread sends itself. *)
SentAgain ==
    \A b \in unsent \cap SentAt(apply_pc) : set_pc \in {"stored", "send"} /\ set_block = b

PInv == ParamTypeOK /\ Threads /\ FlagUp /\ Requested /\ SentAgain /\ NoChangeForgotten

pvars == <<vars, paramVars>>

USE DEF Block, Sending

-----------------------------------------------------------------------------
(* What the proof needs of the swap chain. *)
LEMMA MainLeavesRun ==
    ASSUME Next, main_pc = "run"
    PROVE  main_pc' \in {"run", "signal"}
  BY DEF Next, DisplayThread, DecodeFrame, HwClose, Environment, EngineDone, DisplayCheck,
         DisplayTake, DisplayWoken, DisplayHdmi, DisplayComposite, DisplayRelease, SetPlane,
         InitDisplay, GetOutputs, GetBuffer, GetBufferWoken, Decode, VeWait, PutBuffer,
         TerminateSignal, TerminateJoin, DropFrame, StartFrame, TerminateStop,
         InitDisplayFails, SetPlaneFails, DisplaySpuriousWakeup, CaptureSpuriousWakeup,
         queueVars, displayVars, captureVars, hardwareVars

LEMMA MainComesBack ==
    ASSUME Next, main_pc # "run", display_pc = "release"
    PROVE  main_pc' # "run"
  BY DEF Next, DisplayThread, DecodeFrame, HwClose, Environment, EngineDone, DisplayCheck,
         DisplayTake, DisplayWoken, DisplayHdmi, DisplayComposite, DisplayRelease, SetPlane,
         InitDisplay, GetOutputs, GetBuffer, GetBufferWoken, Decode, VeWait, PutBuffer,
         TerminateSignal, TerminateJoin, DropFrame, StartFrame, TerminateStop,
         InitDisplayFails, SetPlaneFails, DisplaySpuriousWakeup, CaptureSpuriousWakeup,
         queueVars, displayVars, captureVars, hardwareVars

LEMMA InitInvariant == ParamInit => PInv
  BY DEF ParamInit, Init, PInv, ParamTypeOK, Threads, FlagUp, Requested, SentAgain,
         NoChangeForgotten, SentAt

LEMMA StepInvariant == PInv /\ [ParamNext]_pvars => PInv'
  <1> SUFFICES ASSUME PInv, [ParamNext]_pvars PROVE PInv'
    OBVIOUS
  <1> USE DEF PInv
  <1>1. CASE SwapChainStep
    <2>1. ParamTypeOK'
      BY <1>1 DEF SwapChainStep, ParamTypeOK
    <2>2. Threads'
      <3>1. (apply_pc # "none" => display_pc = "release")'
        BY <1>1 DEF SwapChainStep, Threads
      <3>2. (main_pc # "run" => set_pc = "idle")'
        BY <1>1, MainLeavesRun DEF SwapChainStep, Threads
      <3> QED BY <3>1, <3>2 DEF Threads
    <2>3. FlagUp'
      <3> SUFFICES ASSUME apply_pc' \in Sending \cup {"test"}
                   PROVE  display_ready' \/ main_pc' # "run"
        BY DEF FlagUp
      <3>1. apply_pc' = apply_pc /\ display_pc = "release"
        BY <1>1 DEF SwapChainStep, Threads
      <3>2. CASE main_pc # "run"
        BY <1>1, <3>1, <3>2, MainComesBack DEF SwapChainStep
      <3>3. CASE main_pc = "run"
        BY <1>1, <3>1, <3>3, MainLeavesRun DEF SwapChainStep, FlagUp
      <3> QED BY <3>2, <3>3
    <2>4. Requested' /\ SentAgain'
      <3>1. CASE apply_pc' = apply_pc
        BY <1>1, <3>1 DEF SwapChainStep, Requested, SentAgain, SentAt
      <3>2. CASE apply_pc' = "ready"
        BY <1>1, <3>2 DEF SwapChainStep, Requested, SentAgain, SentAt
      <3> QED BY <1>1, <3>1, <3>2 DEF SwapChainStep
    <2>5. NoChangeForgotten'
      BY <1>1 DEF SwapChainStep, NoChangeForgotten
    <2> QED BY <2>1, <2>2, <2>3, <2>4, <2>5
  <1>2. ASSUME NEW b \in Block, StoreBlock(b) PROVE PInv'
    <2>1. /\ main_pc = "run" /\ set_pc = "idle"
          /\ UNCHANGED <<main_pc, display_pc, display_ready, pending_controls_apply, apply_pc>>
          /\ unsent' = unsent \cup {b} /\ set_pc' = "stored" /\ set_block' = b
      BY <1>2 DEF StoreBlock, vars, displayVars
    <2>2. ParamTypeOK' /\ Threads' /\ FlagUp' /\ Requested'
      BY <2>1 DEF ParamTypeOK, Threads, FlagUp, Requested
    <2>3. SentAgain'
      BY <2>1 DEF SentAgain, SentAt
    <2>4. NoChangeForgotten'
      BY <2>1 DEF NoChangeForgotten
    <2> QED BY <2>2, <2>3, <2>4
  <1>3. CASE TestReady
    <2>1. /\ set_pc = "stored"
          /\ set_pc' = IF display_ready THEN "send" ELSE "postpone"
          /\ UNCHANGED <<main_pc, display_pc, display_ready, pending_controls_apply, apply_pc,
                         unsent, set_block>>
      BY <1>3 DEF TestReady, vars, displayVars
    <2>2. ParamTypeOK' /\ Threads' /\ FlagUp' /\ Requested'
      BY <2>1 DEF ParamTypeOK, Threads, FlagUp, Requested
    <2>3. SentAgain'
      <3>1. CASE apply_pc \in Sending
        BY <2>1, <3>1 DEF SentAgain, SentAt, FlagUp, Threads
      <3>2. CASE apply_pc \notin Sending
        BY <2>1, <3>2 DEF SentAgain, SentAt
      <3> QED BY <3>1, <3>2
    <2>4. NoChangeForgotten'
      BY <2>1 DEF NoChangeForgotten
    <2> QED BY <2>2, <2>3, <2>4
  <1>4. CASE SendBlock
    <2>1. /\ set_pc = "send" /\ set_pc' = "idle"
          /\ unsent' = unsent \ {set_block}
          /\ UNCHANGED <<main_pc, display_pc, display_ready, pending_controls_apply, apply_pc,
                         set_block>>
      BY <1>4 DEF SendBlock, vars, displayVars
    <2>2. ParamTypeOK' /\ Threads' /\ FlagUp' /\ Requested'
      BY <2>1 DEF ParamTypeOK, Threads, FlagUp, Requested
    <2>3. SentAgain'
      BY <2>1 DEF SentAgain, SentAt
    <2>4. NoChangeForgotten'
      BY <2>1 DEF NoChangeForgotten
    <2> QED BY <2>2, <2>3, <2>4
  <1>5. CASE PostponeBlock
    <2>1. /\ set_pc = "postpone" /\ set_pc' = "idle"
          /\ pending_controls_apply' = TRUE
          /\ UNCHANGED <<main_pc, display_pc, display_ready, apply_pc, unsent, set_block>>
      BY <1>5 DEF PostponeBlock, vars, displayVars
    <2>2. ParamTypeOK' /\ Threads' /\ FlagUp' /\ Requested'
      BY <2>1 DEF ParamTypeOK, Threads, FlagUp, Requested
    <2>3. SentAgain'
      BY <2>1 DEF SentAgain, SentAt
    <2>4. NoChangeForgotten'
      BY <2>1 DEF NoChangeForgotten
    <2> QED BY <2>2, <2>3, <2>4
  <1>6. CASE RaiseReady
    <2>1. /\ apply_pc = "ready" /\ apply_pc' = "test" /\ display_ready' = TRUE
          /\ UNCHANGED <<main_pc, display_pc, pending_controls_apply, unsent, set_pc, set_block>>
      BY <1>6 DEF RaiseReady, vars, displayVars
    <2> QED BY <2>1 DEF ParamTypeOK, Threads, FlagUp, Requested, SentAgain, SentAt,
                        NoChangeForgotten
  <1>7. CASE TestPending
    <2>1. /\ apply_pc = "test"
          /\ apply_pc' = IF pending_controls_apply THEN "fcc" ELSE "none"
          /\ UNCHANGED <<main_pc, display_pc, display_ready, pending_controls_apply, unsent,
                         set_pc, set_block>>
      BY <1>7 DEF TestPending, vars, displayVars
    <2>2. ParamTypeOK' /\ Threads' /\ FlagUp' /\ Requested'
      BY <2>1 DEF ParamTypeOK, Threads, FlagUp, Requested
    <2>3. SentAgain' /\ NoChangeForgotten'
      BY <2>1 DEF SentAgain, SentAt, NoChangeForgotten
    <2> QED BY <2>2, <2>3
  <1>8. ASSUME NEW b \in Block, NEW next \in {"bws", "lti", "clear"}, ApplyBlock(b, next),
               SentAt(next) = SentAt(b) \cup {b}
        PROVE  PInv'
    <2>1. /\ apply_pc = b /\ apply_pc' = next /\ unsent' = unsent \ {b}
          /\ UNCHANGED <<main_pc, display_pc, display_ready, pending_controls_apply,
                         set_pc, set_block>>
      BY <1>8 DEF ApplyBlock, vars, displayVars
    <2>2. ParamTypeOK' /\ Threads' /\ FlagUp' /\ Requested'
      BY <2>1 DEF ParamTypeOK, Threads, FlagUp, Requested
    <2>3. SentAgain'
      <3>1. (unsent \cap SentAt(apply_pc))' \subseteq unsent \cap SentAt(apply_pc)
        BY <2>1, <1>8 DEF SentAt
      <3> QED BY <2>1, <3>1 DEF SentAgain
    <2>4. NoChangeForgotten'
      BY <2>1 DEF NoChangeForgotten
    <2> QED BY <2>2, <2>3, <2>4
  <1>9. CASE ClearPending
    <2>1. /\ apply_pc = "clear" /\ apply_pc' = "none" /\ pending_controls_apply' = FALSE
          /\ UNCHANGED <<main_pc, display_pc, display_ready, unsent, set_pc, set_block>>
      BY <1>9 DEF ClearPending, vars, displayVars
    <2>2. ParamTypeOK' /\ Threads' /\ FlagUp' /\ Requested' /\ SentAgain'
      BY <2>1 DEF ParamTypeOK, Threads, FlagUp, Requested, SentAgain, SentAt
    <2>3. NoChangeForgotten'
      BY <2>1 DEF NoChangeForgotten, SentAgain, SentAt, ParamTypeOK
    <2> QED BY <2>2, <2>3
  <1>10. CASE UNCHANGED pvars
    BY <1>10 DEF pvars, vars, paramVars, displayVars, ParamTypeOK, Threads, FlagUp, Requested,
                 SentAgain, SentAt, NoChangeForgotten
  <1>11. CASE ApplyBlock("fcc", "bws") \/ ApplyBlock("bws", "lti") \/ ApplyBlock("lti", "clear")
    <2>1. /\ SentAt("bws") = SentAt("fcc") \cup {"fcc"}
          /\ SentAt("lti") = SentAt("bws") \cup {"bws"}
          /\ SentAt("clear") = SentAt("lti") \cup {"lti"}
      BY DEF SentAt
    <2> QED BY <1>8, <1>11, <2>1
  <1> QED BY <1>1, <1>2, <1>3, <1>4, <1>5, <1>6, <1>7, <1>9, <1>10, <1>11
          DEF ParamNext, ControlThread, Apply

(* Every changed block of parameters reaches the driver by the hand of one of the two
   threads: none is stored after the display thread sent its block and before it
   clears the request, with the control thread trusting in that request
   (display.c:145-152, 583-629). *)
THEOREM ChangesArrive == ParamSpec => []NoChangeForgotten
  <1>1. PInv => NoChangeForgotten
    BY DEF PInv
  <1>2. ParamSpec => []PInv
    BY InitInvariant, StepInvariant, PTL DEF ParamSpec, pvars
  <1> QED BY <1>1, <1>2, PTL

=============================================================================
