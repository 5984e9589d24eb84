---------------------------- MODULE DisplayParams ----------------------------
(***************************************************************************)
(* The three blocks of picture parameters of display.c (fcc, bws, lti) on  *)
(* top of the swap chain.  The control thread stores a changed block and   *)
(* sends it to the driver, or leaves it for the display thread, which      *)
(* sends all three behind the first picture it shows.  The flags the two   *)
(* threads go by are plain ints, so every access is a step of its own.     *)
(*                                                                         *)
(* main joins the control thread before it calls hw_close (main.c:334,     *)
(* 358): no block is set while terminate_display runs.  A block counts as  *)
(* sent once the ioctl (external) returns, whose result is not looked at.  *)
(***************************************************************************)
EXTENDS SwapChain

Block == {"fcc", "bws", "lti"}

VARIABLES
    display_ready,           \* display.c's own display_initialized
    pending_controls_apply,
    unsent,                  \* blocks whose memory the driver has not got
    set_pc,                  \* where the control thread is in set_drm_...
    set_block,               \* and of which block
    apply_pc                 \* where the display thread is behind its planes

paramVars == <<display_ready, pending_controls_apply, unsent, set_pc, set_block, apply_pc>>

-----------------------------------------------------------------------------
(* The control thread: set_drm_fcc, set_drm_bws and set_drm_lti. *)

(* memcmp finds a difference (else nothing is done) and memcpy stores the block. *)
StoreBlock(b) ==
    /\ set_pc = "idle" /\ main_pc = "run"
    /\ set_block' = b
    /\ unsent' = unsent \cup {b}
    /\ set_pc' = "stored"
    /\ UNCHANGED <<vars, display_ready, pending_controls_apply, apply_pc>>

TestReady ==
    /\ set_pc = "stored"
    /\ set_pc' = IF display_ready THEN "send" ELSE "postpone"
    /\ UNCHANGED <<vars, display_ready, pending_controls_apply, unsent, set_block, apply_pc>>

SendBlock ==
    /\ set_pc = "send"
    /\ unsent' = unsent \ {set_block}
    /\ set_pc' = "idle"
    /\ UNCHANGED <<vars, display_ready, pending_controls_apply, set_block, apply_pc>>

PostponeBlock ==
    /\ set_pc = "postpone"
    /\ pending_controls_apply' = TRUE
    /\ set_pc' = "idle"
    /\ UNCHANGED <<vars, display_ready, unsent, set_block, apply_pc>>

-----------------------------------------------------------------------------
(* The display thread, between its planes and the buffer it gives back. *)

(* Fault form: the control thread is not told that the display is up. *)
RaiseReady_Forgotten ==
    /\ apply_pc = "ready"
    /\ apply_pc' = "test"
    /\ UNCHANGED <<vars, display_ready, pending_controls_apply, unsent, set_pc, set_block>>

RaiseReady ==
    /\ apply_pc = "ready"
    /\ display_ready' = TRUE
    /\ apply_pc' = "test"
    /\ UNCHANGED <<vars, pending_controls_apply, unsent, set_pc, set_block>>

TestPending ==
    /\ apply_pc = "test"
    /\ apply_pc' = IF pending_controls_apply THEN "fcc" ELSE "none"
    /\ UNCHANGED <<vars, display_ready, pending_controls_apply, unsent, set_pc, set_block>>

ApplyBlock(b, nextPc) ==
    /\ apply_pc = b
    /\ unsent' = unsent \ {b}
    /\ apply_pc' = nextPc
    /\ UNCHANGED <<vars, display_ready, pending_controls_apply, set_pc, set_block>>

ClearPending ==
    /\ apply_pc = "clear"
    /\ pending_controls_apply' = FALSE
    /\ apply_pc' = "none"
    /\ UNCHANGED <<vars, display_ready, unsent, set_pc, set_block>>

-----------------------------------------------------------------------------
(* A step of the swap chain.  The display thread comes here behind its second plane
   and gives its buffer back afterwards; terminate_display clears display_ready
   and finds no control thread. *)
SwapChainStep ==
    LET drawn == display_pc = "composite" /\ display_pc' = "release"
        terminating == main_pc = "run" /\ main_pc' = "signal"
    IN  /\ Next
        /\ apply_pc # "none" => display_pc' = display_pc
        /\ terminating => set_pc = "idle"
        /\ apply_pc' = IF drawn THEN "ready" ELSE apply_pc
        /\ display_ready' = (display_ready /\ ~terminating)
        /\ UNCHANGED <<pending_controls_apply, unsent, set_pc, set_block>>

ParamInit ==
    /\ Init
    /\ display_ready = FALSE /\ pending_controls_apply = FALSE
    /\ unsent = {}
    /\ set_pc = "idle" /\ set_block = "fcc"
    /\ apply_pc = "none"

ControlThread ==
    \/ \E b \in Block : StoreBlock(b)
    \/ TestReady \/ SendBlock \/ PostponeBlock

Apply ==
    \/ RaiseReady \/ TestPending
    \/ ApplyBlock("fcc", "bws") \/ ApplyBlock("bws", "lti") \/ ApplyBlock("lti", "clear")
    \/ ClearPending

ParamNext ==
    \/ SwapChainStep
    \/ ~exited /\ (ControlThread \/ Apply)

ParamSpec == ParamInit /\ [][ParamNext]_<<vars, paramVars>>

-----------------------------------------------------------------------------
(* No change of a parameter is forgotten: a block the driver has not got is still
   being set, or the display thread is going to send it.  It is the order of the
   store and the test on one side, and of flag, ioctls and the cleared request on
   the other, that no lock protects (display.c:145-152, 583-629). *)
NoChangeForgotten ==
    \A b \in unsent : pending_controls_apply \/ (set_pc # "idle" /\ set_block = b)

=============================================================================
