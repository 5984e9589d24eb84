----------------------------- MODULE MCCecValue -----------------------------
(* Sample cameras and messages for CecValue. *)
EXTENDS CecValue

Control(minimum, maximum, step) ==
    [minimum |-> minimum, maximum |-> maximum, step |-> step]

(* A plain knob, a signed one, a white balance in steps of 10, a coarse one, and
   one whose grid (1, 5, 9) does not contain 0. *)
MCControls == {Control(0, 255, 1), Control(-64, 64, 1), Control(2800, 6500, 10),
               Control(0, 1000, 50), Control(1, 9, 4)}

=============================================================================
