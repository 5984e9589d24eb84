------------------------------ MODULE CecValue ------------------------------
(***************************************************************************)
(* What becomes of a CEC camera-control message (cec_controls.c): the      *)
(* process functions join a message's low byte with the last high byte     *)
(* received for the same control, and apply_value scales the result from   *)
(* the switcher's range to the range of the camera's V4L2 control.         *)
(*                                                                         *)
(* Doubles are modelled by exact fractions.  For the ranges used here the  *)
(* rounding error of a double is far below the distance of any scaled      *)
(* value from a tie, so both round to the same int.                        *)
(***************************************************************************)
EXTENDS Integers

CONSTANTS
    Codes,          \* the messages the switcher sends
    Data1, Data2,   \* their low and high bytes
    Controls,       \* integer controls a camera may offer: minimum, maximum, step
    Garbage         \* values an uninitialised int may have

Code == {"contrast", "luma", "pivot", "saturation", "shutter", "wbt"}

ASSUME CecValueAssumption ==
    /\ Codes \subseteq Code
    /\ Data1 \subseteq 0..255 /\ Data2 \subseteq 0..255
    /\ Controls \subseteq [minimum : Int, maximum : Int, step : Nat \ {0}]
    /\ \A q \in Controls : q.minimum <= q.maximum
    /\ Garbage \subseteq Int

(* The range of values of each message; <<0, 0>> asks for no scaling. *)
InputRange(code) ==
    CASE code \in {"contrast", "saturation"} -> <<0, 4096>>
      [] code \in {"pivot", "luma"} -> <<0, 2048>>
      [] code = "shutter" -> <<41667, 500>>
      [] code = "wbt" -> <<0, 0>>

(* V4L2 ids (external) of the controls apply_value looks up by name. *)
V4L2_CID_BASE == 9963776
ControlId(code) ==
    V4L2_CID_BASE + (CASE code = "pivot" -> 0 [] code = "contrast" -> 1
                       [] code = "saturation" -> 2 [] code = "luma" -> 16
                       [] code = "shutter" -> 19 [] code = "wbt" -> 26)

-----------------------------------------------------------------------------
(* C's arithmetic: division truncates, round takes halves away from zero. *)
Quotient(a, b) == IF a >= 0 THEN a \div b ELSE -((-a) \div b)

Round(n, d) ==
    IF n >= 0 THEN (2 * n + d) \div (2 * d) ELSE -((d - 2 * n) \div (2 * d))

(* Fault form: the remainder is kept instead of the multiple. *)
ToStep_Remainder(value, step) == value - Quotient(value, step) * step

ToStep(value, step) == Quotient(value, step) * step

(* input_percent, a fraction: inverted once more when the range descends. *)
Percent(min, max, val) ==
    LET sign == IF min > max THEN -1 ELSE 1
        num == sign * (val - min)
        den == sign * (max - min)
    IN  IF min > max THEN <<den - num, den>> ELSE <<num, den>>

(* Fault form: the offset of the output range is left out. *)
Output_NoOffset(q, percent) ==
    Round((q.maximum - q.minimum) * percent[1], percent[2])

Output(q, percent) ==
    Round((q.maximum - q.minimum) * percent[1] + q.minimum * percent[2], percent[2])

(* The values ctrl.value can have when S_CTRL is called: out of bounds, the code
   reports an error and goes on with an uninitialised value. *)
CtrlValues(q, min, max, val) ==
    IF min = 0 /\ max = 0
    THEN IF val <= q.minimum THEN {q.minimum}
         ELSE IF val >= q.maximum THEN {q.maximum}
         ELSE {ToStep(val, q.step)}
    ELSE IF val = min THEN {q.minimum}
    ELSE IF val = max THEN {q.maximum}
    ELSE LET output == Output(q, Percent(min, max, val))
         IN  IF output \in q.minimum..q.maximum THEN {ToStep(output, q.step)}
             ELSE Garbage

-----------------------------------------------------------------------------
VARIABLES
    qctrl,      \* the camera's integer control of each name, or NoControl
    data2,      \* the static high byte of each process function
    request,    \* the message value last processed
    ctrl,       \* the v4l2_control last passed to VIDIOC_S_CTRL
    camera      \* the camera's control values

vars == <<qctrl, data2, request, ctrl, camera>>

NoControl == [minimum |-> 0, maximum |-> 0, step |-> 0]
NoRequest == [code |-> "none", val |-> 0]

(* process_contrast and its siblings; process_wbt scales its one byte. *)
Value(code, high, low) ==
    IF code = "wbt" THEN (low - 50) * 50 + 2500 ELSE high * 256 + low

(* VIDIOC_S_CTRL (external) sets the control with the given id, if there is one. *)
SetControl(id, value) ==
    camera' = [c \in Code |-> IF ControlId(c) = id THEN value ELSE camera[c]]

(* A message for a control the camera does not offer changes the high byte only. *)
Process(code, low, high, hasData2) ==
    /\ data2' = IF hasData2 /\ code # "wbt" THEN [data2 EXCEPT ![code] = high]
                ELSE data2
    /\ \/ /\ qctrl[code] = NoControl
          /\ UNCHANGED <<request, ctrl, camera>>
       \/ /\ qctrl[code] # NoControl
          /\ request' = [code |-> code, val |-> Value(code, data2'[code], low)]
          /\ \E value \in CtrlValues(qctrl[code], InputRange(code)[1],
                                     InputRange(code)[2], request'.val) :
                /\ ctrl' = [id |-> 1, value |-> value]
                /\ SetControl(1, value)
    /\ UNCHANGED qctrl

Init ==
    /\ \E q \in Controls \cup {NoControl} : qctrl = [c \in Code |-> q]
    /\ data2 = [c \in Code |-> 0]
    /\ request = NoRequest
    /\ ctrl = [id |-> 0, value |-> 0]
    /\ camera = [c \in Code |-> qctrl[c].minimum]

Next ==
    \E code \in Codes, low \in Data1, high \in Data2, hasData2 \in BOOLEAN :
        Process(code, low, high, hasData2)

Spec == Init /\ [][Next]_vars

-----------------------------------------------------------------------------
InInputRange(r) ==
    LET range == InputRange(r.code)
    IN  \/ r.code = "wbt"
        \/ range[1] <= r.val /\ r.val <= range[2]
        \/ range[2] <= r.val /\ r.val <= range[1]

(* The camera's grid of values contains 0, so that rounding down to a multiple
   of the step stays on it. *)
OnGrid(q) == q.minimum % q.step = 0 /\ q.maximum % q.step = 0

(* A message value inside the switcher's range is sent to the camera as a legal
   value of its control, for any control whose grid contains 0
   (cec_controls.c:263-323). *)
LegalValue ==
    (request.code \in Code /\ InInputRange(request)) =>
        LET q == qctrl[request.code]
        IN  OnGrid(q) => /\ ctrl.value \in q.minimum..q.maximum
                         /\ (ctrl.value - q.minimum) % q.step = 0

(* Turning a knob up never turns the control down: two messages for the same
   control, the second with the larger value (cec_controls.c:300-317). *)
SameKnob(codes) ==
    /\ request.code \in codes /\ request'.code = request.code
    /\ InInputRange(request) /\ InInputRange(request')
    /\ OnGrid(qctrl[request.code])

Monotone ==
    [][SameKnob(Code \ {"shutter"}) /\ request'.val >= request.val
          => ctrl'.value >= ctrl.value]_vars

(* What the comment promises for the shutter: "Exposure is the inverse. greater
   is min, smaller is max" (cec_controls.c:401-402). *)
ShutterInverse ==
    [][SameKnob({"shutter"}) /\ request'.val >= request.val
          => ctrl'.value <= ctrl.value]_vars

(* What the comment promises for the white balance: "Just wrap and forward
   value" (cec_controls.c:297): the camera's control gets it. *)
Wrap(q, val) ==
    IF val <= q.minimum THEN q.minimum
    ELSE IF val >= q.maximum THEN q.maximum ELSE ToStep(val, q.step)

WhiteBalanceForwarded ==
    request.code = "wbt" =>
        camera["wbt"] = Wrap(qctrl["wbt"], request.val)

=============================================================================
