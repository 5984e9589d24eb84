--------------------------- MODULE CecValueProofs ---------------------------
(***************************************************************************)
(* What the camera gets for a CEC message, for every range and step of its *)
(* control, every message value and every history of high bytes: the       *)
(* arithmetic of apply_value.  The invariant is LastApplied.               *)
(***************************************************************************)
EXTENDS CecValue, TLAPS

-----------------------------------------------------------------------------
(* Division by a positive number, and multiples of it. *)
LEMMA Division ==
    ASSUME NEW a \in Int, NEW d \in Nat \ {0}
    PROVE  /\ a \div d \in Int
           /\ d * (a \div d) <= a
           /\ a < d * (a \div d) + d
           /\ a % d = a - d * (a \div d)
           /\ a >= 0 => a \div d >= 0
  OBVIOUS

LEMMA Multiples ==
    ASSUME NEW j \in Int, NEW k \in Int, NEW d \in Nat \ {0}
    PROVE  /\ d * j \in Int
           /\ d * j < d * k + d => j <= k
           /\ j <= k => d * j <= d * k
           /\ (d * j) % d = 0
           /\ d * j - d * k = d * (j - k)
           /\ -(d * j) = d * (-j)
  OBVIOUS

(* C's division by a step: the multiple of the step next to value, towards 0. *)
LEMMA QuotientBounds ==
    ASSUME NEW v \in Int, NEW d \in Nat \ {0}
    PROVE  /\ Quotient(v, d) \in Int
           /\ v >= 0 => /\ d * Quotient(v, d) <= v /\ v < d * Quotient(v, d) + d
                        /\ Quotient(v, d) >= 0
           /\ v < 0 => /\ d * Quotient(v, d) >= v /\ v > d * Quotient(v, d) - d
                       /\ Quotient(v, d) <= 0
<1>1. CASE v >= 0
  BY <1>1, Division DEF Quotient
<1>2. CASE v < 0
  <2>1. -v \in Int /\ -v >= 0
    BY <1>2
  <2> DEFINE c == (-v) \div d
  <2>2. c \in Int /\ d * c <= -v /\ -v < d * c + d /\ c >= 0
    BY <2>1, Division
  <2>3. Quotient(v, d) = -c
    BY <1>2 DEF Quotient
  <2> HIDE DEF c
  <2>4. d * (-c) = -(d * c) /\ d * c \in Int
    BY <2>2
  <2> QED
    BY <1>2, <2>2, <2>3, <2>4
<1> QED
  BY <1>1, <1>2

(* Rounding to the step neither passes a multiple of it nor changes the order. *)
LEMMA StepStays ==
    ASSUME NEW v \in Int, NEW d \in Nat \ {0}, NEW k \in Int
    PROVE  /\ ToStep(v, d) \in Int
           /\ d * k <= v => d * k <= ToStep(v, d)
           /\ v <= d * k => ToStep(v, d) <= d * k
           /\ ToStep(v, d) = d * Quotient(v, d)
<1> DEFINE c == Quotient(v, d)
<1>1. ToStep(v, d) = d * c /\ c \in Int /\ d * c \in Int /\ d * k \in Int
  BY QuotientBounds DEF ToStep
<1>2. ASSUME d * k <= v PROVE k <= c
  <2>1. CASE v >= 0
    <3>1. d * k < d * c + d
      BY <1>1, <1>2, <2>1, QuotientBounds
    <3> HIDE DEF c
    <3> QED
      BY <1>1, <3>1, Multiples
  <2>2. CASE v < 0
    <3>1. d * k < d * c + d
      BY <1>1, <1>2, <2>2, QuotientBounds
    <3> HIDE DEF c
    <3> QED
      BY <1>1, <3>1, Multiples
  <2> QED
    BY <2>1, <2>2
<1>3. ASSUME v <= d * k PROVE c <= k
  <2>1. CASE v >= 0
    <3>1. d * c < d * k + d
      BY <1>1, <1>3, <2>1, QuotientBounds
    <3> HIDE DEF c
    <3> QED
      BY <1>1, <3>1, Multiples
  <2>2. CASE v < 0
    <3>1. d * c < d * k + d
      BY <1>1, <1>3, <2>2, QuotientBounds
    <3> HIDE DEF c
    <3> QED
      BY <1>1, <3>1, Multiples
  <2> QED
    BY <2>1, <2>2
<1>4. /\ d * k <= v => d * k <= d * c
      /\ v <= d * k => d * c <= d * k
  <2> HIDE DEF c
  <2> QED
    BY <1>1, <1>2, <1>3, Multiples
<1> QED
  BY <1>1, <1>4

LEMMA StepMonotone ==
    ASSUME NEW v \in Int, NEW w \in Int, v <= w, NEW d \in Nat \ {0}
    PROVE  ToStep(v, d) <= ToStep(w, d)
<1> DEFINE b == Quotient(v, d)
           c == Quotient(w, d)
<1>1. /\ b \in Int /\ c \in Int
      /\ ToStep(v, d) = d * b /\ ToStep(w, d) = d * c
  BY QuotientBounds, StepStays, 0 \in Int
<1>2. /\ v >= 0 => d * b <= v /\ b >= 0
      /\ v < 0 => v > d * b - d /\ d * b >= v /\ b <= 0
      /\ w >= 0 => w < d * c + d /\ c >= 0
      /\ w < 0 => d * c >= w
  BY QuotientBounds
<1> HIDE DEF b, c
<1>3. d * b \in Int /\ d * c \in Int
  BY <1>1
<1>4. b <= c
  <2>1. CASE v < 0 /\ w >= 0
    BY <1>1, <1>2, <2>1
  <2>2. CASE ~(v < 0 /\ w >= 0)
    <3>1. d * b < d * c + d
      BY <1>2, <1>3, <2>2
    <3> QED
      BY <1>1, <3>1, Multiples
  <2> QED
    BY <2>1, <2>2
<1> QED
  BY <1>1, <1>4, Multiples

(* round() of a fraction n / d stays between the whole numbers around it. *)
LEMMA RoundMonotone ==
    ASSUME NEW n \in Int, NEW m \in Int, n <= m, NEW d \in Nat \ {0}
    PROVE  Round(n, d) \in Int /\ Round(n, d) <= Round(m, d)
<1> DEFINE e == 2 * d
           Up(x) == (2 * x + d) \div e
           Down(x) == -((d - 2 * x) \div e)
<1>1. e \in Nat \ {0}
  OBVIOUS
<1>2. \A x \in Int : 2 * x + d \in Int /\ d - 2 * x \in Int
  OBVIOUS
<1>3. \A x \in Int : Round(x, d) = IF x >= 0 THEN Up(x) ELSE Down(x)
  BY DEF Round
<1>4. \A x \in Int : /\ Up(x) \in Int /\ Down(x) \in Int
                     /\ e * Up(x) <= 2 * x + d /\ 2 * x + d < e * Up(x) + e
                     /\ x >= 0 => Up(x) >= 0
                     /\ x < 0 => Down(x) <= 0
                     /\ e * Down(x) >= 2 * x - d /\ 2 * x - d > e * Down(x) - e
  <2> SUFFICES ASSUME NEW x \in Int
               PROVE /\ Up(x) \in Int /\ Down(x) \in Int
                     /\ e * Up(x) <= 2 * x + d /\ 2 * x + d < e * Up(x) + e
                     /\ x >= 0 => Up(x) >= 0
                     /\ x < 0 => Down(x) <= 0
                     /\ e * Down(x) >= 2 * x - d /\ 2 * x - d > e * Down(x) - e
    OBVIOUS
  <2> DEFINE u == (2 * x + d) \div e
             c == (d - 2 * x) \div e
  <2> HIDE DEF e
  <2>1. /\ u \in Int /\ e * u <= 2 * x + d /\ 2 * x + d < e * u + e
        /\ x >= 0 => u >= 0
    BY <1>1, <1>2, Division
  <2>2. /\ c \in Int /\ e * c <= d - 2 * x /\ d - 2 * x < e * c + e
        /\ x < 0 => c >= 0
    BY <1>1, <1>2, Division
  <2>3. Up(x) = u /\ Down(x) = -c
    OBVIOUS
  <2> HIDE DEF u, c, Up, Down
  <2>4. e * (-c) = -(e * c) /\ e * c \in Int
    BY <1>1, <2>2
  <2> QED
    BY <1>1, <2>1, <2>2, <2>3, <2>4
<1> HIDE DEF Up, Down
<1>5. Round(n, d) \in Int
  BY <1>3, <1>4
<1>6. CASE n >= 0
  <2>1. e * Up(n) < e * Up(m) + e /\ m >= 0
    <3> HIDE DEF e
    <3>1. e * Up(n) <= 2 * n + d /\ 2 * m + d < e * Up(m) + e
      BY <1>4
    <3>2. e * Up(n) \in Int /\ e * Up(m) \in Int
      BY <1>1, <1>4
    <3> QED
      BY <1>1, <1>6, <3>1, <3>2
  <2>2. Up(n) <= Up(m)
    <3> HIDE DEF e
    <3> QED
      BY <1>1, <1>4, <2>1, Multiples
  <2> QED
    BY <1>3, <1>5, <1>6, <2>1, <2>2
<1>7. CASE n < 0 /\ m >= 0
  BY <1>3, <1>4, <1>5, <1>7
<1>8. CASE n < 0 /\ m < 0
  <2>1. e * Down(n) < e * Down(m) + e
    <3> HIDE DEF e
    <3>1. 2 * n - d > e * Down(n) - e /\ e * Down(m) >= 2 * m - d
      BY <1>4
    <3>2. e * Down(n) \in Int /\ e * Down(m) \in Int
      BY <1>1, <1>4
    <3> QED
      BY <1>1, <1>8, <3>1, <3>2
  <2>2. Down(n) <= Down(m)
    <3> HIDE DEF e
    <3> QED
      BY <1>1, <1>4, <2>1, Multiples
  <2> QED
    BY <1>3, <1>5, <1>8, <2>2
<1> QED
  BY <1>6, <1>7, <1>8

(* A whole number is its own rounding. *)
LEMMA RoundWhole ==
    ASSUME NEW k \in Int, NEW d \in Nat \ {0}
    PROVE  Round(k * d, d) = k
<1> DEFINE e == 2 * d
           n == k * d
           u == (2 * n + d) \div e
           c == (d - 2 * n) \div e
<1>1. /\ e \in Nat \ {0} /\ n \in Int
      /\ 2 * n + d \in Int /\ d - 2 * n \in Int
      /\ 2 * n = e * k /\ -(2 * n) = e * (-k)
      /\ k >= 0 <=> n >= 0
  OBVIOUS
<1>2. Round(n, d) = IF n >= 0 THEN u ELSE -c
  BY DEF Round
<1> HIDE DEF e, n
<1>3. /\ u \in Int /\ e * u <= 2 * n + d /\ 2 * n + d < e * u + e
      /\ c \in Int /\ e * c <= d - 2 * n /\ d - 2 * n < e * c + e
  BY <1>1, Division
<1> HIDE DEF u, c
<1>4. /\ e * u \in Int /\ e * c \in Int /\ e * k \in Int /\ e * (-k) \in Int
      /\ e = 2 * d
  BY <1>1, <1>3 DEF e
<1>5. /\ e * u < e * k + e /\ e * k < e * u + e
      /\ e * c < e * (-k) + e /\ e * (-k) < e * c + e
  BY <1>1, <1>3, <1>4
<1>6. u <= k /\ k <= u /\ c <= -k /\ -k <= c
  BY <1>1, <1>3, <1>5, Multiples
<1>7. u = k /\ -c = k
  BY <1>3, <1>6
<1> QED
  BY <1>1, <1>2, <1>7 DEF n

-----------------------------------------------------------------------------
(* The values of a control the camera accepts. *)
Legal(q) == {v \in q.minimum..q.maximum : (v - q.minimum) % q.step = 0}

LEMMA ControlTypes ==
    ASSUME NEW q \in Controls
    PROVE  /\ q.minimum \in Int /\ q.maximum \in Int /\ q.step \in Nat \ {0}
           /\ q.minimum <= q.maximum
  BY CecValueAssumption

LEMMA GridMultiples ==
    ASSUME NEW q \in Controls, OnGrid(q)
    PROVE  \E a, b \in Int : q.minimum = q.step * a /\ q.maximum = q.step * b
<1> DEFINE d == q.step
           lo == q.minimum
           hi == q.maximum
<1>1. /\ lo \in Int /\ hi \in Int /\ d \in Nat \ {0}
      /\ lo % d = 0 /\ hi % d = 0
  BY ControlTypes DEF OnGrid
<1> HIDE DEF d, lo, hi
<1>2. lo \div d \in Int /\ lo = d * (lo \div d)
  BY <1>1, Division
<1>3. hi \div d \in Int /\ hi = d * (hi \div d)
  BY <1>1, Division
<1> QED
  BY <1>2, <1>3 DEF d, lo, hi

(* The ends of the range are legal, and so is what ToStep makes of a value in it. *)
LEMMA StepLegal ==
    ASSUME NEW q \in Controls, OnGrid(q), NEW v \in q.minimum..q.maximum
    PROVE  /\ ToStep(v, q.step) \in Legal(q)
           /\ q.minimum \in Legal(q) /\ q.maximum \in Legal(q)
<1> DEFINE d == q.step
           lo == q.minimum
           hi == q.maximum
           c == Quotient(v, d)
<1>1. lo \in Int /\ hi \in Int /\ d \in Nat \ {0} /\ lo <= hi /\ v \in Int
  BY ControlTypes
<1>2. PICK a \in Int, b \in Int : lo = d * a /\ hi = d * b
  BY GridMultiples
<1> HIDE DEF d, lo, hi
<1>3. c \in Int /\ ToStep(v, d) = d * c
  BY <1>1, <1>2, QuotientBounds, StepStays
<1>4. lo <= v /\ v <= hi
  BY <1>1 DEF lo, hi
<1>5. ToStep(v, d) \in Int /\ lo <= ToStep(v, d) /\ ToStep(v, d) <= hi
  BY <1>1, <1>2, <1>4, StepStays
<1> HIDE DEF c
<1>6. (ToStep(v, d) - lo) % d = 0
  <2>1. d * c - d * a = d * (c - a)
    BY <1>1, <1>2, <1>3, Multiples
  <2>2. c - a \in Int
    BY <1>2, <1>3
  <2> QED
    BY <1>1, <1>2, <1>3, <2>1, <2>2, Multiples
<1>7. (lo - lo) % d = 0
  BY <1>1
<1>8. (hi - lo) % d = 0
  <2>1. d * b - d * a = d * (b - a)
    BY <1>1, <1>2, Multiples
  <2>2. b - a \in Int
    BY <1>2
  <2> QED
    BY <1>1, <1>2, <2>1, <2>2, Multiples
<1> QED
  BY <1>1, <1>5, <1>6, <1>7, <1>8 DEF Legal, d, lo, hi

(* A fraction between 0 and 1 of a control's range lies in it, and a larger one
   not further down. *)
LEMMA OutputMonotone ==
    ASSUME NEW q \in Controls, NEW n \in Int, NEW m \in Int, NEW d \in Nat \ {0},
           n <= m
    PROVE  /\ Output(q, <<n, d>>) \in Int
           /\ Output(q, <<n, d>>) <= Output(q, <<m, d>>)
<1> DEFINE w == q.maximum - q.minimum
<1>1. w \in Nat /\ q.minimum \in Int
  BY ControlTypes
<1> HIDE DEF w
<1>2. w * n <= w * m /\ w * n \in Int /\ w * m \in Int
  <2>1. CASE w = 0
    BY <1>1, <2>1
  <2>2. CASE w # 0
    <3>1. w \in Nat \ {0}
      BY <1>1, <2>2
    <3> QED
      BY <3>1, Multiples
  <2> QED
    BY <2>1, <2>2
<1> DEFINE x == w * n + q.minimum * d
           y == w * m + q.minimum * d
<1>3. x \in Int /\ y \in Int /\ x <= y
  <2>1. q.minimum * d \in Int
    BY <1>1
  <2> QED
    BY <1>2, <2>1
<1>4. Output(q, <<n, d>>) = Round(x, d) /\ Output(q, <<m, d>>) = Round(y, d)
  BY DEF Output, w
<1> HIDE DEF x, y
<1> QED
  BY <1>3, <1>4, RoundMonotone

LEMMA OutputInside ==
    ASSUME NEW q \in Controls, NEW d \in Nat \ {0}, NEW n \in 0..d
    PROVE  Output(q, <<n, d>>) \in q.minimum..q.maximum
<1> DEFINE lo == q.minimum
           hi == q.maximum
<1>1. lo \in Int /\ hi \in Int
  BY ControlTypes
<1>2. Output(q, <<0, d>>) = Round(lo * d, d)
  <2>1. (hi - lo) * 0 + lo * d = lo * d
    BY <1>1
  <2> QED
    BY <2>1 DEF Output
<1>3. Output(q, <<d, d>>) = Round(hi * d, d)
  <2>1. (hi - lo) * d + lo * d = hi * d
    BY <1>1
  <2> QED
    BY <2>1 DEF Output
<1>4. Output(q, <<0, d>>) = lo /\ Output(q, <<d, d>>) = hi
  <2> HIDE DEF lo, hi
  <2> QED
    BY <1>1, <1>2, <1>3, RoundWhole
<1>5. /\ Output(q, <<n, d>>) \in Int
      /\ Output(q, <<0, d>>) <= Output(q, <<n, d>>)
      /\ Output(q, <<n, d>>) <= Output(q, <<d, d>>)
  BY OutputMonotone
<1> QED
  BY <1>1, <1>4, <1>5

-----------------------------------------------------------------------------
(* apply_value for a message value of the switcher's range. *)
Applied(q, code, val) ==
    CtrlValues(q, InputRange(code)[1], InputRange(code)[2], val)

(* Where each range begins, by the control's size, and how long it is.  That of the
   shutter is turned round twice: its fraction grows with the value as well. *)
Base(code) == IF code = "shutter" THEN 500 ELSE 0
Width(code) ==
    IF code = "shutter" THEN 41167
    ELSE IF code \in {"contrast", "saturation"} THEN 4096 ELSE 2048

LEMMA Ranges ==
    /\ InputRange("contrast") = <<0, 4096>> /\ InputRange("saturation") = <<0, 4096>>
    /\ InputRange("pivot") = <<0, 2048>> /\ InputRange("luma") = <<0, 2048>>
    /\ InputRange("shutter") = <<41667, 500>> /\ InputRange("wbt") = <<0, 0>>
  BY DEF InputRange

LEMMA Scaling ==
    ASSUME NEW code \in Code \ {"wbt"}, NEW val \in Int,
           InInputRange([code |-> code, val |-> val])
    PROVE  /\ val - Base(code) \in Int
           /\ 0 <= val - Base(code) /\ val - Base(code) <= Width(code)
           /\ Width(code) \in Nat \ {0}
           /\ InputRange(code)[1] # 0 \/ InputRange(code)[2] # 0
           /\ Percent(InputRange(code)[1], InputRange(code)[2], val)
                  = <<val - Base(code), Width(code)>>
           /\ code # "shutter" => /\ InputRange(code)[1] = 0
                                  /\ InputRange(code)[2] = Width(code)
<1> USE Ranges DEF InInputRange, Base, Width, Percent
<1>1. CASE code \in {"contrast", "saturation"}
  BY <1>1
<1>2. CASE code \in {"pivot", "luma"}
  BY <1>2
<1>3. CASE code = "shutter"
  BY <1>3
<1> QED
  BY <1>1, <1>2, <1>3 DEF Code

(* What is sent, in one formula: the value is well defined, the code's branch for a
   value out of bounds is never taken. *)
LEMMA AppliedScaled ==
    ASSUME NEW q \in Controls, NEW code \in Code \ {"wbt"}, NEW val \in Int,
           InInputRange([code |-> code, val |-> val])
    PROVE  Applied(q, code, val) =
              IF val = InputRange(code)[1] THEN {q.minimum}
              ELSE IF val = InputRange(code)[2] THEN {q.maximum}
              ELSE {ToStep(Output(q, <<val - Base(code), Width(code)>>), q.step)}
<1>1. Output(q, <<val - Base(code), Width(code)>>) \in q.minimum..q.maximum
  BY Scaling, OutputInside
<1> QED
  BY <1>1, Scaling, Zenon DEF Applied, CtrlValues

LEMMA AppliedWrapped ==
    ASSUME NEW q \in Controls, NEW val \in Int
    PROVE  Applied(q, "wbt", val) =
              IF val <= q.minimum THEN {q.minimum}
              ELSE IF val >= q.maximum THEN {q.maximum}
              ELSE {ToStep(val, q.step)}
  BY Ranges DEF Applied, CtrlValues

LEMMA AppliedLegal ==
    ASSUME NEW q \in Controls, OnGrid(q), NEW code \in Code, NEW val \in Int,
           InInputRange([code |-> code, val |-> val])
    PROVE  Applied(q, code, val) \subseteq Legal(q)
<1>1. q.minimum \in Legal(q) /\ q.maximum \in Legal(q)
  BY ControlTypes, StepLegal
<1>2. CASE code # "wbt"
  <2>1. Output(q, <<val - Base(code), Width(code)>>) \in q.minimum..q.maximum
    BY <1>2, Scaling, OutputInside
  <2>2. ToStep(Output(q, <<val - Base(code), Width(code)>>), q.step) \in Legal(q)
    BY <2>1, StepLegal
  <2> DEFINE v == ToStep(Output(q, <<val - Base(code), Width(code)>>), q.step)
  <2>3. \/ Applied(q, code, val) = {q.minimum}
        \/ Applied(q, code, val) = {q.maximum}
        \/ Applied(q, code, val) = {v}
    <3>1. code \in Code \ {"wbt"}
      BY <1>2
    <3> QED
      BY <3>1, AppliedScaled, Zenon
  <2> HIDE DEF v
  <2> QED
    BY <1>1, <2>2, <2>3 DEF v
<1>3. CASE code = "wbt"
  <2>1. val > q.minimum /\ val < q.maximum => ToStep(val, q.step) \in Legal(q)
    <3>1. q.minimum \in Int /\ q.maximum \in Int
      BY ControlTypes
    <3>2. val > q.minimum /\ val < q.maximum => val \in q.minimum..q.maximum
      BY <3>1
    <3> QED
      BY <3>2, StepLegal
  <2>2. /\ ~(val <= q.minimum) => val > q.minimum
        /\ ~(val >= q.maximum) => val < q.maximum
    BY ControlTypes
  <2> QED
    BY <1>1, <1>3, <2>1, <2>2, AppliedWrapped, Zenon
<1> QED
  BY <1>2, <1>3

LEMMA AppliedMonotone ==
    ASSUME NEW q \in Controls, OnGrid(q), NEW code \in Code \ {"shutter"},
           NEW val \in Int, InInputRange([code |-> code, val |-> val]),
           NEW wal \in Int, InInputRange([code |-> code, val |-> wal]),
           val <= wal,
           NEW v \in Applied(q, code, val), NEW w \in Applied(q, code, wal)
    PROVE  v <= w
<1>1. /\ v \in q.minimum..q.maximum /\ w \in q.minimum..q.maximum
      /\ q.minimum \in Int /\ q.maximum \in Int /\ q.step \in Nat \ {0}
  BY AppliedLegal, ControlTypes DEF Legal
<1>2. CASE v = q.minimum \/ w = q.maximum
  BY <1>1, <1>2
<1>3. CASE code # "wbt" /\ ~(v = q.minimum \/ w = q.maximum)
  <2> DEFINE x == Output(q, <<val - Base(code), Width(code)>>)
             y == Output(q, <<wal - Base(code), Width(code)>>)
  <2>1. /\ val - Base(code) \in 0..Width(code) /\ wal - Base(code) \in 0..Width(code)
        /\ Width(code) \in Nat \ {0} /\ Base(code) = 0
        /\ InputRange(code)[1] = 0 /\ InputRange(code)[2] = Width(code)
    BY <1>3, Scaling DEF Base
  <2>2. /\ v \in IF val = 0 THEN {q.minimum}
                ELSE IF val = Width(code) THEN {q.maximum} ELSE {ToStep(x, q.step)}
        /\ w \in IF wal = 0 THEN {q.minimum}
                ELSE IF wal = Width(code) THEN {q.maximum} ELSE {ToStep(y, q.step)}
    <3>1. code \in Code \ {"wbt"}
      BY <1>3
    <3>2. Applied(q, code, val) =
              IF val = InputRange(code)[1] THEN {q.minimum}
              ELSE IF val = InputRange(code)[2] THEN {q.maximum}
              ELSE {ToStep(x, q.step)}
      BY <3>1, AppliedScaled
    <3>3. Applied(q, code, wal) =
              IF wal = InputRange(code)[1] THEN {q.minimum}
              ELSE IF wal = InputRange(code)[2] THEN {q.maximum}
              ELSE {ToStep(y, q.step)}
      BY <3>1, AppliedScaled
    <3> HIDE DEF x, y
    <3> QED
      BY <2>1, <3>2, <3>3
  <2>3. x \in Int /\ y \in Int /\ x <= y
    <3>1. /\ val - Base(code) \in Int /\ wal - Base(code) \in Int
          /\ val - Base(code) <= wal - Base(code)
      BY <2>1
    <3>2. y <= y /\ y \in Int
      BY <2>1, <3>1, OutputMonotone
    <3> QED
      BY <2>1, <3>1, <3>2, OutputMonotone
  <2> HIDE DEF x, y
  <2>4. val # 0 /\ wal # Width(code)
    BY <1>3, <2>1, <2>2
  <2>5. v = ToStep(x, q.step) /\ w = ToStep(y, q.step)
    BY <2>1, <2>2, <2>4
  <2> QED
    BY <1>1, <2>3, <2>5, StepMonotone
<1>4. CASE code = "wbt" /\ ~(v = q.minimum \/ w = q.maximum)
  <2>1. /\ v \in IF val <= q.minimum THEN {q.minimum}
                ELSE IF val >= q.maximum THEN {q.maximum} ELSE {ToStep(val, q.step)}
        /\ w \in IF wal <= q.minimum THEN {q.minimum}
                ELSE IF wal >= q.maximum THEN {q.maximum} ELSE {ToStep(wal, q.step)}
    BY <1>4, AppliedWrapped, Zenon
  <2>2. v = ToStep(val, q.step) /\ w = ToStep(wal, q.step)
    BY <1>1, <1>4, <2>1
  <2> QED
    BY <1>1, <2>2, StepMonotone
<1> QED
  BY <1>2, <1>3, <1>4

-----------------------------------------------------------------------------
(* What the camera's control was set to is what apply_value makes of the message
   processed last. *)
LastApplied ==
    /\ qctrl \in [Code -> Controls \cup {NoControl}]
    /\ data2 \in [Code -> Int]
    /\ request.code \in Code =>
          /\ qctrl[request.code] \in Controls
          /\ request.val \in Int
          /\ ctrl.value \in Applied(qctrl[request.code], request.code, request.val)

LEMMA AppliedInit == Init => LastApplied
<1> SUFFICES ASSUME Init PROVE LastApplied
  OBVIOUS
<1>1. PICK q \in Controls \cup {NoControl} : qctrl = [c \in Code |-> q]
  BY DEF Init
<1>2. qctrl \in [Code -> Controls \cup {NoControl}]
  BY <1>1
<1>3. data2 \in [Code -> Int]
  BY DEF Init
<1>4. request.code \notin Code
  BY DEF Init, NoRequest, Code
<1> QED
  BY <1>2, <1>3, <1>4 DEF LastApplied

LEMMA AppliedStep == LastApplied /\ [Next]_vars => LastApplied'
<1> SUFFICES ASSUME LastApplied, [Next]_vars PROVE LastApplied'
  OBVIOUS
<1>1. CASE UNCHANGED vars
  BY <1>1 DEF LastApplied, vars, Applied, CtrlValues
<1>2. CASE Next
  <2>1. PICK code \in Codes, low \in Data1, high \in Data2, hasData2 \in BOOLEAN :
            Process(code, low, high, hasData2)
    BY <1>2 DEF Next
  <2>2. code \in Code /\ low \in Int /\ high \in Int
    BY CecValueAssumption
  <2>3. qctrl' = qctrl
    BY <2>1 DEF Process
  <2>4. data2' \in [Code -> Int]
    BY <2>1, <2>2 DEF Process, LastApplied
  <2>5. Value(code, data2'[code], low) \in Int
    BY <2>2, <2>4 DEF Value
  <2>6. CASE qctrl[code] = NoControl /\ UNCHANGED <<request, ctrl, camera>>
    BY <2>3, <2>4, <2>6 DEF LastApplied, Applied, CtrlValues
  <2>7. CASE /\ qctrl[code] # NoControl
             /\ request' = [code |-> code, val |-> Value(code, data2'[code], low)]
             /\ \E value \in Applied(qctrl[code], code, request'.val) :
                   ctrl' = [id |-> 1, value |-> value]
    <3>1. request'.code = code /\ request'.val \in Int
      BY <2>5, <2>7
    <3>2. qctrl[code] \in Controls
      BY <2>2, <2>7 DEF LastApplied
    <3>3. ctrl'.value \in Applied(qctrl[code], code, request'.val)
      BY <2>7
    <3> QED
      BY <2>2, <2>3, <2>4, <3>1, <3>2, <3>3 DEF LastApplied
  <2> QED
    BY <2>1, <2>6, <2>7 DEF Process, Applied
<1> QED
  BY <1>1, <1>2

(* A message of the switcher's range, for a control whose grid of values contains 0,
   never asks the camera for a value its control does not have: whatever the range,
   the step and the history of high bytes. *)
THEOREM ValuesLegal == Spec => []LegalValue
<1>1. LastApplied => LegalValue
  <2> SUFFICES ASSUME LastApplied, request.code \in Code, InInputRange(request),
                      OnGrid(qctrl[request.code])
               PROVE  ctrl.value \in Legal(qctrl[request.code])
    BY DEF LegalValue, Legal
  <2>1. InInputRange([code |-> request.code, val |-> request.val])
    BY DEF InInputRange
  <2> QED
    BY <2>1, AppliedLegal DEF LastApplied
<1> QED
  BY <1>1, AppliedInit, AppliedStep, PTL DEF Spec

(* Turning any knob but the shutter's up never turns its control down. *)
THEOREM KnobsMonotone == Spec => Monotone
<1> DEFINE Up == SameKnob(Code \ {"shutter"}) /\ request'.val >= request.val
                     => ctrl'.value >= ctrl.value
<1>1. LastApplied /\ LastApplied' /\ [Next]_vars => [Up]_vars
  <2> SUFFICES ASSUME LastApplied, LastApplied', Next,
                      SameKnob(Code \ {"shutter"}), request'.val >= request.val
               PROVE  ctrl'.value >= ctrl.value
    BY DEF Up
  <2> DEFINE q == qctrl[request.code]
  <2>1. qctrl' = qctrl
    BY DEF Next, Process
  <2>2. /\ request.code \in Code \ {"shutter"} /\ request'.code = request.code
        /\ InInputRange([code |-> request.code, val |-> request.val])
        /\ InInputRange([code |-> request.code, val |-> request'.val])
        /\ OnGrid(q)
    BY DEF SameKnob, InInputRange
  <2>3. /\ q \in Controls /\ request.val \in Int /\ request'.val \in Int
        /\ ctrl.value \in Applied(q, request.code, request.val)
        /\ ctrl'.value \in Applied(q, request.code, request'.val)
    BY <2>1, <2>2 DEF LastApplied
  <2>4. request.val <= request'.val
    BY <2>3
  <2>5. ctrl.value <= ctrl'.value
    <3> HIDE DEF q
    <3> QED
      BY <2>2, <2>3, <2>4, AppliedMonotone
  <2>6. ctrl.value \in Int /\ ctrl'.value \in Int
    BY <2>2, <2>3, AppliedLegal, ControlTypes DEF Legal
  <2> QED
    BY <2>5, <2>6
<1> QED
  BY <1>1, AppliedInit, AppliedStep, PTL DEF Spec, Monotone

=============================================================================
