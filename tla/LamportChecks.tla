--------------------------- MODULE LamportChecks ---------------------------
(***************************************************************************)
(* The code's own arithmetic, to compare the operators of LamportTime with *)
(* it: timestamps as one number in fixed point, and the loop over a        *)
(* heartbeat's list as a loop.                                             *)
(***************************************************************************)
EXTENDS LamportTime

CONSTANT Width    \* fractions are multiples of 1 / Width

ASSUME WidthAssumption == Width \in Nat \ {0, 1}

Fixed(ts) == ts[1] * Width + ts[2]

\* math.Ceil(d / Width), with \div rounding towards minus infinity.
Ceil(d) == -((-d) \div Width)

FixedIncrement(clock, piv) ==
  LET difference == clock + Width - piv
  IN  IF difference > 0
      THEN clock + Width
      ELSE clock + Width * (1 + Ceil(difference))

\* The loop body of HeartbeatNotification, folded over the list.
LoopTime(time, clocks) ==
  LET after[i \in 0 .. Len(clocks)] ==
        IF i = 0 THEN time
        ELSE (IF clocks[i] > after[i - 1] THEN clocks[i] ELSE after[i - 1]) + 1
  IN  after[Len(clocks)]

\* The closed form admits exactly the result of the loop.
IsLoopTime(time, clocks) ==
  {new \in MergeCandidates(time, clocks) : IsMergedTime(new, time, clocks)}
    = {LoopTime(time, clocks)}
============================================================================
