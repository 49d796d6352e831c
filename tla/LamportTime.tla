---------------------------- MODULE LamportTime ----------------------------
(***************************************************************************)
(* The arithmetic on Lamport timestamps of server/server.go.               *)
(*                                                                         *)
(* The code keeps a timestamp "time.pid" in one float64: a whole number of *)
(* ticks plus the server's id scaled into [0, 1).  Every update adds a     *)
(* whole number, so a server's own fraction never changes, and a timestamp *)
(* is the pair <<time, pid>>: its floor and its fraction (of which only    *)
(* the order matters).  Rounding of float64 is not modelled.               *)
(***************************************************************************)
EXTENDS Integers, Sequences

Timestamp == Int \X Nat

\* v < w and v <= w on the float64 values.
Less(v, w)   == v[1] < w[1] \/ (v[1] = w[1] /\ v[2] < w[2])
AtMost(v, w) == v = w \/ Less(v, w)

\* The Version a client sends when it has none for the key: the number -1,
\* which is also the timestamp of a server with fraction 0 whose time is -1.
NoVersion == <<-1, 0>>

----------------------------------------------------------------------------
(* ConditionalIncrementLamportTimestamp *)

\* math.Ceil(Lamport_Timestamp + 1.0 - timestamp_pivot).
CeilDifference(time, pid, pivot) ==
  (time + 1 - pivot[1]) + (IF pid > pivot[2] THEN 1 ELSE 0)

\* The new time of a server <<time, pid>> that must answer a request carrying
\* version pivot.  In the ELSE branch the difference is zero or negative.
ConditionalIncrement(time, pid, pivot) ==
  IF Less(pivot, <<time + 1, pid>>)
  THEN time + 1
  ELSE time + 1 + CeilDifference(time, pid, pivot)

----------------------------------------------------------------------------
(* The loop of HeartbeatNotification: for each entry of the list, in order, *)
(* time := max(time, floor of the entry's timestamp) + 1.  The entry i of n *)
(* is followed by n - i more increments, and its own.                       *)

\* Plausible bug: the received time is taken over, without the maximum.
SendersOnly(time, clocks) == {clocks[Len(clocks)] + 1}

MergeCandidates(time, clocks) ==
  {time + Len(clocks)}
    \cup {clocks[i] + (Len(clocks) - i) + 1 : i \in 1 .. Len(clocks)}

\* new is the time after the loop.
IsMergedTime(new, time, clocks) ==
  /\ new \in MergeCandidates(time, clocks)
  /\ \A x \in MergeCandidates(time, clocks) : x <= new
============================================================================
