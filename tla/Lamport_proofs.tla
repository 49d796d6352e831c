--------------------------- MODULE Lamport_proofs ---------------------------
(***************************************************************************)
(* Proofs that the operators of LamportTime are the code's arithmetic, for *)
(* all times, fractions and versions, and lists of any length.             *)
(***************************************************************************)
EXTENDS LamportChecks, SequenceTheorems, WellFoundedInduction, TLAPS

----------------------------------------------------------------------------
(* Induction on Nat, for a property given by the set of numbers that have it *)

LEMMA LeastNatural ==
  ASSUME NEW T, T \subseteq Nat, T # {}
  PROVE  \E x \in T : \A y \in T : x <= y
<1>1. PICK x \in T : \A y \in T : ~(<<y, x>> \in OpToRel(<, Nat))
  BY NatLessThanWellFounded, WFMin
<1>2. \A y \in T : y < x => <<y, x>> \in OpToRel(<, Nat)
  BY DEF OpToRel
<1>3. \A y \in T : x \in Nat /\ y \in Nat /\ ~(y < x)
  BY <1>1, <1>2
<1>4. \A y \in T : x <= y
  BY <1>3
<1> QED
  BY <1>4

LEMMA SetInduction ==
  ASSUME NEW T, 0 \in T, \A n \in Nat : n \in T => n + 1 \in T
  PROVE  Nat \subseteq T
<1> SUFFICES ASSUME Nat \ T # {} PROVE FALSE
  OBVIOUS
<1>1. PICK x \in Nat \ T : \A y \in Nat \ T : x <= y
  BY LeastNatural
<1>2. x # 0 /\ x - 1 \in Nat
  BY <1>1
<1>3. x - 1 \in T
  BY <1>1, <1>2
<1> QED
  BY <1>1, <1>2, <1>3

----------------------------------------------------------------------------
(* The loop of HeartbeatNotification *)

\* The body of the loop, for the entry x.
Step(x, before) == (IF x > before THEN x ELSE before) + 1

\* after is the clock after each entry of the first n.
IsRun(after, n, time, clocks) ==
  after = [i \in 0 .. n |-> IF i = 0 THEN time ELSE Step(clocks[i], after[i - 1])]

\* The loop's definition by recursion defines a function.
LEMMA RunExists ==
  ASSUME NEW time \in Int, NEW clocks \in Seq(Int)
  PROVE  \A n \in Nat : \E after : IsRun(after, n, time, clocks)
<1> DEFINE T == {n \in Nat : \E after : IsRun(after, n, time, clocks)}
<1>1. 0 \in T
  <2>1. IsRun([i \in 0 .. 0 |-> time], 0, time, clocks)
    BY DEF IsRun
  <2> QED
    BY <2>1
<1>2. ASSUME NEW n \in Nat, n \in T
      PROVE  n + 1 \in T
  <2>1. PICK f : IsRun(f, n, time, clocks)
    BY <1>2
  <2> DEFINE g == [i \in 0 .. n + 1 |-> IF i = n + 1 THEN Step(clocks[i], f[n]) ELSE f[i]]
  <2>2. \A i \in 0 .. n : f[i] = IF i = 0 THEN time ELSE Step(clocks[i], f[i - 1])
    BY <2>1 DEF IsRun
  <2>3. \A i \in 0 .. n + 1 :
          g[i] = IF i = 0 THEN time ELSE Step(clocks[i], g[i - 1])
    BY <2>2
  <2>4. IsRun(g, n + 1, time, clocks)
    BY <2>3 DEF IsRun
  <2> QED
    BY <2>4
<1> QED
  BY <1>1, <1>2, SetInduction

\* What the entry j contributes to the clock after n entries: one increment of
\* its own, and one for each entry after it.
Raised(clocks, j, n) == clocks[j] + (n - j) + 1

LEMMA RaisedByOne ==
  ASSUME NEW clocks \in Seq(Int), NEW n \in Nat, NEW j \in 1 .. Len(clocks)
  PROVE  /\ Raised(clocks, j, n) \in Int
         /\ Raised(clocks, j, n + 1) = Raised(clocks, j, n) + 1
         /\ Raised(clocks, j, j) = clocks[j] + 1
<1>1. clocks[j] \in Int /\ j \in Int
  BY LenProperties, ElementOfSeq
<1> QED
  BY <1>1 DEF Raised

\* The clock after n entries is the greatest of the old clock and the entries
\* so far, each with the increments that follow it.
IsGreatest(new, n, time, clocks) ==
  /\ new \in Int
  /\ time + n <= new
  /\ \A j \in 1 .. n : Raised(clocks, j, n) <= new
  /\ new = time + n \/ \E j \in 1 .. n : new = Raised(clocks, j, n)

\* One more entry.
LEMMA StepIsGreatest ==
  ASSUME NEW time \in Int, NEW clocks \in Seq(Int), NEW n \in Nat,
         n + 1 <= Len(clocks), NEW before, IsGreatest(before, n, time, clocks)
  PROVE  IsGreatest(Step(clocks[n + 1], before), n + 1, time, clocks)
<1> DEFINE x == clocks[n + 1]
           new == Step(x, before)
<1>1. Len(clocks) \in Nat /\ n + 1 \in 1 .. Len(clocks) /\ 1 .. n \subseteq 1 .. Len(clocks)
  BY LenProperties
<1>2. x \in Int /\ before \in Int
  BY <1>1, ElementOfSeq DEF IsGreatest
<1>3. new \in Int /\ before + 1 <= new /\ x + 1 <= new /\ (new = x + 1 \/ new = before + 1)
  BY <1>2 DEF Step
<1>4. \A j \in 1 .. n : /\ Raised(clocks, j, n) \in Int
                        /\ Raised(clocks, j, n + 1) = Raised(clocks, j, n) + 1
  BY <1>1, RaisedByOne
<1>5. Raised(clocks, n + 1, n + 1) = x + 1
  BY <1>1, RaisedByOne
<1>6. 1 .. n + 1 = (1 .. n) \cup {n + 1}
  OBVIOUS
<1> HIDE DEF new, x
<1>7. time + (n + 1) <= new
  BY <1>2, <1>3 DEF IsGreatest
<1>8. \A j \in 1 .. n : Raised(clocks, j, n + 1) <= new
  BY <1>2, <1>3, <1>4 DEF IsGreatest
<1>9. new = time + (n + 1) \/ \E j \in 1 .. n + 1 : new = Raised(clocks, j, n + 1)
  <2>1. CASE new = x + 1
    BY <1>5, <1>6, <2>1
  <2>2. CASE new = before + 1
    <3>1. CASE before = time + n
      BY <2>2, <3>1
    <3>2. ASSUME NEW j \in 1 .. n, before = Raised(clocks, j, n)
          PROVE  new = Raised(clocks, j, n + 1)
      BY <1>4, <2>2, <3>2
    <3> QED
      BY <1>6, <3>1, <3>2 DEF IsGreatest
  <2> QED
    BY <1>3, <2>1, <2>2
<1>10. IsGreatest(new, n + 1, time, clocks)
  BY <1>3, <1>5, <1>6, <1>7, <1>8, <1>9 DEF IsGreatest
<1> QED
  BY <1>10 DEF new, x

LEMMA RunIsGreatest ==
  ASSUME NEW time \in Int, NEW clocks \in Seq(Int), NEW after,
         IsRun(after, Len(clocks), time, clocks)
  PROVE  IsGreatest(after[Len(clocks)], Len(clocks), time, clocks)
<1> DEFINE T == {n \in Nat : n <= Len(clocks) => IsGreatest(after[n], n, time, clocks)}
<1>1. Len(clocks) \in Nat
  BY LenProperties
<1>2. 0 \in T
  BY <1>1 DEF IsRun, IsGreatest
<1>3. ASSUME NEW n \in Nat, n \in T
      PROVE  n + 1 \in T
  <2> SUFFICES ASSUME n + 1 <= Len(clocks)
               PROVE  IsGreatest(after[n + 1], n + 1, time, clocks)
    OBVIOUS
  <2>1. IsGreatest(after[n], n, time, clocks)
    BY <1>1, <1>3
  <2>2. after[n + 1] = Step(clocks[n + 1], after[n])
    BY <1>1 DEF IsRun
  <2> QED
    BY <2>1, <2>2, StepIsGreatest
<1>4. Nat \subseteq T
  <2> HIDE DEF T
  <2> QED
    BY <1>2, <1>3, SetInduction
<1> QED
  BY <1>1, <1>4

\* The clock that HeartbeatNotification's loop ends with is the one the model
\* sets, for a list of any length.
THEOREM LoopIsMerge ==
  ASSUME NEW time \in Int, NEW clocks \in Seq(Int)
  PROVE  IsLoopTime(time, clocks)
<1> DEFINE n == Len(clocks)
           loop == CHOOSE after : IsRun(after, n, time, clocks)
<1>1. n \in Nat
  BY LenProperties
<1>2. IsRun(loop, n, time, clocks)
  BY <1>1, RunExists
<1>3. LoopTime(time, clocks) = loop[n]
  BY DEF LoopTime, IsRun, Step
<1>4. IsGreatest(loop[n], n, time, clocks)
  BY <1>2, RunIsGreatest
<1>5. MergeCandidates(time, clocks) = {time + n} \cup {Raised(clocks, j, n) : j \in 1 .. n}
  BY DEF MergeCandidates, Raised
<1>6. \A x \in MergeCandidates(time, clocks) : x \in Int
  BY <1>1, <1>5, RaisedByOne
<1> HIDE DEF loop, n
<1>7. /\ loop[n] \in MergeCandidates(time, clocks)
      /\ \A x \in MergeCandidates(time, clocks) : x <= loop[n]
  BY <1>4, <1>5 DEF IsGreatest
<1> QED
  BY <1>3, <1>6, <1>7 DEF IsMergedTime, IsLoopTime

----------------------------------------------------------------------------
(* ConditionalIncrementLamportTimestamp *)

\* A multiple of Width and a rest of either sign, rounded up.
LEMMA CeilOf ==
  ASSUME NEW q \in Int, NEW r \in Int, -Width < r, r < Width
  PROVE  Ceil(q * Width + r) = q + (IF r > 0 THEN 1 ELSE 0)
<1> USE WidthAssumption
<1>1. CASE r > 0
  <2>1. -(q * Width + r) = (-q - 1) * Width + (Width - r)
    OBVIOUS
  <2>2. ((-q - 1) * Width + (Width - r)) \div Width = -q - 1
    BY <1>1
  <2> QED
    BY <1>1, <2>1, <2>2 DEF Ceil
<1>2. CASE ~(r > 0)
  <2>1. -(q * Width + r) = (-q) * Width + (-r)
    OBVIOUS
  <2>2. ((-q) * Width + (-r)) \div Width = -q
    BY <1>2
  <2> QED
    BY <1>2, <2>1, <2>2 DEF Ceil
<1> QED
  BY <1>1, <1>2

\* The order of two timestamps is that of the numbers they stand for.
LEMMA FixedOrder ==
  ASSUME NEW t \in Int, NEW u \in Int,
         NEW p \in 0 .. Width - 1, NEW q \in 0 .. Width - 1
  PROVE  /\ Fixed(<<t, p>>) \in Int
         /\ Less(<<t, p>>, <<u, q>>) <=> Fixed(<<t, p>>) < Fixed(<<u, q>>)
<1> USE WidthAssumption
<1>1. Fixed(<<t, p>>) = t * Width + p /\ Fixed(<<u, q>>) = u * Width + q
  BY DEF Fixed
<1>2. t < u => t * Width + Width <= u * Width
  OBVIOUS
<1>3. u < t => u * Width + Width <= t * Width
  OBVIOUS
<1>4. Less(<<t, p>>, <<u, q>>) <=> t < u \/ (t = u /\ p < q)
  BY DEF Less
<1>5. t * Width \in Int /\ u * Width \in Int /\ p \in Int /\ q \in Int
  OBVIOUS
<1> QED
  BY <1>1, <1>2, <1>3, <1>4, <1>5

\* The pair arithmetic of ConditionalIncrement is the arithmetic on one number
\* of ConditionalIncrementLamportTimestamp, whatever the scale of the fractions.
THEOREM IncrementIsFixed ==
  ASSUME NEW time \in Int, NEW pid \in 0 .. Width - 1,
         NEW pivot \in Int \X (0 .. Width - 1)
  PROVE  Fixed(<<ConditionalIncrement(time, pid, pivot), pid>>)
           = FixedIncrement(Fixed(<<time, pid>>), Fixed(pivot))
<1> USE WidthAssumption
<1> DEFINE ticks == time + 1 - pivot[1]
           rest  == pid - pivot[2]
           difference == Fixed(<<time, pid>>) + Width - Fixed(pivot)
<1>1. PICK u \in Int, q \in 0 .. Width - 1 : pivot = <<u, q>>
  OBVIOUS
<1>2. ticks \in Int /\ rest \in Int /\ -Width < rest /\ rest < Width
  BY <1>1
<1>3. /\ Fixed(<<time, pid>>) = time * Width + pid
      /\ Fixed(<<time + 1, pid>>) = time * Width + Width + pid
      /\ Fixed(pivot) = u * Width + q
  BY <1>1 DEF Fixed
<1>4. difference = ticks * Width + rest
  BY <1>1, <1>3
<1>5. difference = Fixed(<<time + 1, pid>>) - Fixed(pivot)
  BY <1>3
<1>6. Less(pivot, <<time + 1, pid>>) <=> difference > 0
  <2>1. time + 1 \in Int
    OBVIOUS
  <2>2. Less(pivot, <<time + 1, pid>>) <=> Fixed(pivot) < Fixed(<<time + 1, pid>>)
    BY <1>1, <2>1, FixedOrder
  <2>3. Fixed(pivot) \in Int /\ Fixed(<<time + 1, pid>>) \in Int
    BY <1>1, <2>1, FixedOrder
  <2> QED
    BY <1>5, <2>2, <2>3
<1>7. Ceil(difference) = CeilDifference(time, pid, pivot)
  <2>1. Ceil(difference) = ticks + (IF rest > 0 THEN 1 ELSE 0)
    BY <1>2, <1>4, CeilOf
  <2>2. rest > 0 <=> pid > pivot[2]
    BY <1>1
  <2> QED
    BY <2>1, <2>2 DEF CeilDifference
<1>8. FixedIncrement(Fixed(<<time, pid>>), Fixed(pivot))
        = IF difference > 0 THEN Fixed(<<time, pid>>) + Width
          ELSE Fixed(<<time, pid>>) + Width * (1 + Ceil(difference))
  BY DEF FixedIncrement
<1>9. CeilDifference(time, pid, pivot) \in Int
  BY <1>1 DEF CeilDifference
<1>10. CASE difference > 0
  <2>1. ConditionalIncrement(time, pid, pivot) = time + 1
    BY <1>6, <1>10 DEF ConditionalIncrement
  <2> QED
    BY <1>3, <1>8, <1>10, <2>1
<1>11. CASE ~(difference > 0)
  <2>1. ConditionalIncrement(time, pid, pivot)
          = time + 1 + CeilDifference(time, pid, pivot)
    BY <1>6, <1>11 DEF ConditionalIncrement
  <2>2. Fixed(<<time + 1 + CeilDifference(time, pid, pivot), pid>>)
          = (time + 1 + CeilDifference(time, pid, pivot)) * Width + pid
    BY DEF Fixed
  <2>3. ASSUME NEW c \in Int
        PROVE  (time + 1 + c) * Width + pid = time * Width + pid + Width * (1 + c)
    OBVIOUS
  <2> QED
    BY <1>3, <1>7, <1>8, <1>9, <1>11, <2>1, <2>2, <2>3
<1> QED
  BY <1>10, <1>11
=============================================================================
