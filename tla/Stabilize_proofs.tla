-------------------------- MODULE Stabilize_proofs --------------------------
(***************************************************************************)
(* Proofs about stabilize: the servers' rounds, for any network, stores    *)
(* and number of servers, and the master's command built on them.          *)
(***************************************************************************)
EXTENDS MasterStabilize, FiniteSetTheorems, WellFoundedInduction, TLAPS

----------------------------------------------------------------------------
(* Types and shape of the rounds *)

\* A server calls the servers it lists, in the rounds of its loop.
Shape ==
  /\ RoundsTypeOK
  /\ \A s \in Servers :
       /\ todo[s] \subseteq peers[s]
       /\ round[s] <= Rounds + 1 \/ round[s] = 1
       /\ todo[s] # {} \/ sending[s] # None => round[s] \in 1 .. Rounds
       /\ sending[s] # None => sending[s].to \in peers[s]

LEMMA RoundsIsInt == Rounds \in Int /\ Cardinality(Servers) \in Nat
BY FS_CardinalityType, ServersFinite DEF Rounds

\* A merged store is a store, and not below either of the two.
LEMMA MergedIsAbove ==
  ASSUME NEW have \in [Keys -> Versions], NEW data \in [Keys -> Versions]
  PROVE  /\ Merged(have, data) \in [Keys -> Versions]
         /\ AtLeast(Merged(have, data), have)
         /\ AtLeast(Merged(have, data), data)
         /\ \A k \in Keys : Merged(have, data)[k] \in {have[k], data[k]}
BY DEF Merged, AtLeast, Versions

LEMMA AtLeastTransitive ==
  ASSUME NEW a \in [Keys -> Versions], NEW b \in [Keys -> Versions],
         NEW c \in [Keys -> Versions], AtLeast(a, b), AtLeast(b, c)
  PROVE  AtLeast(a, c)
BY DEF AtLeast, Versions

LEMMA AtLeastReflexive ==
  ASSUME NEW a \in [Keys -> Versions] PROVE AtLeast(a, a)
BY DEF AtLeast, Versions

LEMMA ShapeInit ==
  ASSUME RoundsInit PROVE Shape
<1>1. Rounds + 1 \in Nat
  BY RoundsIsInt DEF Rounds
<1>2. RoundsTypeOK
  BY StoresAssumption DEF RoundsInit, RoundsTypeOK
<1>3. \A s \in Servers : todo[s] = {} /\ round[s] = 0 /\ sending[s] = None
  BY DEF RoundsInit
<1> QED
  BY <1>1, <1>2, <1>3 DEF Shape

LEMMA ShapeStep ==
  ASSUME Shape, RoundsNext
  PROVE  Shape'
<1> USE RoundsIsInt, NoneAssumption
<1>. peers \in [Servers -> SUBSET Servers] /\ writes \subseteq Write
  BY NetworksAssumption, WritesAssumption DEF Shape, RoundsTypeOK
<1> PICK s \in Servers :
      \/ Begin(s)
      \/ \E t \in Servers : SendTo(s, t)
      \/ SendKVData(s)
      \/ SendFails(s)
      \/ Tick(s)
      \/ \E w \in writes : ProcessRemoteWrite(w)
      \/ Crash(s)
  BY DEF RoundsNext
<1>1. CASE Begin(s)
  BY <1>1 DEF Begin, EnterRound, Shape, RoundsTypeOK, inputs
<1>2. ASSUME NEW t \in Servers, SendTo(s, t) PROVE Shape'
  <2>1. [to |-> t, data |-> store[s]] \in Call
    BY DEF Call, Shape, RoundsTypeOK
  <2> QED
    BY <1>2, <2>1 DEF SendTo, Shape, RoundsTypeOK, inputs
<1>3. CASE SendKVData(s)
  <2>1. sending[s] \in Call
    BY <1>3 DEF SendKVData, Shape, RoundsTypeOK
  <2>2. Merged(store[sending[s].to], sending[s].data) \in [Keys -> Versions]
    BY <2>1, MergedIsAbove DEF Call, Shape, RoundsTypeOK
  <2> QED
    BY <1>3, <2>1, <2>2 DEF SendKVData, Shape, RoundsTypeOK, inputs
<1>4. CASE SendFails(s)
  BY <1>4 DEF SendFails, Shape, RoundsTypeOK, inputs
<1>5. CASE Tick(s)
  BY <1>5 DEF Tick, EnterRound, Shape, RoundsTypeOK, inputs
<1>6. ASSUME NEW w \in writes, ProcessRemoteWrite(w) PROVE Shape'
  <2>1. w \in Write
    OBVIOUS
  <2> QED
    BY <1>6, <2>1 DEF ProcessRemoteWrite, Shape, RoundsTypeOK, inputs, Write
<1>7. CASE Crash(s)
  BY <1>7 DEF Crash, Shape, RoundsTypeOK, inputs
<1> QED
  BY <1>1, <1>2, <1>3, <1>4, <1>5, <1>6, <1>7

----------------------------------------------------------------------------
(* The flood *)

\* How many rounds' data of u have been taken over by v.
RoundsAt(v, u) ==
  IF round[u] > Rounds \/ v \in todo[u] \/ (sending[u] # None /\ sending[u].to = v)
  THEN round[u] - 1 ELSE round[u]

\* In its round i a server holds, sends, and has brought to each server it
\* has called, all data from less than i connections away.
FloodInv ==
  /\ \A u \in Servers : AtLeast(store[u], start[u])
  /\ \A u, t \in Servers, j \in Nat :
       j < round[u] /\ Reaches(t, u, j) => AtLeast(store[u], start[t])
  /\ \A u, t \in Servers, j \in Nat :
       sending[u] # None /\ j < round[u] /\ Reaches(t, u, j)
         => AtLeast(sending[u].data, start[t])
  /\ \A u, v, t \in Servers, j \in Nat :
       v \in peers[u] /\ j < RoundsAt(v, u) /\ Reaches(t, u, j)
         => AtLeast(store[v], start[t])

\* A path of no connection.
LEMMA PathZero ==
  ASSUME NEW s \in Servers, NEW t \in Servers, Reaches(t, s, 0)
  PROVE  t = s
BY DEF Reaches

\* The last connection of a path.
LEMMA PathLast ==
  ASSUME NEW s \in Servers, NEW t \in Servers, NEW j \in Nat,
         Reaches(t, s, j + 1)
  PROVE  \E u \in Servers : Reaches(t, u, j) /\ s \in peers[u]
<1>1. PICK path \in [0 .. j + 1 -> Servers] :
        /\ path[0] = t /\ path[j + 1] = s
        /\ \A i \in 0 .. j : path[i + 1] \in peers[path[i]]
  BY DEF Reaches
<1> DEFINE short == [i \in 0 .. j |-> path[i]]
<1>2. short \in [0 .. j -> Servers]
  BY <1>1
<1>3. short[0] = t /\ short[j] = path[j]
  BY <1>1
<1>4. \A i \in 0 .. j - 1 : short[i + 1] \in peers[short[i]]
  BY <1>1
<1>5. Reaches(t, path[j], j)
  BY <1>2, <1>3, <1>4 DEF Reaches
<1>6. path[j] \in Servers /\ s \in peers[path[j]]
  BY <1>1
<1> QED
  BY <1>5, <1>6

LEMMA FloodInit ==
  ASSUME RoundsInit PROVE FloodInv
<1>1. start \in [Servers -> [Keys -> Versions]]
  BY StoresAssumption DEF RoundsInit
<1>2. \A u \in Servers : AtLeast(store[u], start[u])
  BY <1>1 DEF RoundsInit, AtLeast, Versions
<1>3. \A u \in Servers : round[u] = 0 /\ sending[u] = None
  BY DEF RoundsInit
<1>4. \A u, v \in Servers, j \in Nat : ~(j < RoundsAt(v, u))
  BY <1>3 DEF RoundsAt
<1>5. \A u \in Servers, j \in Nat : ~(j < round[u])
  BY <1>3
<1> QED
  BY <1>2, <1>4, <1>5 DEF FloodInv

LEMMA RoundsNat ==
  ASSUME NEW s \in Servers PROVE Rounds \in Nat
<1>1. Cardinality(Servers) # 0
  BY FS_EmptySet, ServersFinite
<1> QED
  BY <1>1, RoundsIsInt DEF Rounds

\* Every step keeps the inputs, adds no process, and lowers no version.
LEMMA StoresGrow ==
  ASSUME Shape, RoundsNext
  PROVE  /\ UNCHANGED inputs
         /\ up' \subseteq up
         /\ \A u \in Servers : AtLeast(store'[u], store[u])
<1>0. store \in [Servers -> [Keys -> Versions]] /\ writes \subseteq Write
      /\ sending \in [Servers -> Call \cup {None}]
  BY WritesAssumption DEF Shape, RoundsTypeOK
<1>1. \A u \in Servers : AtLeast(store[u], store[u])
  BY <1>0, AtLeastReflexive
<1> PICK s \in Servers :
      \/ Begin(s)
      \/ \E t \in Servers : SendTo(s, t)
      \/ SendKVData(s)
      \/ SendFails(s)
      \/ Tick(s)
      \/ \E w \in writes : ProcessRemoteWrite(w)
      \/ Crash(s)
  BY DEF RoundsNext
<1>2. CASE SendKVData(s)
  <2>1. sending[s] \in Call
    BY <1>0, <1>2 DEF SendKVData
  <2>2. AtLeast(Merged(store[sending[s].to], sending[s].data), store[sending[s].to])
    BY <1>0, <2>1, MergedIsAbove DEF Call
  <2> QED
    BY <1>0, <1>1, <1>2, <2>1, <2>2 DEF SendKVData, Call
<1>3. ASSUME NEW w \in writes, ProcessRemoteWrite(w)
      PROVE  /\ UNCHANGED inputs
             /\ up' \subseteq up
             /\ \A u \in Servers : AtLeast(store'[u], store[u])
  <2>1. w \in Write
    BY <1>0
  <2> QED
    BY <1>0, <1>3, <2>1 DEF ProcessRemoteWrite, AtLeast, Versions, Write
<1> QED
  BY <1>1, <1>2, <1>3
     DEF Begin, SendTo, SendFails, Tick, Crash, EnterRound

LEMMA ReachesSame ==
  ASSUME NEW s \in Servers, NEW t \in Servers, NEW j \in Nat, UNCHANGED inputs
  PROVE  Reaches(t, s, j)' = Reaches(t, s, j)
BY DEF Reaches, inputs

\* What a step does to the data of u that v has taken over: it takes over the
\* data of the present round when SendKVData is answered, and never less.
LEMMA RoundsAtStep ==
  ASSUME Shape, RoundsNext, up' = Servers, NEW u \in Servers, NEW v \in Servers,
         v \in peers[u]
  PROVE  \/ RoundsAt(v, u)' <= RoundsAt(v, u)
         \/ /\ SendKVData(u) /\ sending[u].to = v
            /\ RoundsAt(v, u)' <= round[u]
<1> DEFINE Goal == \/ RoundsAt(v, u)' <= RoundsAt(v, u)
                   \/ /\ SendKVData(u) /\ sending[u].to = v
                      /\ RoundsAt(v, u)' <= round[u]
<1>0. /\ Rounds \in Nat /\ round \in [Servers -> Nat]
      /\ todo \in [Servers -> SUBSET Servers]
      /\ sending \in [Servers -> Call \cup {None}]
      /\ peers \in [Servers -> SUBSET Servers]
      /\ up = Servers
      /\ todo[u] # {} \/ sending[u] # None => round[u] \in 1 .. Rounds
      /\ sending[u] # None => sending[u].to \in Servers
  <2>1. up = Servers
    BY StoresGrow DEF Shape, RoundsTypeOK
  <2> QED
    BY <2>1, RoundsNat, NetworksAssumption DEF Shape, RoundsTypeOK
<1> PICK s \in Servers :
      \/ Begin(s)
      \/ \E t \in Servers : SendTo(s, t)
      \/ SendKVData(s)
      \/ SendFails(s)
      \/ Tick(s)
      \/ \E w \in writes : ProcessRemoteWrite(w)
      \/ Crash(s)
  BY DEF RoundsNext
<1>1. CASE s # u
  <2>1. round'[u] = round[u] /\ todo'[u] = todo[u] /\ sending'[u] = sending[u]
    BY <1>0, <1>1
       DEF Begin, SendTo, SendKVData, SendFails, Tick, Crash, ProcessRemoteWrite,
           EnterRound
  <2>2. RoundsAt(v, u)' = RoundsAt(v, u)
    BY <2>1 DEF RoundsAt
  <2>3. RoundsAt(v, u) \in Int
    BY <1>0 DEF RoundsAt
  <2> QED
    BY <2>2, <2>3
<1>2. CASE s = u
  <2>1. CASE Begin(u)
    <3>1. round[u] = 0 /\ todo[u] = {} /\ sending[u] = None
      BY <1>0, <2>1 DEF Begin
    <3>2. round'[u] = 1 /\ sending'[u] = None /\ (1 <= Rounds => v \in todo'[u])
      BY <1>0, <2>1, <3>1 DEF Begin, EnterRound
    <3> QED
      BY <1>0, <3>1, <3>2 DEF RoundsAt
  <2>2. ASSUME NEW t \in Servers, SendTo(u, t) PROVE Goal
    <3>1. /\ round'[u] = round[u] /\ todo'[u] = todo[u] \ {t}
          /\ sending[u] = None /\ t \in todo[u]
          /\ sending'[u] = [to |-> t, data |-> store[u]]
      BY <1>0, <2>2 DEF SendTo
    <3>2. sending'[u].to = t /\ sending'[u] # None
      <4>1. [to |-> t, data |-> store[u]] \in Call
        BY DEF Call, Shape, RoundsTypeOK
      <4> QED
        BY <3>1, <4>1, NoneAssumption
    <3>3. round[u] \in Nat
      BY <1>0
    <3> QED
      BY <1>0, <3>1, <3>2, <3>3 DEF RoundsAt
  <2>3. CASE SendKVData(u)
    <3>1. round'[u] = round[u] /\ todo'[u] = todo[u] /\ sending'[u] = None
      BY <1>0, <2>3 DEF SendKVData
    <3>2. CASE sending[u].to = v
      BY <1>0, <2>3, <3>1, <3>2 DEF RoundsAt
    <3>3. CASE sending[u].to # v
      BY <1>0, <2>3, <3>1, <3>3 DEF RoundsAt
    <3> QED
      BY <3>2, <3>3
  <2>4. CASE SendFails(u)
    BY <1>0, <2>4 DEF SendFails
  <2>5. CASE Tick(u)
    <3>1. /\ round'[u] = round[u] + 1 /\ round[u] \in 1 .. Rounds
          /\ todo[u] = {} /\ sending[u] = None /\ sending'[u] = None
          /\ round[u] + 1 <= Rounds => v \in todo'[u]
      BY <1>0, <2>5 DEF Tick, EnterRound
    <3> QED
      BY <1>0, <3>1 DEF RoundsAt
  <2>6. ASSUME NEW w \in writes, ProcessRemoteWrite(w) PROVE Goal
    BY <1>0, <2>6 DEF ProcessRemoteWrite, RoundsAt
  <2>7. CASE Crash(u)
    BY <1>0, <2>7 DEF Crash
  <2> QED
    BY <1>2, <2>1, <2>2, <2>3, <2>4, <2>5, <2>6, <2>7
<1> QED
  BY <1>1, <1>2

\* The step that needs the rounds to go together: a server entering a round
\* has taken over all that its senders had in the round before.
LEMMA EnteringKnowsMore ==
  ASSUME Shape, FloodInv, RoundsNext, InStep, up = Servers,
         NEW u \in Servers, NEW t \in Servers, NEW j \in Nat,
         j < round'[u], ~(j < round[u]), Reaches(t, u, j)
  PROVE  AtLeast(store[u], start[t])
<1>0. /\ Rounds \in Nat /\ round \in [Servers -> Nat]
      /\ todo \in [Servers -> SUBSET Servers]
  BY RoundsNat DEF Shape, RoundsTypeOK
<1>1. /\ round'[u] > round[u] /\ j = round[u]
      /\ round[u] = 0 \/ round[u] \in 1 .. Rounds
  <2> PICK s \in Servers :
        \/ Begin(s)
        \/ \E x \in Servers : SendTo(s, x)
        \/ SendKVData(s)
        \/ SendFails(s)
        \/ Tick(s)
        \/ \E w \in writes : ProcessRemoteWrite(w)
        \/ Crash(s)
    BY DEF RoundsNext
  <2>1. CASE Begin(s)
    BY <1>0, <2>1 DEF Begin, EnterRound
  <2>2. CASE Tick(s)
    BY <1>0, <2>2 DEF Tick, EnterRound
  <2> QED
    BY <1>0, <2>1, <2>2 DEF SendTo, SendKVData, SendFails, Crash, ProcessRemoteWrite
<1>2. CASE round[u] = 0
  BY <1>1, <1>2, PathZero DEF FloodInv
<1>3. CASE round[u] \in 1 .. Rounds
  <2>1. j - 1 \in Nat /\ (j - 1) + 1 = j
    BY <1>1, <1>3
  <2>2. PICK v \in Servers : Reaches(t, v, j - 1) /\ u \in peers[v]
    BY <2>1, PathLast
  <2>3. Sent(v, j)
    BY <1>1, <1>3, <2>2 DEF InStep
  <2>4. j - 1 < RoundsAt(u, v)
    BY <1>0, <1>1, <1>3, <2>3 DEF Sent, RoundsAt
  <2> QED
    BY <2>1, <2>2, <2>4 DEF FloodInv
<1> QED
  BY <1>1, <1>2, <1>3

LEMMA FloodStep ==
  ASSUME Shape, FloodInv, RoundsNext, InStep, up' = Servers
  PROVE  FloodInv'
<1>0. /\ UNCHANGED inputs /\ up = Servers
      /\ start' = start /\ peers' = peers
      /\ \A u \in Servers : AtLeast(store'[u], store[u])
  BY StoresGrow DEF Shape, RoundsTypeOK, inputs
<1>1. /\ store \in [Servers -> [Keys -> Versions]]
      /\ store' \in [Servers -> [Keys -> Versions]]
      /\ start \in [Servers -> [Keys -> Versions]]
      /\ round \in [Servers -> Nat]
      /\ sending \in [Servers -> Call \cup {None}]
      /\ peers \in [Servers -> SUBSET Servers]
  BY ShapeStep, StoresAssumption, NetworksAssumption DEF Shape, RoundsTypeOK
<1>2. \A u, t \in Servers : AtLeast(store[u], start[t]) => AtLeast(store'[u], start[t])
  <2> SUFFICES ASSUME NEW u \in Servers, NEW t \in Servers, AtLeast(store[u], start[t])
               PROVE  AtLeast(store'[u], start[t])
    OBVIOUS
  <2> QED
    BY <1>0, <1>1, AtLeastTransitive
<1>3. \A u \in Servers : AtLeast(store'[u], start'[u])
  BY <1>0, <1>2 DEF FloodInv
<1>4. ASSUME NEW u \in Servers, NEW t \in Servers, NEW j \in Nat,
             j < round'[u], Reaches(t, u, j)
      PROVE  AtLeast(store[u], start[t])
  BY <1>0, <1>4, EnteringKnowsMore DEF FloodInv
<1>5. ASSUME NEW u \in Servers, NEW t \in Servers, NEW j \in Nat,
             sending'[u] # None, j < round'[u], Reaches(t, u, j)
      PROVE  AtLeast(sending'[u].data, start[t])
  <2>1. \/ \E x \in Servers : SendTo(u, x)
        \/ sending'[u] = sending[u] /\ round'[u] = round[u]
    <3> PICK s \in Servers :
          \/ Begin(s)
          \/ \E x \in Servers : SendTo(s, x)
          \/ SendKVData(s)
          \/ SendFails(s)
          \/ Tick(s)
          \/ \E w \in writes : ProcessRemoteWrite(w)
          \/ Crash(s)
      BY DEF RoundsNext
    <3>1. CASE Begin(s)
      BY <1>1, <1>5, <3>1 DEF Begin, EnterRound, Shape
    <3>2. CASE Tick(s)
      BY <1>1, <1>5, <3>2 DEF Tick, EnterRound
    <3>3. CASE SendKVData(s) \/ SendFails(s) \/ Crash(s)
      BY <1>1, <1>5, <3>3 DEF SendKVData, SendFails, Crash
    <3>4. CASE \E x \in Servers : SendTo(s, x)
      BY <1>1, <3>4 DEF SendTo
    <3>5. CASE \E w \in writes : ProcessRemoteWrite(w)
      BY <3>5 DEF ProcessRemoteWrite
    <3> QED
      BY <3>1, <3>2, <3>3, <3>4, <3>5
  <2>2. CASE \E x \in Servers : SendTo(u, x)
    <3>1. sending'[u].data = store[u]
      BY <1>1, <2>2 DEF SendTo
    <3> QED
      BY <1>4, <1>5, <3>1
  <2>3. CASE sending'[u] = sending[u] /\ round'[u] = round[u]
    BY <1>5, <2>3 DEF FloodInv
  <2> QED
    BY <2>1, <2>2, <2>3
<1>6. ASSUME NEW u \in Servers, NEW v \in Servers, NEW t \in Servers, NEW j \in Nat,
             v \in peers[u], j < RoundsAt(v, u)', Reaches(t, u, j)
      PROVE  AtLeast(store'[v], start[t])
  <2>1. RoundsAt(v, u)' \in Int /\ RoundsAt(v, u) \in Int
    BY <1>1, ShapeStep DEF RoundsAt, Shape, RoundsTypeOK
  <2>2. CASE RoundsAt(v, u)' <= RoundsAt(v, u)
    <3>1. j < RoundsAt(v, u)
      BY <1>6, <2>1, <2>2
    <3> QED
      BY <1>2, <1>6, <3>1 DEF FloodInv
  <2>3. CASE SendKVData(u) /\ sending[u].to = v /\ RoundsAt(v, u)' <= round[u]
    <3>1. sending[u] # None /\ sending[u] \in Call /\ j < round[u]
      BY <1>1, <1>6, <2>1, <2>3 DEF SendKVData
    <3>2. AtLeast(sending[u].data, start[t])
      BY <1>6, <3>1 DEF FloodInv
    <3>3. store'[v] = Merged(store[v], sending[u].data)
      BY <1>1, <2>3 DEF SendKVData
    <3>4. AtLeast(store'[v], sending[u].data)
      <4>1. sending[u].data \in [Keys -> Versions] /\ store[v] \in [Keys -> Versions]
        BY <1>1, <3>1 DEF Call
      <4>2. AtLeast(Merged(store[v], sending[u].data), sending[u].data)
        BY <4>1, MergedIsAbove
      <4> QED
        BY <3>3, <4>2
    <3> QED
      BY <1>1, <3>1, <3>2, <3>4, AtLeastTransitive DEF Call
  <2> QED
    BY <1>0, <1>6, <2>2, <2>3, RoundsAtStep
<1>7. \A u, t \in Servers, j \in Nat :
        j < round'[u] /\ Reaches(t, u, j)' => AtLeast(store'[u], start'[t])
  BY <1>0, <1>2, <1>4, ReachesSame
<1>8. \A u, t \in Servers, j \in Nat :
        sending'[u] # None /\ j < round'[u] /\ Reaches(t, u, j)'
          => AtLeast(sending'[u].data, start'[t])
  BY <1>0, <1>5, ReachesSame
<1>9. \A u, v, t \in Servers, j \in Nat :
        v \in peers'[u] /\ j < RoundsAt(v, u)' /\ Reaches(t, u, j)'
          => AtLeast(store'[v], start'[t])
  BY <1>0, <1>6, ReachesSame
<1> QED
  BY <1>3, <1>7, <1>8, <1>9 DEF FloodInv, AtLeast

\* The inductive invariant of the rounds in step.
RoundsInv == Shape /\ (up = Servers => FloodInv)

LEMMA RoundsInvInit ==
  ASSUME RoundsInit PROVE RoundsInv
BY ShapeInit, FloodInit DEF RoundsInv

LEMMA RoundsInvStep ==
  ASSUME RoundsInv, [RoundsNext /\ InStep]_roundsVars
  PROVE  RoundsInv'
<1>1. CASE RoundsNext /\ InStep
  <2>1. up' \subseteq up /\ up \subseteq Servers
    BY <1>1, StoresGrow DEF RoundsInv, Shape, RoundsTypeOK
  <2> QED
    BY <1>1, <2>1, ShapeStep, FloodStep DEF RoundsInv
<1>2. CASE UNCHANGED roundsVars
  <2>1. /\ UNCHANGED inputs /\ up' = up /\ store' = store /\ start' = start
        /\ peers' = peers /\ writes' = writes /\ round' = round /\ todo' = todo
        /\ sending' = sending
    BY <1>2 DEF roundsVars, roundVars, inputs
  <2>2. Shape'
    BY <2>1 DEF RoundsInv, Shape, RoundsTypeOK
  <2>3. \A s, t \in Servers, j \in Nat : Reaches(t, s, j)' = Reaches(t, s, j)
    BY <2>1, ReachesSame
  <2>4. up = Servers => FloodInv'
    BY <2>1, <2>3 DEF RoundsInv, FloodInv, AtLeast, RoundsAt
  <2> QED
    BY <2>1, <2>2, <2>4 DEF RoundsInv
<1> QED
  BY <1>1, <1>2

\* Where the servers keep in step, n - 1 rounds bring the data of each server
\* to all it is connected with: for any number of servers and any network.
LEMMA ReturnedIsFlooded ==
  ASSUME RoundsInv, up = Servers, \A s \in Servers : Returned(s)
  PROVE  Flooded
<1> SUFFICES ASSUME NEW s \in Servers, NEW t \in Servers,
                    NEW j \in 0 .. Cardinality(Servers) - 1, Reaches(t, s, j)
             PROVE  AtLeast(store[s], start[t])
  BY DEF Flooded
<1>1. j \in Nat /\ j < round[s]
  BY RoundsIsInt DEF Rounds, Returned, RoundsInv, Shape, RoundsTypeOK
<1> QED
  BY <1>1 DEF RoundsInv, FloodInv

\* Where the servers keep in step, the flood is complete when all have returned.
THEOREM FloodIsComplete == InStepSpec => []FloodComplete
<1>1. RoundsInv => FloodComplete
  BY ReturnedIsFlooded DEF FloodComplete
<1> QED
  BY <1>1, RoundsInvInit, RoundsInvStep, PTL DEF InStepSpec

----------------------------------------------------------------------------
(* Partitions *)

\* The version v of k was in P at the start, or on its way there.
From(P, k, v) ==
  \/ \E t \in P : v = start[t][k]
  \/ \E w \in writes : w.to \in P /\ w.key = k /\ w.ver = v

PartInv ==
  /\ Shape
  /\ \A P \in SUBSET Servers : Closed(P) =>
       /\ \A s \in P, k \in Keys : From(P, k, store[s][k])
       /\ \A s \in Servers, k \in Keys :
            sending[s] # None /\ sending[s].to \in P => From(P, k, sending[s].data[k])

LEMMA PartInit ==
  ASSUME RoundsInit PROVE PartInv
<1>1. Shape
  BY ShapeInit
<1> QED
  BY <1>1 DEF RoundsInit, PartInv, From

\* Whatever the timing, no step brings anything into a closed set of servers.
LEMMA PartStep ==
  ASSUME PartInv, RoundsNext
  PROVE  PartInv'
<1>0. /\ Shape /\ Shape' /\ UNCHANGED inputs /\ start' = start /\ writes' = writes
      /\ peers' = peers
  BY ShapeStep, StoresGrow DEF PartInv, inputs
<1>1. /\ store \in [Servers -> [Keys -> Versions]]
      /\ sending \in [Servers -> Call \cup {None}]
      /\ peers \in [Servers -> SUBSET Servers]
      /\ writes \subseteq Write
      /\ \A s \in Servers : todo[s] \subseteq peers[s]
  BY <1>0, NetworksAssumption, WritesAssumption DEF Shape, RoundsTypeOK
<1> SUFFICES \A P \in SUBSET Servers : Closed(P) =>
               /\ \A s \in P, k \in Keys : From(P, k, store'[s][k])
               /\ \A s \in Servers, k \in Keys :
                    sending'[s] # None /\ sending'[s].to \in P
                      => From(P, k, sending'[s].data[k])
  <2>1. \A P \in SUBSET Servers : Closed(P)' = Closed(P)
    BY <1>0 DEF Closed
  <2>2. ASSUME NEW P \in SUBSET Servers, Closed(P)'
        PROVE  /\ \A s \in P, k \in Keys : From(P, k, store[s][k])'
               /\ \A s \in Servers, k \in Keys :
                    sending'[s] # None /\ sending'[s].to \in P
                      => From(P, k, sending[s].data[k])'
    <3>1. Closed(P)
      BY <2>1, <2>2
    <3>2. ASSUME NEW s \in P, NEW k \in Keys PROVE From(P, k, store[s][k])'
      <4>1. From(P, k, store'[s][k])
        BY <3>1
      <4> QED
        BY <1>0, <4>1 DEF From
    <3>3. ASSUME NEW s \in Servers, NEW k \in Keys,
                 sending'[s] # None, sending'[s].to \in P
          PROVE  From(P, k, sending[s].data[k])'
      <4>1. From(P, k, sending'[s].data[k])
        BY <3>1, <3>3
      <4> QED
        BY <1>0, <4>1 DEF From
    <3> QED
      BY <3>2, <3>3
  <2> QED
    BY <1>0, <2>2 DEF PartInv
<1> TAKE P \in SUBSET Servers
<1> HAVE Closed(P)
<1>2. /\ \A s \in P, k \in Keys : From(P, k, store[s][k])
      /\ \A s \in Servers, k \in Keys :
           sending[s] # None /\ sending[s].to \in P => From(P, k, sending[s].data[k])
  BY DEF PartInv
<1> HIDE DEF From
<1> PICK s \in Servers :
      \/ Begin(s)
      \/ \E t \in Servers : SendTo(s, t)
      \/ SendKVData(s)
      \/ SendFails(s)
      \/ Tick(s)
      \/ \E w \in writes : ProcessRemoteWrite(w)
      \/ Crash(s)
  BY DEF RoundsNext
<1>3. CASE Begin(s) \/ Tick(s)
  BY <1>2, <1>3 DEF Begin, Tick
<1>4. ASSUME NEW t \in Servers, SendTo(s, t)
      PROVE  /\ \A u \in P, k \in Keys : From(P, k, store'[u][k])
             /\ \A u \in Servers, k \in Keys :
                  sending'[u] # None /\ sending'[u].to \in P
                    => From(P, k, sending'[u].data[k])
  <2>1. t \in P => s \in P
    BY <1>1, <1>4 DEF SendTo, Closed
  <2>2. sending'[s].to = t /\ sending'[s].data = store[s]
    BY <1>1, <1>4 DEF SendTo
  <2>3. \A u \in Servers : u # s => sending'[u] = sending[u]
    BY <1>1, <1>4 DEF SendTo
  <2>4. store' = store
    BY <1>4 DEF SendTo
  <2> QED
    BY <1>2, <2>1, <2>2, <2>3, <2>4
<1>5. CASE SendKVData(s)
  <2> DEFINE t == sending[s].to
  <2>1. /\ sending[s] # None /\ sending[s] \in Call
        /\ sending[s].data \in [Keys -> Versions] /\ t \in Servers
    BY <1>1, <1>5 DEF SendKVData, Call
  <2>2. \A k \in Keys : store'[t][k] \in {store[t][k], sending[s].data[k]}
    <3>1. store'[t] = Merged(store[t], sending[s].data)
      BY <1>1, <1>5, <2>1 DEF SendKVData
    <3> QED
      BY <1>1, <2>1, <3>1, MergedIsAbove
  <2>3. \A u \in Servers : u # t => store'[u] = store[u]
    BY <1>1, <1>5 DEF SendKVData
  <2>4. \A u \in Servers : sending'[u] # None => sending'[u] = sending[u]
    BY <1>1, <1>5 DEF SendKVData
  <2>5. ASSUME NEW u \in P, NEW k \in Keys PROVE From(P, k, store'[u][k])
    <3>1. CASE u = t
      BY <1>2, <2>1, <2>2, <3>1
    <3>2. CASE u # t
      BY <1>2, <2>3, <3>2
    <3> QED
      BY <3>1, <3>2
  <2> QED
    BY <1>2, <2>4, <2>5
<1>6. CASE SendFails(s) \/ Crash(s)
  <2>1. store' = store /\ \A u \in Servers : sending'[u] # None => sending'[u] = sending[u]
    BY <1>1, <1>6 DEF SendFails, Crash
  <2> QED
    BY <1>2, <2>1
<1>7. ASSUME NEW w \in writes, ProcessRemoteWrite(w)
      PROVE  /\ \A u \in P, k \in Keys : From(P, k, store'[u][k])
             /\ \A u \in Servers, k \in Keys :
                  sending'[u] # None /\ sending'[u].to \in P
                    => From(P, k, sending'[u].data[k])
  <2>1. w \in Write /\ sending' = sending
    BY <1>1, <1>7 DEF ProcessRemoteWrite
  <2>2. ASSUME NEW u \in P, NEW k \in Keys PROVE From(P, k, store'[u][k])
    <3>1. CASE u = w.to /\ k = w.key
      <4>1. store'[u][k] = w.ver
        BY <1>1, <1>7, <2>1, <3>1 DEF ProcessRemoteWrite, Write
      <4> QED
        BY <3>1, <4>1 DEF From
    <3>2. CASE ~(u = w.to /\ k = w.key)
      <4>1. store'[u][k] = store[u][k]
        BY <1>1, <1>7, <2>1, <3>2 DEF ProcessRemoteWrite, Write
      <4> QED
        BY <1>2, <4>1
    <3> QED
      BY <3>1, <3>2
  <2> QED
    BY <1>2, <2>1, <2>2
<1> QED
  BY <1>3, <1>4, <1>5, <1>6, <1>7

LEMMA PartStutters ==
  ASSUME PartInv, UNCHANGED roundsVars PROVE PartInv'
<1>1. /\ peers' = peers /\ start' = start /\ writes' = writes /\ up' = up
      /\ store' = store /\ round' = round /\ todo' = todo /\ sending' = sending
  BY DEF roundsVars, roundVars, inputs
<1>2. Shape'
  BY <1>1 DEF PartInv, Shape, RoundsTypeOK
<1> QED
  BY <1>1, <1>2 DEF PartInv, Closed, From

LEMMA PartInvIsStays ==
  ASSUME PartInv PROVE StaysInPartition
BY DEF PartInv, StaysInPartition, From

\* Whatever the timing, stabilize brings nothing into a partition: the loop of
\* Stabilize calls only servers that getRPCConnection connects it with.
THEOREM PartitionKept == RoundsSpec => []StaysInPartition
<1>1. RoundsInit => PartInv
  BY PartInit
<1>2. PartInv /\ [RoundsNext]_roundsVars => PartInv'
  BY PartStep, PartStutters
<1> QED
  BY <1>1, <1>2, PartInvIsStays, PTL DEF RoundsSpec

----------------------------------------------------------------------------
(* The master's command *)

\* A step of the command is one of the servers' rounds, in step, or none.
LEMMA MasterStepIsRoundsStep ==
  ASSUME Shape, [Next]_vars
  PROVE  [RoundsNext /\ InStep]_roundsVars
<1>0. round \in [Servers -> Nat]
  BY DEF Shape, RoundsTypeOK
<1>1. CASE UNCHANGED vars
  BY <1>1 DEF vars
<1>2. CASE Progress
  BY <1>2 DEF Progress, RoundsNext, Dial, CallAnswered, CallFails, TakeErr, TakeReply
<1>3. CASE Others
  <2>1. CASE ReadTimer
    BY <2>1 DEF ReadTimer
  <2>2. CASE (\E w \in writes : ProcessRemoteWrite(w)) \/ (\E s \in Servers : Crash(s))
    <3>1. round' = round
      BY <2>2 DEF ProcessRemoteWrite, Crash
    <3>2. InStep
      BY <1>0, <3>1 DEF InStep
    <3>3. RoundsNext
      <4>1. CASE \E s \in Servers : Crash(s)
        BY <4>1 DEF RoundsNext
      <4>2. CASE \E w \in writes : ProcessRemoteWrite(w)
        <5>1. PICK w \in writes : ProcessRemoteWrite(w)
          BY <4>2
        <5>2. w.to \in Servers
          BY WritesAssumption DEF Shape, RoundsTypeOK, Write
        <5> QED
          BY <5>1, <5>2 DEF RoundsNext
      <4> QED
        BY <2>2, <4>1, <4>2
    <3> QED
      BY <3>2, <3>3
  <2> QED
    BY <1>3, <2>1, <2>2 DEF Others
<1> QED
  BY <1>1, <1>2, <1>3 DEF Next

\* The stabilize command implements the rounds in step, so what holds of them
\* holds under the master, its timer and its collector.
THEOREM CommandImplementsRounds == Spec => InStepSpec
<1>1. Init => RoundsInit /\ RoundsInv
  BY RoundsInvInit DEF Init
<1>2. RoundsInv /\ [Next]_vars => [RoundsNext /\ InStep]_roundsVars /\ RoundsInv'
  BY MasterStepIsRoundsStep, RoundsInvStep DEF RoundsInv
<1> QED
  BY <1>1, <1>2, PTL DEF Spec, InStepSpec

Ended == {s \in Servers : call[s] = "end"}

AtIds == {"naming", "nameless"}

\* One goroutine at most offers an id, and does when an error was taken: its
\* own.  Each that was answered has a server that is through its rounds, and
\* each that failed one that crashed; all have ended when the command has.
MasterInv ==
  /\ TypeOK
  /\ \A s, t \in Servers : call[s] \in AtIds /\ call[t] \in AtIds => s = t
  /\ taken # "none" <=> \E s \in Servers : call[s] \in AtIds
  /\ \A s \in Servers : call[s] \in AtIds => taken = (IF call[s] = "naming" THEN "nil" ELSE "error")
  /\ \A s \in Servers : call[s] \in {"answered", "naming"} => Returned(s)
  /\ \A s \in Servers : call[s] \in {"failed", "nameless"} => s \notin up
  /\ \A s \in Servers : call[s] = "end" => s \notin up \/ <<"nil", s>> \in reports
  /\ \A report \in reports :
       IF report[1] = "nil" THEN report[2] \in Servers /\ Returned(report[2])
       ELSE report[2] = None
  /\ acksRecv = Cardinality(Ended)
  /\ done => Ended = Servers
  /\ Servers # {} /\ Ended = Servers => done

LEMMA MasterInit ==
  ASSUME Init PROVE MasterInv
<1>1. RoundsTypeOK
  BY ShapeInit DEF Init, Shape
<1>2. Ended = {}
  BY DEF Init, Ended
<1> QED
  BY <1>1, <1>2, FS_EmptySet DEF Init, MasterInv, TypeOK, Phases, AtIds

LEMMA RoundsOnward ==
  ASSUME Shape, [RoundsNext]_roundsVars
  PROVE  up' \subseteq up /\ \A s \in Servers : Returned(s) => Returned(s)'
<1>0. round \in [Servers -> Nat] /\ Rounds \in Int
  BY RoundsIsInt DEF Shape, RoundsTypeOK
<1>1. CASE UNCHANGED roundsVars
  BY <1>1 DEF roundsVars, roundVars, Returned
<1>2. CASE RoundsNext
  <2>1. ASSUME NEW t \in Servers PROVE round[t] <= round'[t]
    <3>1. CASE round' = round
      BY <1>0, <3>1
    <3>2. ASSUME NEW s \in Servers, Begin(s) \/ Tick(s) PROVE round[t] <= round'[t]
      BY <1>0, <3>2 DEF Begin, Tick, EnterRound
    <3> QED
      BY <1>2, <3>1, <3>2
         DEF RoundsNext, SendTo, SendKVData, SendFails, Crash, ProcessRemoteWrite
  <2>2. round' \in [Servers -> Nat]
    BY <1>2, ShapeStep DEF Shape, RoundsTypeOK
  <2> QED
    BY <1>0, <1>2, <2>1, <2>2, StoresGrow DEF Returned
<1> QED
  BY <1>1, <1>2

LEMMA MasterStep ==
  ASSUME Shape, MasterInv, [Next]_vars
  PROVE  MasterInv'
<1>0. /\ [RoundsNext]_roundsVars
      /\ up' \subseteq up
      /\ \A s \in Servers : Returned(s) => Returned(s)'
  BY MasterStepIsRoundsStep, RoundsOnward
<1>1. RoundsTypeOK'
  BY <1>0, ShapeStep DEF Shape, RoundsTypeOK, roundsVars, roundVars, inputs
<1>2. /\ call \in [Servers -> Phases] /\ taken \in {"nil", "error", "none"}
      /\ reports \subseteq {"nil", "error"} \X (Servers \cup {None}) /\ acksRecv \in Nat
      /\ timer \in {"running", "read"} /\ done \in BOOLEAN
  BY DEF MasterInv, TypeOK
<1>3. CASE UNCHANGED <<call, taken, reports, acksRecv, done>> /\ timer' \in {"running", "read"}
  <2>1. TypeOK'
    BY <1>1, <1>2, <1>3 DEF TypeOK
  <2> QED
    BY <1>0, <1>3, <2>1 DEF MasterInv, Ended
<1>4. ASSUME NEW s \in Servers, Dial(s) \/ CallAnswered(s) \/ CallFails(s)
      PROVE  MasterInv'
  <2>1. PICK to \in {"calling", "undialled", "answered", "failed"} :
          /\ call' = [call EXCEPT ![s] = to]
          /\ to = "answered" => Returned(s)
          /\ to = "failed" => s \notin up
    BY <1>4 DEF Dial, CallAnswered, CallFails, Goes
  <2>2. /\ call[s] \in {"dial", "calling"}
        /\ UNCHANGED <<roundsVars, taken, reports, acksRecv, timer, done>>
    BY <1>4 DEF Dial, CallAnswered, CallFails, Goes
  <2>3. Ended' = Ended
    BY <1>2, <2>1, <2>2 DEF Ended
  <2>4. TypeOK'
    BY <1>1, <1>2, <2>1, <2>2 DEF TypeOK, Phases
  <2>5. \A t \in Servers : call'[t] \in AtIds <=> call[t] \in AtIds
    BY <1>2, <2>1, <2>2 DEF AtIds
  <2> QED
    BY <1>0, <1>2, <2>1, <2>2, <2>3, <2>4, <2>5 DEF MasterInv
<1>5. ASSUME NEW s \in Servers, TakeErr(s) PROVE MasterInv'
  <2>1. /\ taken = "none" /\ call[s] \in {"answered", "failed"}
        /\ taken' = Error(s) /\ call' = [call EXCEPT ![s] = AtReply(s)]
        /\ UNCHANGED <<roundsVars, reports, acksRecv, timer, done>>
    BY <1>5 DEF TakeErr
  <2>2. /\ AtReply(s) \in AtIds
        /\ Error(s) = (IF AtReply(s) = "naming" THEN "nil" ELSE "error")
        /\ AtReply(s) = "naming" <=> call[s] = "answered"
    BY <2>1 DEF AtReply, Error, AtIds
  <2>3. Ended' = Ended
    BY <1>2, <2>1, <2>2 DEF Ended, AtIds
  <2>4. TypeOK'
    BY <1>1, <1>2, <2>1, <2>2 DEF TypeOK, Phases, Error, AtIds
  <2>5. \A t \in Servers : call[t] \notin AtIds
    BY <2>1 DEF MasterInv
  <2>6. \A t \in Servers : call'[t] = IF t = s THEN AtReply(s) ELSE call[t]
    BY <1>2, <2>1
  <2>7. /\ \A t \in Servers : call'[t] \in {"answered", "naming"} => Returned(t)
        /\ \A t \in Servers : call'[t] \in {"failed", "nameless"} => t \notin up
    BY <2>1, <2>2, <2>6 DEF MasterInv, AtIds
  <2>8. \A t \in Servers : call'[t] \in AtIds => t = s
    BY <2>5, <2>6
  <2>9. /\ \A t, u \in Servers : call'[t] \in AtIds /\ call'[u] \in AtIds => t = u
        /\ taken' # "none" <=> \E t \in Servers : call'[t] \in AtIds
        /\ \A t \in Servers : call'[t] \in AtIds =>
             taken' = (IF call'[t] = "naming" THEN "nil" ELSE "error")
    BY <2>1, <2>2, <2>6, <2>8
  <2>10. \A t \in Servers : call'[t] = "end" => t \notin up \/ <<"nil", t>> \in reports
    BY <2>2, <2>6 DEF MasterInv, AtIds
  <2> QED
    BY <1>0, <2>1, <2>3, <2>4, <2>7, <2>9, <2>10 DEF MasterInv
<1>6. ASSUME NEW s \in Servers, TakeReply(s) PROVE MasterInv'
  <2>1. /\ call[s] \in AtIds /\ call' = [call EXCEPT ![s] = "end"] /\ taken' = "none"
        /\ reports' = reports \cup {<<taken, ReplyId(s)>>} /\ acksRecv' = acksRecv + 1
        /\ done' = (acksRecv + 1 = num_nodes) /\ UNCHANGED <<roundsVars, timer>>
    BY <1>6 DEF TakeReply, AtIds
  <2>2. /\ taken = (IF call[s] = "naming" THEN "nil" ELSE "error")
        /\ ReplyId(s) = (IF call[s] = "naming" THEN s ELSE None)
        /\ call[s] = "naming" => Returned(s)
        /\ call[s] # "naming" => s \notin up
    BY <2>1 DEF MasterInv, ReplyId, AtIds
  <2>3. Ended' = Ended \cup {s} /\ s \notin Ended
    BY <1>2, <2>1 DEF Ended, AtIds
  <2>4. IsFiniteSet(Ended) /\ IsFiniteSet(Ended')
    BY FS_Subset, ServersFinite DEF Ended
  <2>5. acksRecv' = Cardinality(Ended')
    BY <2>1, <2>3, <2>4, FS_AddElement DEF MasterInv
  <2>6. done' <=> Ended' = Servers
    <3>1. Ended' \in SUBSET Servers
      BY DEF Ended
    <3> QED
      BY <1>2, <2>1, <2>5, <3>1, FS_Subset, ServersFinite DEF num_nodes
  <2>7. \A t \in Servers : call'[t] = IF t = s THEN "end" ELSE call[t]
    BY <1>2, <2>1
  <2>8. \A t \in Servers : call'[t] \notin AtIds
    BY <2>1, <2>7 DEF MasterInv, AtIds
  <2>9. /\ \A t \in Servers : call'[t] \in {"answered", "naming"} => Returned(t)
        /\ \A t \in Servers : call'[t] \in {"failed", "nameless"} => t \notin up
    BY <2>7 DEF MasterInv
  <2>10. \A t \in Servers : call'[t] = "end" => t \notin up \/ <<"nil", t>> \in reports'
    BY <2>1, <2>2, <2>7 DEF MasterInv
  <2>11. \A report \in reports' :
           IF report[1] = "nil" THEN report[2] \in Servers /\ Returned(report[2])
           ELSE report[2] = None
    BY <2>1, <2>2 DEF MasterInv
  <2>12. TypeOK'
    <3>1. call' \in [Servers -> Phases]
      BY <1>2, <2>1 DEF Phases
    <3>2. reports' \subseteq {"nil", "error"} \X (Servers \cup {None})
      BY <1>2, <2>1, <2>2
    <3> QED
      BY <1>1, <1>2, <2>1, <3>1, <3>2 DEF TypeOK
  <2> QED
    BY <1>0, <2>1, <2>5, <2>6, <2>8, <2>9, <2>10, <2>11, <2>12 DEF MasterInv
<1>7. CASE UNCHANGED masterVars \/ ReadTimer
  BY <1>2, <1>3, <1>7 DEF masterVars, ReadTimer
<1> QED
  BY <1>4, <1>5, <1>6, <1>7 DEF Next, Progress, Others, vars

\* The inductive invariant of the command.
CommandInv == RoundsInv /\ MasterInv

LEMMA CommandInvariant == Spec => []CommandInv
<1>1. Init => CommandInv
  BY RoundsInvInit, MasterInit DEF Init, CommandInv
<1>2. CommandInv /\ [Next]_vars => CommandInv'
  BY MasterStep, MasterStepIsRoundsStep, RoundsInvStep DEF CommandInv, RoundsInv
<1> QED
  BY <1>1, <1>2, PTL DEF Spec

\* The command keeps its state within its types.
THEOREM TypeCorrect == Spec => []TypeOK
<1>1. CommandInv => TypeOK
  BY DEF CommandInv, MasterInv
<1> QED
  BY <1>1, CommandInvariant, PTL

\* What the collector reports is true, though every goroutine sends its error
\* and its id on the same two channels (master.go:361-395): success names a
\* server that is through its rounds, failure names nobody, and at the end no
\* server in service is left out.
THEOREM ReportsHold == Spec => []ReportsAreTrue
<1>1. CommandInv => ReportsAreTrue
  <2> SUFFICES ASSUME CommandInv PROVE ReportsAreTrue
    OBVIOUS
  <2>1. up \subseteq Servers
    BY DEF CommandInv, MasterInv, TypeOK, RoundsTypeOK
  <2>2. done => \A s \in up : call[s] = "end" /\ s \in Servers
    BY <2>1 DEF CommandInv, MasterInv, Ended
  <2> QED
    BY <2>2 DEF CommandInv, MasterInv, ReportsAreTrue
<1> QED
  BY <1>1, CommandInvariant, PTL

\* "Blocks until all values are able to propagate": when the command ends, and no
\* server has crashed, the flood is complete, whenever the timer fired.
THEOREM EndIsPropagated == Spec => []EndMeansPropagated
<1>1. CommandInv => EndMeansPropagated
  <2> SUFFICES ASSUME CommandInv, done, up = Servers PROVE Flooded
    BY DEF EndMeansPropagated
  <2>1. \A s \in Servers : Returned(s)
    <3> SUFFICES ASSUME NEW s \in Servers PROVE Returned(s)
      OBVIOUS
    <3>1. <<"nil", s>> \in reports
      BY DEF CommandInv, MasterInv, Ended
    <3> QED
      BY <3>1 DEF CommandInv, MasterInv
  <2> QED
    BY <2>1, ReturnedIsFlooded DEF CommandInv
<1> QED
  BY <1>1, CommandInvariant, PTL

----------------------------------------------------------------------------
(* That the command ends, but for the fairness of the scheduler            *)

\* Of some servers, one is in the lowest round.
LEMMA LowestRound ==
  ASSUME Shape, NEW C \in SUBSET Servers, C # {}
  PROVE  \E s \in C : \A t \in C : round[s] <= round[t]
<1> DEFINE R == {round[s] : s \in C}
<1>1. R \subseteq Nat /\ R # {}
  BY DEF Shape, RoundsTypeOK
<1>2. PICK r \in R : \A q \in R : ~(<<q, r>> \in OpToRel(<, Nat))
  BY <1>1, NatLessThanWellFounded, WFMin
<1>3. \A q \in R : r \in Nat /\ q \in Nat /\ ~(q < r)
  BY <1>1, <1>2 DEF OpToRel
<1>4. \A q \in R : r <= q
  BY <1>3
<1> QED
  BY <1>4

\* One goroutine or handler can go on: the server in the lowest round, once all
\* calls between servers are answered, is not held up by those it hears from.
LEMMA SomebodyCanGoOn ==
  ASSUME CommandInv, Servers # {}
  PROVE  NeverStuck
<1> SUFFICES ASSUME ~done, ~Undialled PROVE CanProgress
  BY DEF NeverStuck
<1> USE DEF CommandInv
<1>0. /\ Shape /\ MasterInv /\ Rounds \in Int
      /\ round \in [Servers -> Nat] /\ call \in [Servers -> Phases]
  BY RoundsIsInt DEF RoundsInv, MasterInv, TypeOK, RoundsTypeOK
<1>1. CASE \E s \in Servers : call[s] = "dial"
  BY <1>1 DEF CanProgress
<1>2. CASE taken # "none"
  BY <1>0, <1>2 DEF CanProgress, MasterInv, AtIds
<1>3. CASE taken = "none" /\ \E s \in Servers : call[s] \in {"answered", "failed"}
  BY <1>3 DEF CanProgress
<1>4. CASE \E s \in Servers : sending[s] # None
  BY <1>4 DEF CanProgress
<1>5. CASE \E s \in up : todo[s] # {} /\ sending[s] = None
  BY <1>0, <1>5 DEF CanProgress, Shape, RoundsTypeOK
<1>6. CASE \E s \in Servers : call[s] = "calling" /\ (s \notin up \/ Returned(s))
  BY <1>6 DEF CanProgress
<1>7. CASE /\ \A s \in Servers : /\ call[s] \in {"calling", "end"}
                                 /\ sending[s] = None
                                 /\ s \in up => todo[s] = {}
                                 /\ call[s] = "calling" => s \in up /\ ~Returned(s)
  <2> DEFINE C == {s \in Servers : call[s] = "calling"}
  <2>1. C # {}
    BY <1>0, <1>7 DEF MasterInv, Ended
  <2>2. PICK s \in C : \A t \in C : round[s] <= round[t]
    BY <1>0, <2>1, LowestRound
  <2>3. s \in up /\ sending[s] = None /\ todo[s] = {} /\ ~(round[s] > Rounds)
    BY <1>7, <2>2 DEF Returned
  <2>4. CASE round[s] = 0
    BY <2>2, <2>3, <2>4 DEF CanProgress
  <2>5. CASE round[s] # 0
    <3>1. round[s] \in 1 .. Rounds
      BY <1>0, <2>2, <2>3, <2>5
    <3>2. ASSUME NEW t \in up PROVE Sent(t, round[s])
      <4>1. t \in Servers /\ todo[t] = {} /\ sending[t] = None
        BY <1>0, <1>7 DEF Shape, RoundsTypeOK
      <4>2. CASE call[t] = "calling"
        BY <1>0, <2>2, <4>1, <4>2 DEF Sent
      <4>3. CASE call[t] = "end"
        <5>1. <<"nil", t>> \in reports
          BY <1>0, <4>1, <4>3 DEF MasterInv
        <5>2. Returned(t)
          BY <1>0, <5>1 DEF MasterInv
        <5> QED
          BY <1>0, <3>1, <4>1, <5>2 DEF Returned, Sent
      <4> QED
        BY <1>7, <4>1, <4>2, <4>3
    <3> QED
      BY <2>2, <2>3, <3>1, <3>2 DEF CanProgress
  <2> QED
    BY <2>4, <2>5
<1>8. \A s \in Servers : call[s] \in {"naming", "nameless"} => taken # "none"
  BY <1>0 DEF MasterInv, AtIds
<1>9. \A s \in Servers : call[s] # "undialled"
  BY DEF Undialled
<1> QED
  BY <1>0, <1>1, <1>2, <1>3, <1>4, <1>5, <1>6, <1>7, <1>8, <1>9 DEF Phases

\* For any network and any number of servers, the rounds in step, the goroutines
\* and the collector never wait for each other in a circle (rpc.go:395-430,
\* master.go:361-395), unless a server could not be dialled.
THEOREM CommandNeverStuck ==
  ASSUME Servers # {} PROVE Spec => []NeverStuck
BY SomebodyCanGoOn, CommandInvariant, PTL

\* What there is left to do is a natural number.
LEMMA LeftIsNat ==
  ASSUME NEW c, NEW r \in Nat, NEW next \in SUBSET Servers, NEW sent,
         r <= Rounds + 1
  PROVE  AnswerLeft(c) \in 0 .. 4 /\ RoundsLeft(r, next, sent) \in Nat
<1> DEFINE width == 2 * Cardinality(Servers) + 1
           rest == Rounds + 1 - r
<1>1. AnswerLeft(c) \in 0 .. 4
  BY DEF AnswerLeft
<1>2. width \in Nat /\ rest \in Nat
  BY RoundsIsInt
<1>3. Cardinality(next) \in Nat
  BY ServersFinite, FS_Subset, FS_CardinalityType
<1>4. rest * width \in Nat
  <2> HIDE DEF rest, width
  <2> QED
    BY <1>2
<1> QED
  BY <1>1, <1>3, <1>4 DEF RoundsLeft

\* A round that is over is worth more than the calls of the next.
LEMMA NextRoundIsLess ==
  ASSUME NEW r \in Nat, r + 1 <= Rounds + 1, NEW next \in SUBSET Servers
  PROVE  RoundsLeft(r + 1, next, None) < RoundsLeft(r, {}, None)
<1> DEFINE width == 2 * Cardinality(Servers) + 1
           rest == Rounds + 1 - r
<1>1. Cardinality(Servers) \in Nat /\ rest \in Int /\ Rounds \in Int
  BY RoundsIsInt
<1>2. Cardinality(next) \in Nat /\ Cardinality(next) <= Cardinality(Servers)
  BY ServersFinite, FS_Subset, FS_CardinalityType
<1>3. Cardinality({}) = 0
  BY FS_EmptySet
<1>4. (rest - 1) * width = rest * width - width
  <2>1. width \in Int
    BY <1>1
  <2> HIDE DEF rest, width
  <2> QED
    BY <1>1, <2>1
<1>5. Rounds + 1 - (r + 1) = rest - 1
  BY <1>1
<1>6. rest * width \in Int
  <2>1. width \in Int
    BY <1>1
  <2> HIDE DEF rest, width
  <2> QED
    BY <1>1, <2>1
<1>7. /\ RoundsLeft(r, {}, None) = rest * width
      /\ RoundsLeft(r + 1, next, None) = (rest - 1) * width + 2 * Cardinality(next)
  BY <1>1, <1>2, <1>3, <1>4, <1>5, <1>6 DEF RoundsLeft
<1> HIDE DEF rest
<1> QED
  BY <1>1, <1>2, <1>4, <1>6, <1>7

\* A call that is made, and one that is over, is worth one.
LEMMA CallIsLess ==
  ASSUME NEW r \in Nat, r <= Rounds + 1, NEW next \in SUBSET Servers, NEW sent,
         sent # None
  PROVE  /\ RoundsLeft(r, next, None) < RoundsLeft(r, next, sent)
         /\ \A t \in next :
              RoundsLeft(r, next \ {t}, sent) < RoundsLeft(r, next, None)
<1> DEFINE whole == (Rounds + 1 - r) * (2 * Cardinality(Servers) + 1)
<1>1. whole \in Int
  <2>1. Rounds + 1 - r \in Int /\ 2 * Cardinality(Servers) + 1 \in Int
    BY RoundsIsInt
  <2> QED
    BY <2>1
<1>2. IsFiniteSet(next) /\ Cardinality(next) \in Nat
  BY ServersFinite, FS_Subset, FS_CardinalityType
<1>3. ASSUME NEW t \in next PROVE Cardinality(next \ {t}) = Cardinality(next) - 1
  BY <1>2, FS_RemoveElement
<1>4. /\ RoundsLeft(r, next, None) = whole + 2 * Cardinality(next)
      /\ RoundsLeft(r, next, sent) = whole + 2 * Cardinality(next) + 1
      /\ \A t \in next :
           RoundsLeft(r, next \ {t}, sent) = whole + 2 * Cardinality(next \ {t}) + 1
  <2> HIDE DEF whole
  <2>1. \A todoNow, sentNow : RoundsLeft(r, todoNow, sentNow) =
          whole + 2 * Cardinality(todoNow) + (IF sentNow = None THEN 0 ELSE 1)
    BY DEF RoundsLeft, whole
  <2> QED
    BY <1>1, <1>2, <1>3, <2>1
<1> HIDE DEF whole
<1> QED
  BY <1>1, <1>2, <1>3, <1>4

\* A step of s in the rounds leaves it less to do, and changes nothing of the
\* others but their stores.
LEMMA RoundStepLowers ==
  ASSUME Shape, NEW s \in Servers,
         \/ Begin(s) \/ (\E t \in Servers : SendTo(s, t))
         \/ SendKVData(s) \/ SendFails(s) \/ Tick(s)
  PROVE  /\ RoundsLeft(round'[s], todo'[s], sending'[s])
              < RoundsLeft(round[s], todo[s], sending[s])
         /\ \A t \in Servers \ {s} : /\ round'[t] = round[t] /\ todo'[t] = todo[t]
                                    /\ sending'[t] = sending[t]
<1>1. /\ round \in [Servers -> Nat] /\ todo \in [Servers -> SUBSET Servers]
      /\ sending \in [Servers -> Call \cup {None}]
      /\ peers[s] \in SUBSET Servers /\ Rounds \in Nat
  BY NetworksAssumption, RoundsNat DEF Shape, RoundsTypeOK
<1>2. CASE Begin(s) \/ Tick(s)
  <2> DEFINE next == IF round[s] + 1 <= Rounds THEN peers[s] ELSE {}
  <2>1. /\ round' = [round EXCEPT ![s] = round[s] + 1]
        /\ todo' = [todo EXCEPT ![s] = next] /\ sending' = sending
        /\ round[s] + 1 <= Rounds + 1
        /\ todo[s] = {} /\ sending[s] = None
    BY <1>1, <1>2 DEF Begin, Tick, EnterRound, Shape
  <2>2. next \in SUBSET Servers
    BY <1>1
  <2> HIDE DEF next
  <2> QED
    BY <1>1, <2>1, <2>2, NextRoundIsLess
<1>3. ASSUME NEW t \in Servers, SendTo(s, t)
      PROVE  /\ RoundsLeft(round'[s], todo'[s], sending'[s])
                  < RoundsLeft(round[s], todo[s], sending[s])
             /\ \A p \in Servers \ {s} : /\ round'[p] = round[p] /\ todo'[p] = todo[p]
                                        /\ sending'[p] = sending[p]
  <2> DEFINE msg == [to |-> t, data |-> store[s]]
  <2>1. /\ t \in todo[s] /\ sending[s] = None /\ round' = round
        /\ todo' = [todo EXCEPT ![s] = todo[s] \ {t}]
        /\ sending' = [sending EXCEPT ![s] = msg]
    BY <1>3 DEF SendTo
  <2>2. msg # None
    BY NoneAssumption DEF Call, Shape, RoundsTypeOK
  <2>3. round[s] <= Rounds + 1
    BY <1>1, <2>1 DEF Shape
  <2> HIDE DEF msg
  <2> QED
    BY <1>1, <2>1, <2>2, <2>3, CallIsLess
<1>4. CASE SendKVData(s) \/ SendFails(s)
  <2>1. /\ sending[s] # None /\ round' = round /\ todo' = todo
        /\ sending' = [sending EXCEPT ![s] = None]
    BY <1>4 DEF SendKVData, SendFails
  <2>2. round[s] <= Rounds + 1
    BY <1>1, <2>1 DEF Shape
  <2> QED
    BY <1>1, <2>1, <2>2, CallIsLess
<1> QED
  BY <1>2, <1>3, <1>4

\* So does a step of its goroutine or the collector.
LEMMA AnswerStepLowers ==
  ASSUME TypeOK, NEW s \in Servers,
         Dial(s) \/ CallAnswered(s) \/ CallFails(s) \/ TakeErr(s) \/ TakeReply(s)
  PROVE  /\ AnswerLeft(call'[s]) < AnswerLeft(call[s])
         /\ \A t \in Servers \ {s} : call'[t] = call[t]
         /\ UNCHANGED roundsVars
<1>1. \E from \in Phases, to \in Phases :
        /\ call[s] = from /\ call' = [call EXCEPT ![s] = to]
        /\ AnswerLeft(to) < AnswerLeft(from)
  <2>1. CASE Dial(s)
    BY <2>1 DEF Dial, Goes, AnswerLeft, Phases
  <2>2. CASE CallAnswered(s)
    BY <2>2 DEF CallAnswered, Goes, AnswerLeft, Phases
  <2>3. CASE CallFails(s)
    BY <2>3 DEF CallFails, Goes, AnswerLeft, Phases
  <2>4. CASE TakeErr(s)
    <3>1. /\ call[s] \in {"answered", "failed"} /\ AtReply(s) \in {"naming", "nameless"}
          /\ call' = [call EXCEPT ![s] = AtReply(s)]
      BY <2>4 DEF TakeErr, AtReply
    <3>2. /\ call[s] \in Phases /\ AtReply(s) \in Phases
          /\ AnswerLeft(AtReply(s)) = 1 /\ AnswerLeft(call[s]) = 2
      BY <3>1 DEF AnswerLeft, Phases
    <3>3. AnswerLeft(AtReply(s)) < AnswerLeft(call[s])
      BY <3>2
    <3> QED
      BY <3>1, <3>2, <3>3, Zenon
  <2>5. CASE TakeReply(s)
    BY <2>5 DEF TakeReply, Goes, AnswerLeft, Phases
  <2> QED
    BY <2>1, <2>2, <2>3, <2>4, <2>5
<1>2. UNCHANGED roundsVars
  BY DEF Dial, CallAnswered, CallFails, TakeErr, TakeReply
<1> QED
  BY <1>1, <1>2 DEF TypeOK

LEMMA CommandInvType ==
  ASSUME CommandInv, NEW s \in Servers
  PROVE  /\ round[s] \in Nat /\ round[s] <= Rounds + 1 /\ todo[s] \in SUBSET Servers
         /\ Left(s) \in Nat
<1>1. round[s] \in Nat /\ round[s] <= Rounds + 1 /\ todo[s] \in SUBSET Servers
  BY RoundsNat DEF CommandInv, RoundsInv, Shape, RoundsTypeOK
<1> QED
  BY <1>1, LeftIsNat DEF Left

LEMMA CommandStepAdvances ==
  ASSUME CommandInv, CommandInv', Next
  PROVE  /\ \A s \in Servers : Left(s)' \in Nat /\ Left(s)' <= Left(s)
         /\ (\E s \in Servers : Left(s)' < Left(s)) \/ ~Progress
<1>1. /\ Shape /\ TypeOK
      /\ sending \in [Servers -> Call \cup {None}] /\ call \in [Servers -> Phases]
  BY DEF CommandInv, RoundsInv, MasterInv, Shape, RoundsTypeOK, TypeOK
<1>2. \A s \in Servers : Left(s) \in Nat
  BY CommandInvType
<1>3. ASSUME NEW s \in Servers
      PROVE  /\ AnswerLeft(call[s]) \in Nat /\ AnswerLeft(call'[s]) \in Nat
             /\ RoundsLeft(round[s], todo[s], sending[s]) \in Nat
             /\ RoundsLeft(round'[s], todo'[s], sending'[s]) \in Nat
  <2>1. /\ round[s] \in Nat /\ round[s] <= Rounds + 1 /\ todo[s] \in SUBSET Servers
        /\ round'[s] \in Nat /\ round'[s] <= Rounds + 1 /\ todo'[s] \in SUBSET Servers
    BY RoundsNat DEF CommandInv, RoundsInv, Shape, RoundsTypeOK
  <2> QED
    BY <2>1, LeftIsNat
<1>4. ASSUME NEW s \in Servers,
             /\ AnswerLeft(call'[s]) < AnswerLeft(call[s])
             /\ \A t \in Servers \ {s} : call'[t] = call[t]
             /\ UNCHANGED roundsVars
      PROVE  /\ \A t \in Servers : Left(t)' \in Nat /\ Left(t)' <= Left(t)
             /\ Left(s)' < Left(s)
  BY <1>3, <1>4 DEF Left, roundsVars, roundVars
<1>5. ASSUME NEW s \in Servers, UNCHANGED masterVars,
             /\ RoundsLeft(round'[s], todo'[s], sending'[s])
                  < RoundsLeft(round[s], todo[s], sending[s])
             /\ \A t \in Servers \ {s} : /\ round'[t] = round[t] /\ todo'[t] = todo[t]
                                        /\ sending'[t] = sending[t]
      PROVE  /\ \A t \in Servers : Left(t)' \in Nat /\ Left(t)' <= Left(t)
             /\ Left(s)' < Left(s)
  BY <1>3, <1>5 DEF Left, masterVars
<1>6. CASE Progress
  <2>1. CASE \E s \in Servers : \/ Dial(s) \/ CallAnswered(s) \/ CallFails(s)
                               \/ TakeErr(s) \/ TakeReply(s)
    BY <1>1, <1>4, <2>1, AnswerStepLowers
  <2>2. CASE /\ \E s \in Servers :
                  \/ Begin(s) \/ (\E t \in Servers : SendTo(s, t))
                  \/ SendKVData(s) \/ SendFails(s) \/ Tick(s)
             /\ UNCHANGED masterVars
    BY <1>1, <1>5, <2>2, RoundStepLowers
  <2> QED
    BY <1>6, <2>1, <2>2 DEF Progress
<1>7. CASE Others
  <2>1. ASSUME /\ UNCHANGED <<call, round, todo>>
               /\ \A t \in Servers : sending'[t] \in {sending[t], None}
        PROVE  \A t \in Servers : Left(t)' \in Nat /\ Left(t)' <= Left(t)
    <3> SUFFICES ASSUME NEW t \in Servers PROVE Left(t)' \in Nat /\ Left(t)' <= Left(t)
      OBVIOUS
    <3>1. CASE sending'[t] = sending[t]
      BY <1>3, <2>1, <3>1 DEF Left
    <3>2. CASE sending'[t] = None /\ sending[t] # None
      <4>1. RoundsLeft(round[t], todo[t], None) < RoundsLeft(round[t], todo[t], sending[t])
        BY <3>2, CallIsLess, CommandInvType
      <4> QED
        BY <1>3, <2>1, <3>2, <4>1 DEF Left
    <3> QED
      BY <2>1, <3>1, <3>2
  <2>2. /\ UNCHANGED <<call, round, todo>>
        /\ \A t \in Servers : sending'[t] \in {sending[t], None}
    BY <1>1, <1>7
       DEF Others, ReadTimer, ProcessRemoteWrite, Crash, masterVars, roundsVars, roundVars
  <2>3. \A t \in Servers : Left(t)' \in Nat /\ Left(t)' <= Left(t)
    BY <2>1, <2>2
  <2> QED
    BY <1>6, <2>3
<1> QED
  BY <1>6, <1>7 DEF Next

\* Every step of the servers, goroutines and the collector brings the command
\* nearer to its end, for any network and any crashes (rpc.go:385-432,
\* master.go:361-395): with CommandNeverStuck and fairness, it ends.
THEOREM CommandAlwaysAdvances == Spec => CommandAdvances
<1>1. CommandInv /\ CommandInv' /\ [Next]_vars =>
        [/\ \A s \in Servers : Left(s)' \in Nat /\ Left(s)' <= Left(s)
         /\ (\E s \in Servers : Left(s)' < Left(s)) \/ ~Progress]_vars
  BY CommandStepAdvances
<1> QED
  BY <1>1, CommandInvariant, PTL DEF Spec, CommandAdvances
=============================================================================
