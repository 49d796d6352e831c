-------------------------- MODULE SessionKV_proofs --------------------------
(***************************************************************************)
(* Proofs about SessionKV, for any servers, clients, keys, links, fanout   *)
(* and bounds.                                                             *)
(***************************************************************************)
EXTENDS SessionProps, FiniteSetTheorems, SequenceTheorems, TLAPS

----------------------------------------------------------------------------
(* Timestamps *)

\* Less is a strict order on timestamps, and AtMost the order it comes from.
LEMMA LessOrder ==
  ASSUME NEW u \in Timestamp, NEW v \in Timestamp, NEW w \in Timestamp
  PROVE  /\ ~Less(u, u)
         /\ Less(u, v) /\ Less(v, w) => Less(u, w)
         /\ AtMost(u, v) /\ Less(v, w) => Less(u, w)
         /\ Less(u, v) /\ AtMost(v, w) => Less(u, w)
         /\ AtMost(u, v) /\ AtMost(v, w) => AtMost(u, w)
         /\ AtMost(u, v) /\ AtMost(v, u) => u = v
         /\ ~Less(v, u) <=> AtMost(u, v)
BY DEF Timestamp, Less, AtMost

\* ConditionalIncrement yields a whole number of ticks, one more than the time
\* when the version it must follow is below that.
LEMMA IncrementType ==
  ASSUME NEW time \in Int, NEW pid \in Nat, NEW pivot \in Timestamp
  PROVE  /\ ConditionalIncrement(time, pid, pivot) \in Int
         /\ Less(pivot, <<time + 1, pid>>) =>
              ConditionalIncrement(time, pid, pivot) = time + 1
BY DEF ConditionalIncrement, CeilDifference, Timestamp

\* The time after a heartbeat is above the time before it by at least the
\* length of the list.
LEMMA MergedTime ==
  ASSUME NEW time \in Int, NEW clocks \in Seq(Int), NEW new,
         new \in MergeCandidates(time, clocks), IsMergedTime(new, time, clocks)
  PROVE  new \in Int /\ time <= new
<1>1. Len(clocks) \in Nat /\ \A i \in 1 .. Len(clocks) : clocks[i] \in Int
  BY LenProperties, ElementOfSeq
<1>2. new \in Int
  BY <1>1 DEF MergeCandidates
<1>3. time + Len(clocks) <= new
  BY DEF MergeCandidates, IsMergedTime
<1> QED
  BY <1>1, <1>2, <1>3

----------------------------------------------------------------------------
(* Types *)

LEMMA NoVersionType == NoVersion \in Timestamp
BY DEF NoVersion, Timestamp

LEMMA EntryFields ==
  ASSUME NEW e \in Entry
  PROVE  e.val \in Nat /\ e.ver \in Timestamp
BY DEF Entry

LEMMA PutTypes ==
  ASSUME TypeOK, NEW s \in Servers, NEW k \in Keys, NEW req \in Timestamp
  PROVE  /\ PutClock(s, k, req) \in Int
         /\ PutVersion(s, k, req) \in Timestamp
         /\ PutVersion(s, k, req)[2] = Pid[s]
<1>1. clock[s] \in Int /\ Pid[s] \in Nat /\ store[s][k] \in Entry
  BY PidAssumption DEF TypeOK
<1>2. store[s][k].ver \in Timestamp
  BY <1>1, EntryFields
<1>3. PutClock(s, k, req) \in Int
  <2> DEFINE pivot == IF req = NoVersion THEN store[s][k].ver ELSE req
  <2>1. pivot \in Timestamp
    BY <1>2
  <2>2. ConditionalIncrement(clock[s], Pid[s], pivot) \in Int
    BY <1>1, <2>1, IncrementType
  <2> QED
    BY <1>1, <2>2 DEF PutClock
<1> QED
  BY <1>1, <1>3 DEF PutVersion, Timestamp

\* A value some action may store, and the values a put comes after, are in hist.
LEMMA CausesInHist ==
  ASSUME CodeInv, NEW c \in Clients, NEW s \in Servers, NEW k \in Keys
  PROVE  /\ Causes(c, s, k) \subseteq Writes
         /\ \A i \in Causes(c, s, k) : Past(i) = hist[i].past
<1>1. store[s][k].val # 0 => store[s][k].val \in Writes
  BY DEF CodeInv, NoThinAir, Held, Accepted
<1>2. Causes(c, s, k) \subseteq Writes
  BY <1>1 DEF CodeInv, SessionsInHist, Causes
<1> QED
  BY <1>2 DEF Past, Causes

LEMMA HistType ==
  ASSUME TypeOK
  PROVE  /\ Len(hist) \in Nat
         /\ \A i \in Writes :
              /\ hist[i] \in Write
              /\ hist[i].key \in Keys /\ hist[i].by \in Servers
              /\ hist[i].ver \in Timestamp
              /\ hist[i].past \in SUBSET Nat /\ hist[i].sent \in SUBSET Servers
<1>1. Len(hist) \in Nat /\ \A i \in Writes : hist[i] \in Write
  BY LenProperties, ElementOfSeq DEF TypeOK, Writes
<1> QED
  BY <1>1 DEF Write

\* The record a put adds to hist.
LEMMA PutWriteType ==
  ASSUME CodeInv, NEW c \in Clients, NEW s \in Servers, NEW k \in Keys
  PROVE  [key |-> k, by |-> s, ver |-> PutVersion(s, k, seen[c][k]),
          past |-> Causes(c, s, k) \cup UNION {Past(i) : i \in Causes(c, s, k)},
          sent |-> Reachable(s)] \in Write
<1>1. TypeOK /\ seen[c][k] \in Timestamp
  BY DEF CodeInv, TypeOK
<1>2. PutVersion(s, k, seen[c][k]) \in Timestamp
  BY <1>1, PutTypes
<1>3. Reachable(s) \in SUBSET Servers
  BY DEF Reachable, Peers
<1>4. Writes \subseteq Nat
  BY <1>1, HistType DEF Writes
<1>5. \A i \in Causes(c, s, k) : Past(i) \in SUBSET Nat
  BY <1>1, CausesInHist, HistType
<1>6. Causes(c, s, k) \cup UNION {Past(i) : i \in Causes(c, s, k)} \in SUBSET Nat
  BY <1>4, <1>5, CausesInHist
<1> QED
  BY <1>2, <1>3, <1>6 DEF Write

----------------------------------------------------------------------------
(* What the actions do to the state *)

\* The record PutKVClient(c, s, k) appends to hist, and the entry it stores.
NewWrite(c, s, k) ==
  [key |-> k, by |-> s, ver |-> PutVersion(s, k, seen[c][k]),
   past |-> Causes(c, s, k) \cup UNION {Past(i) : i \in Causes(c, s, k)},
   sent |-> Reachable(s)]
NewEntry(c, s, k) ==
  [val |-> Len(hist) + 1, ver |-> PutVersion(s, k, seen[c][k])]

\* hist is extended at its end, or stays.
HistGrows ==
  /\ Len(hist) \in Nat /\ Len(hist') \in Nat
  /\ Writes \subseteq Writes'
  /\ \A i \in Writes : hist'[i] = hist[i]

\* The effect of a put, with its variables looked up one by one.
LEMMA PutEffect ==
  ASSUME CodeInv, NEW c \in Clients, NEW s \in Servers, NEW k \in Keys,
         PutKVClient(c, s, k)
  PROVE  /\ NewEntry(c, s, k) \in Entry
         /\ NewWrite(c, s, k) \in Write
         /\ hist' \in Seq(Write) /\ Len(hist') = Len(hist) + 1
         /\ Writes' = Writes \cup {Len(hist) + 1}
         /\ Len(hist) + 1 \notin Writes
         /\ hist'[Len(hist) + 1] = NewWrite(c, s, k)
         /\ HistGrows
         /\ clock' \in [Servers -> Int]
         /\ \A t \in Servers : clock'[t] =
              IF t = s THEN PutClock(s, k, seen[c][k]) ELSE clock[t]
         /\ store' \in [Servers -> [Keys -> Entry]]
         /\ \A t \in Servers, j \in Keys : store'[t][j] =
              IF t = s /\ j = k THEN NewEntry(c, s, k) ELSE store[t][j]
         /\ msgs' = msgs \cup {RemoteWrite(s, t, k, NewEntry(c, s, k)) :
                                 t \in Reachable(s)}
         /\ seen' \in [Clients -> [Keys -> Timestamp]]
         /\ own' \in [Clients -> [Keys -> Nat]]
         /\ got' \in [Clients -> [Keys -> Nat]]
         /\ \A d \in Clients, j \in Keys :
              IF d = c /\ j = k
              THEN /\ seen'[d][j] = NewEntry(c, s, k).ver
                   /\ own'[d][j] = Len(hist) + 1
                   /\ got'[d][j] = 0
              ELSE /\ seen'[d][j] = seen[d][j]
                   /\ own'[d][j] = own[d][j]
                   /\ got'[d][j] = got[d][j]
<1> DEFINE e == NewEntry(c, s, k)
           w == NewWrite(c, s, k)
<1>1. TypeOK /\ seen[c][k] \in Timestamp /\ Len(hist) \in Nat
  BY HistType DEF CodeInv, TypeOK
<1>2. PutClock(s, k, seen[c][k]) \in Int /\ e \in Entry /\ e.ver = PutVersion(s, k, seen[c][k])
  BY <1>1, PutTypes DEF Entry, NewEntry
<1>3. w \in Write
  BY PutWriteType DEF NewWrite
<1>4. hist' = Append(hist, w) /\ hist \in Seq(Write)
  BY <1>1 DEF PutKVClient, NewWrite, TypeOK
<1>5. /\ hist' \in Seq(Write) /\ Len(hist') = Len(hist) + 1
      /\ \A i \in Writes : hist'[i] = hist[i]
      /\ hist'[Len(hist) + 1] = w
  BY <1>3, <1>4, AppendProperties DEF Writes
<1>6. /\ Writes' = Writes \cup {Len(hist) + 1}
      /\ Len(hist) + 1 \notin Writes
  BY <1>1, <1>5 DEF Writes
<1>7. HistGrows
  BY <1>1, <1>5, <1>6 DEF HistGrows
<1>8. /\ clock' = [clock EXCEPT ![s] = PutClock(s, k, seen[c][k])]
      /\ store' = [store EXCEPT ![s][k] = e]
      /\ msgs' = msgs \cup {RemoteWrite(s, t, k, e) : t \in Reachable(s)}
      /\ seen' = [seen EXCEPT ![c][k] = e.ver]
      /\ own' = [own EXCEPT ![c][k] = Len(hist) + 1]
      /\ got' = [got EXCEPT ![c][k] = 0]
  BY <1>2 DEF PutKVClient, PutKVServer, NewEntry
<1> HIDE DEF e, w
<1>9. /\ clock' \in [Servers -> Int]
      /\ \A t \in Servers : clock'[t] =
           IF t = s THEN PutClock(s, k, seen[c][k]) ELSE clock[t]
  BY <1>1, <1>2, <1>8 DEF TypeOK
<1>10. /\ store' \in [Servers -> [Keys -> Entry]]
       /\ \A t \in Servers, j \in Keys : store'[t][j] =
              IF t = s /\ j = k THEN e ELSE store[t][j]
  BY <1>1, <1>2, <1>8 DEF TypeOK
<1>11. e.ver \in Timestamp
  BY <1>2, EntryFields
<1>12. /\ seen' \in [Clients -> [Keys -> Timestamp]]
       /\ own' \in [Clients -> [Keys -> Nat]]
       /\ got' \in [Clients -> [Keys -> Nat]]
  BY <1>1, <1>11, <1>8 DEF TypeOK
<1>13. \A d \in Clients, j \in Keys :
         IF d = c /\ j = k
         THEN /\ seen'[d][j] = e.ver
              /\ own'[d][j] = Len(hist) + 1
              /\ got'[d][j] = 0
         ELSE /\ seen'[d][j] = seen[d][j]
              /\ own'[d][j] = own[d][j]
              /\ got'[d][j] = got[d][j]
  BY <1>1, <1>8 DEF TypeOK
<1> QED
  BY <1>2, <1>3, <1>5, <1>6, <1>7, <1>8, <1>9, <1>10, <1>12, <1>13 DEF e, w

\* The effect of a replicated write or a snapshot.
LEMMA MergeEffect ==
  ASSUME CodeInv, NEW m \in msgs, Merge(m.to, m.data)
  PROVE  /\ m \in Message /\ m.to \in Servers
         /\ \A j \in Keys : m.data[j] \in Entry
         /\ store' \in [Servers -> [Keys -> Entry]]
         /\ \A t \in Servers, j \in Keys : store'[t][j] =
              IF t = m.to /\ Replaces(store[t][j], m.data[j])
              THEN m.data[j] ELSE store[t][j]
<1>1. TypeOK /\ store \in [Servers -> [Keys -> Entry]]
  BY DEF CodeInv, TypeOK
<1>2. m \in Message /\ m.to \in Servers /\ m.data \in [Keys -> Entry]
  BY <1>1 DEF TypeOK, Message
<1> DEFINE new == [k \in Keys |->
                    IF Replaces(store[m.to][k], m.data[k])
                    THEN m.data[k] ELSE store[m.to][k]]
<1>3. store' = [store EXCEPT ![m.to] = new]
  BY DEF Merge
<1>4. new \in [Keys -> Entry]
  BY <1>1, <1>2
<1>5. store' \in [Servers -> [Keys -> Entry]]
  BY <1>1, <1>2, <1>3, <1>4
<1>6. \A t \in Servers : store'[t] = IF t = m.to THEN new ELSE store[t]
  BY <1>1, <1>3
<1> QED
  BY <1>2, <1>5, <1>6

----------------------------------------------------------------------------
(* CodeInv is an invariant of the code as it is *)

\* Accepted in the next state, of an entry of this one.
AcceptedAfter(k, e) ==
  e.val \in Writes' /\ hist'[e.val].key = k /\ hist'[e.val].ver = e.ver

LEMMA PutCode ==
  ASSUME CodeInv, NEW c \in Clients, NEW s \in Servers, NEW k \in Keys,
         PutKVClient(c, s, k)
  PROVE  CodeInv'
<1> DEFINE e == NewEntry(c, s, k)
<1>1. TypeOK /\ NoThinAir /\ SessionsInHist
  BY DEF CodeInv
<1>2. AcceptedAfter(k, e) /\ e.val # 0
  <2>1. /\ Len(hist) \in Nat /\ Len(hist) + 1 \in Writes'
        /\ hist'[Len(hist) + 1] = NewWrite(c, s, k)
    BY <1>1, PutEffect, HistType
  <2>2. e.val = Len(hist) + 1 /\ e.ver = NewWrite(c, s, k).ver
    BY DEF NewEntry, NewWrite
  <2>3. NewWrite(c, s, k).key = k
    BY DEF NewWrite
  <2> HIDE DEF e
  <2> QED
    BY <2>1, <2>2, <2>3 DEF AcceptedAfter
<1>3. TypeOK'
  <2>1. UNCHANGED <<blacklist, ticked, beats, conn>>
    BY DEF PutKVClient
  <2>2. \A t \in Reachable(s) : RemoteWrite(s, t, k, e) \in Message
    <3>1. NoEntry \in Entry
      BY NoVersionType DEF NoEntry, Entry
    <3>2. e \in Entry
      BY PutEffect
    <3>3. Reachable(s) \subseteq Servers
      BY DEF Reachable, Peers
    <3> QED
      BY <3>1, <3>2, <3>3 DEF RemoteWrite, Message
  <2>3. msgs' \in SUBSET Message
    BY <1>1, <2>2, PutEffect DEF TypeOK
  <2> QED
    BY <1>1, <2>1, <2>3, PutEffect DEF TypeOK
<1>4. NoThinAir'
  <2>1. ASSUME NEW t \in Servers, NEW j \in Keys, Held(t, j)'
        PROVE  AcceptedAfter(j, store'[t][j])
    <3>1. CASE t = s /\ j = k
      BY <3>1, <1>2, PutEffect
    <3>2. CASE ~(t = s /\ j = k)
      <4>1. store'[t][j] = store[t][j]
        BY <3>2, PutEffect
      <4>2. Accepted(j, store[t][j])
        BY <1>1, <2>1, <4>1 DEF NoThinAir, Held
      <4>3. AcceptedAfter(j, store'[t][j])
        BY <4>1, <4>2, PutEffect DEF HistGrows, Accepted, AcceptedAfter
      <4> QED
        BY <4>3
    <3> QED
      BY <3>1, <3>2
  <2>2. ASSUME NEW m \in msgs', NEW j \in Keys, m.data[j].val # 0
        PROVE  AcceptedAfter(j, m.data[j])
    <3>1. CASE m \in msgs
      <4>1. Accepted(j, m.data[j]) /\ HistGrows
        BY <3>1, <1>1, <2>2, PutEffect DEF NoThinAir
      <4> QED
        BY <4>1 DEF Accepted, AcceptedAfter, HistGrows
    <3>2. CASE m \notin msgs
      <4>1. PICK t \in Reachable(s) : m = RemoteWrite(s, t, k, e)
        BY <3>2, PutEffect
      <4>2. m.data[j] = IF j = k THEN e ELSE NoEntry
        BY <4>1 DEF RemoteWrite
      <4>3. j = k
        BY <2>2, <4>2 DEF NoEntry
      <4> QED
        BY <4>2, <4>3, <1>2
    <3> QED
      BY <3>1, <3>2
  <2> QED
    BY <2>1, <2>2 DEF NoThinAir, Accepted, AcceptedAfter
<1>5. SessionsInHist'
  <2>1. Writes' = Writes \cup {Len(hist) + 1}
    BY PutEffect
  <2>2. ASSUME NEW d \in Clients, NEW j \in Keys
        PROVE  {own'[d][j], got'[d][j]} \subseteq {0} \cup Writes'
    <3>1. {own[d][j], got[d][j]} \subseteq {0} \cup Writes
      BY <1>1 DEF SessionsInHist
    <3>2. \/ own'[d][j] = Len(hist) + 1 /\ got'[d][j] = 0
          \/ own'[d][j] = own[d][j] /\ got'[d][j] = got[d][j]
      BY PutEffect
    <3> QED
      BY <2>1, <3>1, <3>2
  <2> QED
    BY <2>2 DEF SessionsInHist
<1> QED
  BY <1>3, <1>4, <1>5 DEF CodeInv

LEMMA GetCode ==
  ASSUME CodeInv, NEW c \in Clients, NEW s \in Servers, NEW k \in Keys,
         GetKVClient(c, s, k)
  PROVE  CodeInv'
<1>1. TypeOK /\ NoThinAir /\ SessionsInHist
  BY DEF CodeInv
<1>2. UNCHANGED <<store, blacklist, ticked, msgs, beats, conn, hist, own>>
  BY DEF GetKVClient
<1>3. clock' \in [Servers -> Int]
  BY <1>1 DEF GetKVClient, TypeOK
<1>4. store[s][k] \in Entry
  BY <1>1 DEF TypeOK
<1>5. Held(s, k) => store[s][k].val \in Writes
  BY <1>1 DEF NoThinAir, Accepted
<1>6. /\ seen' \in [Clients -> [Keys -> Timestamp]]
      /\ got' \in [Clients -> [Keys -> Nat]]
      /\ \A d \in Clients, j \in Keys : got'[d][j] \in {0} \cup Writes
  <2>1. CASE Served(s, k, seen[c][k])
    <3>1. /\ seen' = [seen EXCEPT ![c][k] = store[s][k].ver]
          /\ got' = [got EXCEPT ![c][k] = store[s][k].val]
      BY <2>1 DEF GetKVClient
    <3>2. Held(s, k) /\ store[s][k].ver \in Timestamp /\ store[s][k].val \in Nat
      BY <2>1, <1>4, EntryFields DEF Served
    <3> QED
      BY <3>1, <3>2, <1>1, <1>5 DEF TypeOK, SessionsInHist
  <2>2. CASE ~Served(s, k, seen[c][k])
    BY <2>2, <1>1 DEF GetKVClient, TypeOK, SessionsInHist
  <2> QED
    BY <2>1, <2>2
<1>7. TypeOK'
  BY <1>1, <1>2, <1>3, <1>6 DEF TypeOK
<1>8. NoThinAir'
  BY <1>1, <1>2 DEF NoThinAir, Held, Accepted, Writes
<1>9. SessionsInHist'
  BY <1>1, <1>2, <1>6 DEF SessionsInHist, Writes
<1> QED
  BY <1>7, <1>8, <1>9 DEF CodeInv

\* ProcessRemoteWrite and SendKVData.
LEMMA MergeCode ==
  ASSUME CodeInv, NEW m \in msgs, Merge(m.to, m.data), msgs' = msgs \ {m},
         UNCHANGED <<clock, blacklist, ticked, beats, clientVars, histVars>>
  PROVE  CodeInv'
<1>1. TypeOK /\ NoThinAir /\ SessionsInHist
  BY DEF CodeInv
<1>2. TypeOK'
  BY <1>1, MergeEffect DEF TypeOK, clientVars, histVars
<1>3. NoThinAir'
  <2>1. ASSUME NEW t \in Servers, NEW j \in Keys, Held(t, j)'
        PROVE  AcceptedAfter(j, store'[t][j])
    <3>1. CASE t = m.to /\ Replaces(store[t][j], m.data[j])
      BY <3>1, <1>1, MergeEffect DEF Replaces, NoThinAir, Accepted, AcceptedAfter, Writes, histVars
    <3>2. CASE ~(t = m.to /\ Replaces(store[t][j], m.data[j]))
      BY <3>2, <1>1, <2>1, MergeEffect DEF Held, NoThinAir, Accepted, AcceptedAfter, Writes, histVars
    <3> QED
      BY <3>1, <3>2
  <2>2. ASSUME NEW n \in msgs', NEW j \in Keys, n.data[j].val # 0
        PROVE  AcceptedAfter(j, n.data[j])
    BY <1>1, <2>2 DEF NoThinAir, Accepted, AcceptedAfter, Writes, histVars
  <2> QED
    BY <2>1, <2>2 DEF NoThinAir, Accepted, AcceptedAfter
<1>4. SessionsInHist'
  BY <1>1 DEF SessionsInHist, Writes, histVars
<1> QED
  BY <1>2, <1>3, <1>4 DEF CodeInv

LEMMA StabilizeCode ==
  ASSUME CodeInv, NEW s \in Servers, NEW t \in Servers, Stabilize(s, t)
  PROVE  CodeInv'
<1> DEFINE m == [type |-> "SendKVData", from |-> s, to |-> t, data |-> store[s]]
<1>1. TypeOK /\ NoThinAir /\ SessionsInHist
  BY DEF CodeInv
<1>2. msgs' = msgs \cup {m} /\ UNCHANGED <<serverVars, beats, clientVars, histVars>>
  BY DEF Stabilize
<1>3. m \in Message
  BY <1>1 DEF TypeOK, Message
<1>4. TypeOK'
  BY <1>1, <1>2, <1>3 DEF TypeOK, serverVars, clientVars, histVars
<1>5. NoThinAir'
  BY <1>1, <1>2 DEF NoThinAir, Held, Accepted, Writes, serverVars, histVars
<1>6. SessionsInHist'
  BY <1>1, <1>2 DEF SessionsInHist, Writes, histVars
<1> QED
  BY <1>4, <1>5, <1>6 DEF CodeInv

\* The list of a heartbeat is a sequence of times.
LEMMA HeartbeatType ==
  ASSUME TypeOK, NEW s \in Servers, NEW order \in SetToSeqs(Peers(s))
  PROVE  <<clock[s]>> \o [i \in 1 .. Len(order) |-> Recorded[s][order[i]]] \in Seq(Int)
<1> DEFINE n == Cardinality(Peers(s))
           rest == [i \in 1 .. Len(order) |-> Recorded[s][order[i]]]
<1>1. n \in Nat
  BY ServersAssumption, FS_Difference, FS_CardinalityType DEF Peers
<1>2. order \in [1 .. n -> Peers(s)]
  BY DEF SetToSeqs
<1>3. Len(order) = n
  BY <1>1, <1>2
<1>4. \A i \in 1 .. n : Recorded[s][order[i]] \in Int
  BY <1>2, RecordedAssumption DEF Peers
<1>5. rest \in [1 .. n -> Int]
  BY <1>3, <1>4
<1>6. rest \in Seq(Int)
  BY <1>1, <1>5
<1>7. <<clock[s]>> \in Seq(Int)
  BY DEF TypeOK
<1> HIDE DEF rest
<1> QED
  BY <1>6, <1>7, ConcatProperties DEF rest

\* The steps that leave the data, the sessions and the replication alone:
\* heartbeats and connections, and stuttering.
Quiet == UNCHANGED <<store, msgs, seen, hist, own, got>>

LEMMA QuietCode ==
  ASSUME CodeInv, Quiet,
         clock' \in [Servers -> Int], blacklist' \in [Servers -> SUBSET Servers],
         ticked' \in SUBSET Servers, beats' \in SUBSET Heartbeat,
         conn' \in [Clients -> SUBSET Servers]
  PROVE  CodeInv'
BY DEF CodeInv, Quiet, TypeOK, NoThinAir, SessionsInHist, Held, Accepted, Writes

LEMMA TickStep ==
  ASSUME CodeInv, NEW s \in Servers, HeartbeatTick(s)
  PROVE  CodeInv' /\ Quiet /\ \A t \in Servers : clock[t] <= clock'[t]
<1>1. TypeOK
  BY DEF CodeInv
<1>2. Quiet /\ UNCHANGED <<blacklist, beats, conn>>
  BY DEF HeartbeatTick, Quiet, netVars, clientVars, histVars
<1>3. /\ clock' \in [Servers -> Int] /\ ticked' \in SUBSET Servers
      /\ \A t \in Servers : clock[t] <= clock'[t]
  BY <1>1 DEF HeartbeatTick, TypeOK
<1> QED
  BY <1>1, <1>2, <1>3, QuietCode DEF TypeOK

LEMMA SendHeartbeatStep ==
  ASSUME CodeInv, NEW s \in Servers, SendHeartbeat(s)
  PROVE  CodeInv' /\ Quiet /\ UNCHANGED clock
<1>1. TypeOK
  BY DEF CodeInv
<1>2. Quiet /\ UNCHANGED <<clock, blacklist, conn>> /\ ticked' \in SUBSET Servers
  BY <1>1 DEF SendHeartbeat, Quiet, clientVars, histVars, TypeOK
<1>3. PICK order \in SetToSeqs(Peers(s)), chosen \in SUBSET Servers :
        beats' = beats \cup
          {[to |-> t,
            clocks |-> <<clock[s]>> \o [i \in 1 .. Len(order) |-> Recorded[s][order[i]]]] :
             t \in chosen \ blacklist[s]}
  BY DEF SendHeartbeat, kSubset, Peers
<1> DEFINE list == <<clock[s]>> \o [i \in 1 .. Len(order) |-> Recorded[s][order[i]]]
<1>4. list \in Seq(Int)
  BY <1>1, HeartbeatType
<1>5. beats' = beats \cup {[to |-> t, clocks |-> list] : t \in chosen \ blacklist[s]}
  BY <1>3
<1> HIDE DEF list
<1>6. beats' \in SUBSET Heartbeat
  BY <1>1, <1>4, <1>5 DEF TypeOK, Heartbeat
<1> QED
  BY <1>1, <1>2, <1>6, QuietCode DEF TypeOK

LEMMA NotificationStep ==
  ASSUME CodeInv, NEW b \in beats, HeartbeatNotification(b)
  PROVE  CodeInv' /\ Quiet /\ \A t \in Servers : clock[t] <= clock'[t]
<1>1. TypeOK /\ b.to \in Servers /\ b.clocks \in Seq(Int)
  BY DEF CodeInv, TypeOK, Heartbeat
<1>2. PICK new \in MergeCandidates(clock[b.to], b.clocks) :
        /\ IsMergedTime(new, clock[b.to], b.clocks)
        /\ clock' = [clock EXCEPT ![b.to] = new]
  BY DEF HeartbeatNotification
<1>3. new \in Int /\ clock[b.to] <= new
  BY <1>1, <1>2, MergedTime DEF TypeOK
<1>4. clock' \in [Servers -> Int] /\ \A t \in Servers : clock[t] <= clock'[t]
  BY <1>1, <1>2, <1>3 DEF TypeOK
<1>5. Quiet /\ UNCHANGED <<blacklist, ticked, conn>> /\ beats' \in SUBSET Heartbeat
  BY <1>1 DEF HeartbeatNotification, Quiet, clientVars, histVars, TypeOK
<1> QED
  BY <1>1, <1>4, <1>5, QuietCode DEF TypeOK

LEMMA ServerLinkStep ==
  ASSUME CodeInv, NEW s \in Servers, NEW t \in Servers,
         ServerBreakConnection(s, t) \/ ServerCreateConnection(s, t)
  PROVE  CodeInv' /\ Quiet /\ UNCHANGED clock
<1>1. TypeOK
  BY DEF CodeInv
<1>2. Quiet /\ UNCHANGED <<clock, ticked, beats, conn>>
  BY DEF ServerBreakConnection, ServerCreateConnection,
         Quiet, netVars, clientVars, histVars
<1>3. \E B \in SUBSET Servers : blacklist' = [blacklist EXCEPT ![s] = B]
  <2>1. blacklist[s] \cup {t} \in SUBSET Servers /\ blacklist[s] \ {t} \in SUBSET Servers
    BY <1>1 DEF TypeOK
  <2> QED
    BY <2>1 DEF ServerBreakConnection, ServerCreateConnection
<1>4. blacklist' \in [Servers -> SUBSET Servers]
  BY <1>1, <1>3 DEF TypeOK
<1> QED
  BY <1>1, <1>2, <1>4, QuietCode DEF TypeOK

LEMMA ClientLinkStep ==
  ASSUME CodeInv, NEW c \in Clients, NEW s \in Servers,
         ClientBreakConnection(c, s) \/ ClientCreateConnection(c, s)
  PROVE  CodeInv' /\ Quiet /\ UNCHANGED clock
<1>1. TypeOK
  BY DEF CodeInv
<1>2. Quiet /\ UNCHANGED <<clock, blacklist, ticked, beats>>
  BY DEF ClientBreakConnection, ClientCreateConnection,
         Quiet, netVars, serverVars, histVars
<1>3. \E C \in SUBSET Servers : conn' = [conn EXCEPT ![c] = C]
  <2>1. conn[c] \cup {s} \in SUBSET Servers /\ conn[c] \ {s} \in SUBSET Servers
    BY <1>1 DEF TypeOK
  <2> QED
    BY <2>1 DEF ClientBreakConnection, ClientCreateConnection
<1>4. conn' \in [Clients -> SUBSET Servers]
  BY <1>1, <1>3 DEF TypeOK
<1> QED
  BY <1>1, <1>2, <1>4, QuietCode DEF TypeOK

LEMMA StutterStep ==
  ASSUME CodeInv, UNCHANGED vars
  PROVE  CodeInv' /\ Quiet /\ UNCHANGED clock
BY QuietCode DEF CodeInv, TypeOK, Quiet, vars, serverVars, netVars, clientVars, histVars

LEMMA InitCode ==
  ASSUME Init
  PROVE  CodeInv
<1>1. hist = << >> /\ Len(hist) = 0 /\ hist \in Seq(Write)
  BY EmptySeq DEF Init
<1>2. NoEntry \in Entry
  BY NoVersionType DEF NoEntry, Entry
<1>3. TypeOK
  BY <1>1, <1>2, NoVersionType DEF Init, TypeOK
<1>4. NoThinAir /\ SessionsInHist
  BY DEF Init, NoThinAir, SessionsInHist, Held, NoEntry
<1> QED
  BY <1>3, <1>4 DEF CodeInv

\* No clock goes back in a step.
ClocksForward == \A s \in Servers : clock[s] <= clock'[s]

\* Every step of the code is a put, or a get, or a merge, or the sending of a
\* snapshot, or quiet with clocks that do not go back.
LEMMA OtherKinds ==
  ASSUME CodeInv, Other \/ UNCHANGED vars
  PROVE  \/ \E c \in Clients, s \in Servers, k \in Keys : GetKVClient(c, s, k)
         \/ \E m \in msgs : /\ Merge(m.to, m.data) /\ msgs' = msgs \ {m}
                            /\ UNCHANGED <<clock, blacklist, ticked, beats,
                                          clientVars, histVars>>
         \/ \E s \in Servers, t \in Servers : Stabilize(s, t)
         \/ CodeInv' /\ Quiet /\ \A t \in Servers : clock[t] <= clock'[t]
<1> DEFINE Calm == CodeInv' /\ Quiet /\ \A t \in Servers : clock[t] <= clock'[t]
<1>0. UNCHANGED clock => \A t \in Servers : clock[t] <= clock'[t]
  BY DEF CodeInv, TypeOK
<1>1. CASE \E m \in msgs : ProcessRemoteWrite(m) \/ SendKVData(m)
  BY <1>1 DEF ProcessRemoteWrite, SendKVData
<1>2. CASE \E s \in Servers : HeartbeatTick(s)
  BY <1>2, TickStep
<1>3. CASE \E s \in Servers : SendHeartbeat(s)
  BY <1>0, <1>3, SendHeartbeatStep
<1>4. CASE \E b \in beats : HeartbeatNotification(b)
  BY <1>4, NotificationStep
<1>5. CASE \E s \in Servers, t \in Servers :
             ServerBreakConnection(s, t) \/ ServerCreateConnection(s, t)
  BY <1>0, <1>5, ServerLinkStep
<1>6. CASE \E c \in Clients, s \in Servers :
             ClientBreakConnection(c, s) \/ ClientCreateConnection(c, s)
  BY <1>0, <1>6, ClientLinkStep
<1>7. CASE UNCHANGED vars
  BY <1>0, <1>7, StutterStep
<1> QED
  BY <1>1, <1>2, <1>3, <1>4, <1>5, <1>6, <1>7 DEF Other

\* CodeInv is inductive.
LEMMA CodeStep ==
  ASSUME CodeInv, [Next]_vars
  PROVE  CodeInv'
<1>1. ASSUME NEW c \in Clients, NEW s \in Servers, NEW k \in Keys, PutKVClient(c, s, k)
      PROVE  CodeInv'
  BY <1>1, PutCode
<1>2. CASE Other \/ UNCHANGED vars
  BY <1>2, OtherKinds, GetCode, MergeCode, StabilizeCode
<1> QED
  BY <1>1, <1>2 DEF Next

\* Every behaviour of the code keeps the types, and no server or message ever
\* holds an entry that is not an accepted put of its key.
THEOREM CodeInvariant == Spec => []CodeInv
<1>1. CodeInv /\ [Next]_vars => CodeInv'
  BY CodeStep
<1> QED
  BY <1>1, InitCode, PTL DEF Spec

\* The types, as a part of that.
THEOREM TypeCorrect == Spec => []TypeOK
<1>1. CodeInv => TypeOK
  BY DEF CodeInv
<1> QED
  BY <1>1, CodeInvariant, PTL

\* And that every entry is an accepted put, as the other part.
THEOREM NothingFromThinAir == Spec => []NoThinAir
<1>1. CodeInv => NoThinAir
  BY DEF CodeInv
<1> QED
  BY <1>1, CodeInvariant, PTL

----------------------------------------------------------------------------
(* What a step of the code as it is may do to a version *)

LEMMA GetEffect ==
  ASSUME CodeInv, NEW c \in Clients, NEW s \in Servers, NEW k \in Keys,
         GetKVClient(c, s, k)
  PROVE  /\ UNCHANGED <<store, msgs, hist, own>>
         /\ \A t \in Servers : clock[t] <= clock'[t]
         /\ \A d \in Clients, j \in Keys :
              \/ seen'[d][j] = seen[d][j] /\ got'[d][j] = got[d][j]
              \/ /\ d = c /\ j = k
                 /\ Held(s, k) /\ AtMost(seen[c][k], store[s][k].ver)
                 /\ seen'[c][k] = store[s][k].ver
                 /\ got'[c][k] = store[s][k].val
<1>1. TypeOK /\ store[s][k] \in Entry /\ seen[c][k] \in Timestamp
  BY DEF CodeInv, TypeOK
<1>2. UNCHANGED <<store, msgs, hist, own>> /\ \A t \in Servers : clock[t] <= clock'[t]
  BY <1>1 DEF GetKVClient, TypeOK
<1>3. CASE Served(s, k, seen[c][k])
  <2>1. Held(s, k) /\ AtMost(seen[c][k], store[s][k].ver)
    BY <1>1, <1>3, EntryFields, LessOrder DEF Served
  <2>2. /\ seen' = [seen EXCEPT ![c][k] = store[s][k].ver]
        /\ got' = [got EXCEPT ![c][k] = store[s][k].val]
    BY <1>3 DEF GetKVClient
  <2> QED
    BY <1>1, <1>2, <2>1, <2>2 DEF TypeOK
<1>4. CASE ~Served(s, k, seen[c][k])
  BY <1>2, <1>4 DEF GetKVClient
<1> QED
  BY <1>3, <1>4

\* A merge never lowers a version.
LEMMA MergeRaises ==
  ASSUME CodeInv, NEW m \in msgs, Merge(m.to, m.data),
         NEW s \in Servers, NEW k \in Keys, Held(s, k)
  PROVE  Held(s, k)' /\ AtMost(store[s][k].ver, store'[s][k].ver)
<1>1. CASE s = m.to /\ Replaces(store[s][k], m.data[k])
  <2>1. store'[s][k] = m.data[k]
    BY <1>1, MergeEffect
  <2> QED
    BY <1>1, <2>1 DEF Replaces, Held, AtMost
<1>2. CASE ~(s = m.to /\ Replaces(store[s][k], m.data[k]))
  <2>1. store'[s][k] = store[s][k]
    BY <1>2, MergeEffect
  <2> QED
    BY <2>1 DEF Held, AtMost
<1> QED
  BY <1>1, <1>2

\* Only a put at the server itself lowers the version a server stores.
THEOREM ReplicationNeverRegresses == Spec => OnlyOwnPutsRegress
<1>1. ASSUME CodeInv, [Next]_vars
      PROVE  RegressesByOwnPut
  <2> SUFFICES ASSUME NEW s \in Servers, NEW k \in Keys, Held(s, k)
               PROVE  \/ AtMost(store[s][k].ver, store'[s][k].ver)
                      \/ Len(hist') > Len(hist) /\ hist'[Len(hist')].by = s
    BY DEF RegressesByOwnPut
  <2>1. ASSUME NEW d \in Clients, NEW t \in Servers, NEW j \in Keys, PutKVClient(d, t, j)
        PROVE  \/ store'[s][k] = store[s][k]
               \/ Len(hist') > Len(hist) /\ hist'[Len(hist')].by = s
    <3>1. CASE s = t /\ k = j
      <4>1. Len(hist) \in Nat /\ Len(hist') = Len(hist) + 1
        BY <1>1, <2>1, PutEffect, HistType DEF CodeInv
      <4>2. hist'[Len(hist) + 1] = NewWrite(d, t, j) /\ NewWrite(d, t, j).by = t
        BY <1>1, <2>1, PutEffect DEF NewWrite
      <4> QED
        BY <3>1, <4>1, <4>2
    <3>2. CASE ~(s = t /\ k = j)
      BY <1>1, <2>1, <3>2, PutEffect
    <3> QED
      BY <3>1, <3>2
  <2>2. CASE Other \/ UNCHANGED vars
    BY <1>1, <2>2, OtherKinds, GetEffect, MergeRaises
       DEF Stabilize, Quiet, serverVars, AtMost
  <2> QED
    BY <1>1, <2>1, <2>2 DEF Next, AtMost
<1>2. CodeInv /\ [Next]_vars => [RegressesByOwnPut]_vars
  BY <1>1
<1> QED
  BY <1>2, CodeInvariant, PTL DEF Spec, OnlyOwnPutsRegress

\* Only a put lowers the version a client keeps.
THEOREM TokenRegress == Spec => TokenRegressesOnlyAtPuts
<1>1. ASSUME CodeInv, [Next]_vars
      PROVE  TokenGrowsUnlessPut
  <2> SUFFICES ASSUME NEW c \in Clients, NEW k \in Keys, own'[c][k] = own[c][k]
               PROVE  AtMost(seen[c][k], seen'[c][k])
    BY DEF TokenGrowsUnlessPut
  <2>1. ASSUME NEW d \in Clients, NEW t \in Servers, NEW j \in Keys, PutKVClient(d, t, j)
        PROVE  seen'[c][k] = seen[c][k]
    <3>1. own[c][k] # Len(hist) + 1
      BY <1>1, <2>1, PutEffect, HistType DEF CodeInv, SessionsInHist
    <3> QED
      BY <1>1, <2>1, <3>1, PutEffect
  <2>2. CASE Other \/ UNCHANGED vars
    <3>1. ASSUME NEW d \in Clients, NEW t \in Servers, NEW j \in Keys, GetKVClient(d, t, j)
          PROVE  \/ seen'[c][k] = seen[c][k]
                 \/ /\ AtMost(seen[c][k], store[t][k].ver)
                    /\ seen'[c][k] = store[t][k].ver
      BY <1>1, <3>1, GetEffect
    <3>2. \/ \E d \in Clients, t \in Servers, j \in Keys : GetKVClient(d, t, j)
          \/ UNCHANGED seen
      BY <1>1, <2>2, OtherKinds DEF Stabilize, Quiet, clientVars
    <3> QED
      BY <3>1, <3>2 DEF AtMost
  <2> QED
    BY <1>1, <2>1, <2>2 DEF Next, AtMost
<1>2. CodeInv /\ [Next]_vars => [TokenGrowsUnlessPut]_vars
  BY <1>1
<1> QED
  BY <1>2, CodeInvariant, PTL DEF Spec, TokenRegressesOnlyAtPuts

LEMMA HistOtherKept ==
  ASSUME CodeInv, Other \/ UNCHANGED vars
  PROVE  UNCHANGED hist
BY OtherKinds DEF GetKVClient, Stabilize, Quiet, histVars

----------------------------------------------------------------------------
(* What a client's version stands for, at any timing *)

\* The version a client keeps for a key is that of its last read, or of its put
\* if it has not read since, and no older than its put.
TokenStands ==
  \A c \in Clients, k \in Keys :
    /\ own[c][k] # 0 => /\ hist[own[c][k]].key = k
                        /\ AtMost(hist[own[c][k]].ver, seen[c][k])
    /\ got[c][k] # 0 => Accepted(k, [val |-> got[c][k], ver |-> seen[c][k]])
    /\ got[c][k] = 0 /\ own[c][k] # 0 => seen[c][k] = hist[own[c][k]].ver
    /\ got[c][k] = 0 /\ own[c][k] = 0 => seen[c][k] = NoVersion

\* A version has the fraction of the server that gave it, and what a put came
\* after are accepted puts of its key.
WritesStand ==
  \A i \in Writes :
    /\ hist[i].ver[2] = Pid[hist[i].by]
    /\ \A j \in hist[i].past : j \in Writes /\ hist[j].key = hist[i].key

TokenInv == CodeInv /\ TokenStands /\ WritesStand

LEMMA PastOfKey ==
  ASSUME TokenInv, NEW c \in Clients, NEW s \in Servers, NEW k \in Keys,
         NEW i \in NewWrite(c, s, k).past
  PROVE  i \in Writes /\ hist[i].key = k
<1>1. CodeInv
  BY DEF TokenInv
<1>2. ASSUME NEW j \in Causes(c, s, k)
      PROVE  j \in Writes /\ hist[j].key = k
  <2>1. j \in Writes
    BY <1>1, CausesInHist
  <2>2. j = store[s][k].val /\ j # 0 => hist[j].key = k
    BY <1>1 DEF Held, CodeInv, NoThinAir, Accepted
  <2>3. j \in {own[c][k], got[c][k]} /\ j # 0 => hist[j].key = k
    BY DEF TokenInv, TokenStands, Accepted
  <2> QED
    BY <2>1, <2>2, <2>3 DEF Causes
<1>3. CASE i \in Causes(c, s, k)
  BY <1>2, <1>3
<1>4. CASE i \notin Causes(c, s, k)
  <2>1. PICK j \in Causes(c, s, k) : i \in hist[j].past
    BY <1>1, <1>4, CausesInHist DEF NewWrite
  <2> QED
    BY <1>2, <2>1 DEF TokenInv, WritesStand
<1> QED
  BY <1>3, <1>4

LEMMA TokenPut ==
  ASSUME TokenInv, NEW c \in Clients, NEW s \in Servers, NEW k \in Keys,
         PutKVClient(c, s, k)
  PROVE  TokenInv'
<1> DEFINE w == NewWrite(c, s, k)
           v == PutVersion(s, k, seen[c][k])
           n == Len(hist) + 1
<1>1. CodeInv /\ TypeOK /\ CodeInv' /\ n # 0 /\ seen[c][k] \in Timestamp
  BY PutCode, HistType DEF TokenInv, CodeInv, TypeOK
<1>2. /\ w.key = k /\ w.by = s /\ w.ver = v /\ NewEntry(c, s, k).ver = v
      /\ v[2] = Pid[s]
  BY <1>1, PutTypes DEF NewWrite, NewEntry
<1>3. /\ hist'[n] = w /\ Writes' = Writes \cup {n} /\ n \notin Writes
      /\ \A i \in Writes : hist'[i] = hist[i]
  BY <1>1, PutEffect DEF HistGrows
<1>4. \A j \in w.past : j \in Writes /\ hist[j].key = k
  BY PastOfKey
<1>5. \A d \in Clients, j \in Keys :
        IF d = c /\ j = k
        THEN seen'[d][j] = v /\ own'[d][j] = n /\ got'[d][j] = 0
        ELSE /\ seen'[d][j] = seen[d][j] /\ own'[d][j] = own[d][j]
             /\ got'[d][j] = got[d][j]
  BY <1>1, <1>2, PutEffect
<1> HIDE DEF w, v, n
<1>6. WritesStand'
  <2> SUFFICES ASSUME NEW i \in Writes'
               PROVE  /\ hist'[i].ver[2] = Pid[hist'[i].by]
                      /\ \A j \in hist'[i].past : /\ j \in Writes'
                                                  /\ hist'[j].key = hist'[i].key
    BY DEF WritesStand
  <2>1. CASE i = n
    BY <1>2, <1>3, <1>4, <2>1
  <2>2. CASE i \in Writes
    BY <1>3, <2>2 DEF TokenInv, WritesStand
  <2> QED
    BY <1>3, <2>1, <2>2
<1>7. TokenStands'
  <2> SUFFICES ASSUME NEW d \in Clients, NEW j \in Keys
               PROVE  /\ own'[d][j] # 0 => /\ hist'[own'[d][j]].key = j
                                           /\ AtMost(hist'[own'[d][j]].ver, seen'[d][j])
                      /\ got'[d][j] # 0 => /\ got'[d][j] \in Writes'
                                           /\ hist'[got'[d][j]].key = j
                                           /\ hist'[got'[d][j]].ver = seen'[d][j]
                      /\ got'[d][j] = 0 /\ own'[d][j] # 0 =>
                           seen'[d][j] = hist'[own'[d][j]].ver
                      /\ got'[d][j] = 0 /\ own'[d][j] = 0 => seen'[d][j] = NoVersion
    BY DEF TokenStands, Accepted, AtMost, Less, NoVersion
  <2>1. CASE d = c /\ j = k
    BY <1>1, <1>2, <1>3, <1>5, <2>1 DEF AtMost
  <2>2. CASE ~(d = c /\ j = k)
    <3>1. seen'[d][j] = seen[d][j] /\ own'[d][j] = own[d][j] /\ got'[d][j] = got[d][j]
      BY <1>5, <2>2
    <3>2. {own[d][j], got[d][j]} \subseteq {0} \cup Writes
      BY <1>1 DEF CodeInv, SessionsInHist
    <3>3. /\ own[d][j] # 0 => hist'[own[d][j]] = hist[own[d][j]]
          /\ got[d][j] # 0 => hist'[got[d][j]] = hist[got[d][j]]
      BY <1>3, <3>2
    <3> QED
      BY <1>3, <3>1, <3>2, <3>3 DEF TokenInv, TokenStands, Accepted
  <2> QED
    BY <2>1, <2>2
<1> QED
  BY <1>1, <1>6, <1>7 DEF TokenInv

LEMMA TokenGet ==
  ASSUME TokenInv, NEW c \in Clients, NEW s \in Servers, NEW k \in Keys,
         GetKVClient(c, s, k)
  PROVE  TokenInv'
<1>1. CodeInv /\ TypeOK /\ CodeInv'
  BY GetCode DEF TokenInv, CodeInv
<1>2. UNCHANGED <<hist, own, Writes>>
  BY <1>1, GetEffect DEF Writes
<1>3. TokenStands'
  <2> SUFFICES ASSUME NEW d \in Clients, NEW j \in Keys
               PROVE  /\ own[d][j] # 0 => /\ hist[own[d][j]].key = j
                                          /\ AtMost(hist[own[d][j]].ver, seen'[d][j])
                      /\ got'[d][j] # 0 => /\ got'[d][j] \in Writes
                                           /\ hist[got'[d][j]].key = j
                                           /\ hist[got'[d][j]].ver = seen'[d][j]
                      /\ got'[d][j] = 0 /\ own[d][j] # 0 =>
                           seen'[d][j] = hist[own[d][j]].ver
                      /\ got'[d][j] = 0 /\ own[d][j] = 0 => seen'[d][j] = NoVersion
    BY <1>2 DEF TokenStands, Accepted, AtMost, Less, NoVersion
  <2>1. CASE seen'[d][j] = seen[d][j] /\ got'[d][j] = got[d][j]
    BY <2>1 DEF TokenInv, TokenStands, Accepted
  <2>2. CASE /\ d = c /\ j = k
             /\ Held(s, k) /\ AtMost(seen[c][k], store[s][k].ver)
             /\ seen'[c][k] = store[s][k].ver
             /\ got'[c][k] = store[s][k].val
    <3>1. Accepted(k, store[s][k]) /\ store[s][k].val # 0
      BY <1>1, <2>2 DEF CodeInv, NoThinAir, Held
    <3>2. own[c][k] # 0 => /\ hist[own[c][k]].key = k
                           /\ AtMost(hist[own[c][k]].ver, store[s][k].ver)
      <4>1. seen[c][k] \in Timestamp /\ store[s][k].ver \in Timestamp
        BY <1>1, EntryFields DEF TypeOK
      <4>2. own[c][k] # 0 => own[c][k] \in Writes
        BY <1>1 DEF CodeInv, SessionsInHist
      <4>3. own[c][k] # 0 => /\ hist[own[c][k]].ver \in Timestamp
                             /\ hist[own[c][k]].key = k
                             /\ AtMost(hist[own[c][k]].ver, seen[c][k])
        BY <1>1, <4>2, HistType DEF TokenInv, TokenStands
      <4> QED
        BY <2>2, <4>1, <4>3, LessOrder
    <3> QED
      BY <2>2, <3>1, <3>2 DEF Accepted
  <2> QED
    BY <1>1, <2>1, <2>2, GetEffect
<1>4. WritesStand'
  BY <1>2 DEF TokenInv, WritesStand
<1> QED
  BY <1>1, <1>3, <1>4 DEF TokenInv

\* Every behaviour of the code keeps TokenInv.
LEMMA TokenStep ==
  ASSUME TokenInv, [Next]_vars
  PROVE  TokenInv'
<1>1. CodeInv /\ CodeInv'
  BY CodeStep DEF TokenInv
<1>2. ASSUME NEW c \in Clients, NEW s \in Servers, NEW k \in Keys, PutKVClient(c, s, k)
      PROVE  TokenInv'
  BY <1>2, TokenPut
<1>3. CASE Other \/ UNCHANGED vars
  <2>1. ASSUME NEW c \in Clients, NEW s \in Servers, NEW k \in Keys, GetKVClient(c, s, k)
        PROVE  TokenInv'
    BY <2>1, TokenGet
  <2>2. ASSUME UNCHANGED <<hist, seen, own, got>>
        PROVE  TokenInv'
    BY <1>1, <2>2 DEF TokenInv, TokenStands, WritesStand, Accepted, Writes
  <2> QED
    BY <1>1, <1>3, <2>1, <2>2, OtherKinds DEF Stabilize, Quiet, clientVars, histVars
<1> QED
  BY <1>2, <1>3 DEF Next

LEMMA InitToken ==
  ASSUME Init
  PROVE  TokenInv
<1>1. CodeInv /\ Writes = {}
  BY InitCode DEF Init, Writes
<1>2. TokenStands
  BY DEF Init, TokenStands
<1> QED
  BY <1>1, <1>2 DEF TokenInv, WritesStand

LEMMA TokenInvariant == Spec => []TokenInv
<1>1. TokenInv /\ [Next]_vars => TokenInv'
  BY TokenStep
<1> QED
  BY <1>1, InitToken, PTL DEF Spec

\* At any timing, a client reads a value that its last put came after only if
\* that put went back.
THEOREM OwnReadsHold == Spec => []ReadsOwnUnlessBack
<1>1. ASSUME TokenInv
      PROVE  ReadsOwnUnlessBack
  <2> SUFFICES ASSUME NEW c \in Clients, NEW k \in Keys,
                      got[c][k] \in Past(own[c][k])
               PROVE  PutBack(own[c][k])
    BY DEF ReadsOwnUnlessBack
  <2> DEFINE g == got[c][k]
             o == own[c][k]
  <2>1. CodeInv /\ TypeOK
    BY <1>1 DEF TokenInv, CodeInv
  <2>2. o # 0 /\ g \in hist[o].past
    BY DEF Past
  <2>3. o \in Writes /\ AtMost(hist[o].ver, seen[c][k])
    BY <1>1, <2>1, <2>2 DEF CodeInv, SessionsInHist, TokenInv, TokenStands
  <2>4. g \in Writes /\ g # 0
    BY <1>1, <2>1, <2>2, <2>3, HistType DEF TokenInv, WritesStand, Writes
  <2>5. hist[g].ver = seen[c][k]
    BY <1>1, <2>4 DEF TokenInv, TokenStands, Accepted
  <2>6. hist[g].ver \in Timestamp /\ hist[o].ver \in Timestamp
    BY <2>1, <2>3, <2>4, HistType
  <2>7. ~Less(hist[g].ver, hist[o].ver)
    BY <2>3, <2>5, <2>6, LessOrder
  <2> QED
    BY <2>2, <2>7 DEF PutBack
<1> QED
  BY <1>1, TokenInvariant, PTL

\* A put whose past the clock's next tick passes is given a version above that
\* past, and moves the clock on.
LEMMA AheadPut ==
  ASSUME \A t \in Servers : Pid[t] # 0, TokenInv,
         NEW c \in Clients, NEW s \in Servers, NEW k \in Keys,
         \A j \in NewWrite(c, s, k).past : Less(hist[j].ver, <<clock[s] + 1, Pid[s]>>)
  PROVE  /\ PutClock(s, k, seen[c][k]) = clock[s] + 1
         /\ \A j \in NewWrite(c, s, k).past :
              Less(hist[j].ver, PutVersion(s, k, seen[c][k]))
<1> DEFINE past == NewWrite(c, s, k).past
<1>1. /\ CodeInv /\ TypeOK /\ clock[s] \in Int /\ Pid[s] \in Nat
      /\ seen[c][k] \in Timestamp /\ store[s][k] \in Entry
  BY PidAssumption DEF TokenInv, CodeInv, TypeOK
<1>2. Causes(c, s, k) \subseteq past
  BY DEF NewWrite
<1>3. CASE ~Held(s, k) /\ seen[c][k] = NoVersion
  <2>1. ASSUME NEW i \in Writes, hist[i].ver = NoVersion
        PROVE  FALSE
    <3>1. hist[i].by \in Servers /\ hist[i].ver[2] = Pid[hist[i].by]
      BY <1>1, HistType DEF TokenInv, WritesStand
    <3> QED
      BY <2>1, <3>1 DEF NoVersion
  <2>2. got[c][k] = 0
    BY <1>3, <2>1 DEF TokenInv, TokenStands, Accepted
  <2>3. own[c][k] = 0
    BY <1>1, <1>3, <2>1, <2>2 DEF TokenInv, TokenStands, CodeInv, SessionsInHist
  <2>4. Causes(c, s, k) = {}
    BY <1>3, <2>2, <2>3 DEF Causes, Held
  <2> QED
    BY <1>3, <2>4 DEF PutClock, NewWrite
<1>4. CASE ~(~Held(s, k) /\ seen[c][k] = NoVersion)
  <2> DEFINE pivot == IF seen[c][k] = NoVersion THEN store[s][k].ver ELSE seen[c][k]
  <2>1. PICK j \in past : hist[j].ver = pivot
    <3>1. CASE seen[c][k] = NoVersion
      <4>1. store[s][k].val \in past /\ hist[store[s][k].val].ver = store[s][k].ver
        BY <1>1, <1>2, <1>4, <3>1 DEF Causes, Held, CodeInv, NoThinAir, Accepted
      <4> QED
        BY <3>1, <4>1
    <3>2. CASE seen[c][k] # NoVersion /\ got[c][k] # 0
      <4>1. got[c][k] \in past /\ hist[got[c][k]].ver = seen[c][k]
        BY <1>2, <3>2 DEF Causes, TokenInv, TokenStands, Accepted
      <4> QED
        BY <3>2, <4>1
    <3>3. CASE seen[c][k] # NoVersion /\ got[c][k] = 0
      <4>1. own[c][k] \in past /\ hist[own[c][k]].ver = seen[c][k]
        BY <1>2, <3>3 DEF Causes, TokenInv, TokenStands
      <4> QED
        BY <3>3, <4>1
    <3> QED
      BY <3>1, <3>2, <3>3
  <2>2. pivot \in Timestamp /\ Less(pivot, <<clock[s] + 1, Pid[s]>>)
    BY <1>1, <2>1, EntryFields
  <2>3. PutClock(s, k, seen[c][k]) = ConditionalIncrement(clock[s], Pid[s], pivot)
    BY <1>4 DEF PutClock
  <2> HIDE DEF pivot
  <2>4. PutClock(s, k, seen[c][k]) = clock[s] + 1
    BY <1>1, <2>2, <2>3, IncrementType
  <2> QED
    BY <1>4, <2>4 DEF PutVersion
<1> QED
  BY <1>3, <1>4

\* With no fraction zero, no clock and no put goes back, at any timing, but by a
\* put at a server whose clock is behind what the put came after.
THEOREM BackMeansBehind ==
  ASSUME \A t \in Servers : Pid[t] # 0
  PROVE  Spec => BackOnlyBehind
<1>1. ASSUME TokenInv, [Next]_vars
      PROVE  ForwardUnlessBehind
  <2>1. CodeInv /\ TypeOK /\ Len(hist) \in Nat
    BY <1>1, HistType DEF TokenInv, CodeInv
  <2>2. ASSUME NEW c \in Clients, NEW s \in Servers, NEW k \in Keys, PutKVClient(c, s, k),
               NEW t \in Servers, ~PutBehind(t)
        PROVE  clock[t] <= clock'[t] /\ (NewPutAt(t) => ~PutBack(Len(hist))')
    <3> DEFINE w == NewWrite(c, s, k)
               v == PutVersion(s, k, seen[c][k])
    <3>1. /\ Len(hist') = Len(hist) + 1 /\ hist'[Len(hist')] = w
          /\ w.by = s /\ w.ver = v
          /\ \A i \in Writes : hist'[i] = hist[i]
          /\ \A u \in Servers :
               clock'[u] = IF u = s THEN PutClock(s, k, seen[c][k]) ELSE clock[u]
      BY <2>1, <2>2, PutEffect DEF HistGrows, NewWrite
    <3>2. \A j \in w.past : j \in Writes
      BY <1>1, PastOfKey
    <3> HIDE DEF w, v
    <3>3. CASE t # s
      <4>1. clock'[t] = clock[t] /\ clock[t] \in Int /\ ~NewPutAt(t)
        BY <2>1, <3>1, <3>3 DEF TypeOK, NewPutAt
      <4> QED
        BY <4>1
    <3>4. CASE t = s
      <4>1. \A j \in w.past : Less(hist[j].ver, <<clock[s] + 1, Pid[s]>>)
        BY <2>1, <2>2, <3>1, <3>4 DEF PutBehind, NewPutAt
      <4>2. /\ PutClock(s, k, seen[c][k]) = clock[s] + 1
            /\ \A j \in w.past : Less(hist[j].ver, v)
        BY <1>1, <4>1, AheadPut DEF w, v
      <4>3. clock'[s] = clock[s] + 1 /\ clock[s] \in Int
        BY <2>1, <3>1, <4>2 DEF TypeOK
      <4>4. \A j \in w.past : Less(hist'[j].ver, v)
        BY <3>1, <3>2, <4>2
      <4>5. ~PutBack(Len(hist))'
        BY <3>1, <4>4 DEF PutBack, Less
      <4> QED
        BY <3>4, <4>3, <4>5
    <3> QED
      BY <3>3, <3>4
  <2>3. CASE Other \/ UNCHANGED vars
    <3>1. UNCHANGED hist
      BY <2>1, <2>3, HistOtherKept
    <3>2. UNCHANGED clock => \A t \in Servers : clock[t] <= clock'[t]
      BY <2>1 DEF TypeOK
    <3>3. \A t \in Servers : clock[t] <= clock'[t]
      BY <2>1, <2>3, <3>2, OtherKinds, GetEffect DEF Stabilize, serverVars
    <3> QED
      BY <2>1, <3>1, <3>3 DEF ForwardUnlessBehind, NewPutAt
  <2> QED
    BY <1>1, <2>2, <2>3 DEF Next, ForwardUnlessBehind
<1>2. TokenInv /\ [Next]_vars => [ForwardUnlessBehind]_vars
  BY <1>1
<1> QED
  BY <1>2, TokenInvariant, PTL DEF Spec, BackOnlyBehind

----------------------------------------------------------------------------
(* Replicated writes arrive, at any timing, while no put of the key went back *)

\* What a server covers it goes on covering.
LEMMA CoversKept ==
  ASSUME CodeInv, CodeInv', HistGrows,
         NEW t \in Servers, NEW i \in Writes, Covers(t, i),
         Held(t, hist[i].key) => /\ store'[t][hist[i].key].val # 0
                                 /\ AtMost(store[t][hist[i].key].ver,
                                           store'[t][hist[i].key].ver)
  PROVE  Covers(t, i)'
<1> DEFINE k == hist[i].key
<1>1. /\ hist[i].ver \in Timestamp /\ k \in Keys
      /\ hist'[i] = hist[i] /\ i \in Writes'
  BY HistType DEF CodeInv, HistGrows
<1>2. store[t][k].ver \in Timestamp /\ store'[t][k].ver \in Timestamp
  BY <1>1, EntryFields DEF CodeInv, TypeOK
<1>3. /\ store'[t][k].val # 0
      /\ AtMost(hist[i].ver, store[t][k].ver)
      /\ AtMost(store[t][k].ver, store'[t][k].ver)
  BY DEF Covers, Held
<1>4. AtMost(hist[i].ver, store'[t][k].ver)
  BY <1>1, <1>2, <1>3, LessOrder
<1> QED
  BY <1>1, <1>3, <1>4 DEF Covers, Held, AtMost, Less

\* A merge answers the message it takes: the server covers what it carried.
LEMMA MergeCovers ==
  ASSUME CodeInv, NEW m \in msgs, Merge(m.to, m.data), UNCHANGED hist,
         NEW i \in Writes, m.data[hist[i].key].val = i
  PROVE  Covers(m.to, i)'
<1> DEFINE k == hist[i].key
<1>1. /\ k \in Keys /\ hist[i].ver \in Timestamp /\ i # 0
      /\ m.to \in Servers /\ m.data[k] \in Entry
      /\ store[m.to][k] \in Entry
  BY HistType, MergeEffect DEF CodeInv, TypeOK, Writes
<1>2. m.data[k].val = i /\ m.data[k].ver = hist[i].ver
  BY <1>1 DEF CodeInv, NoThinAir, Accepted
<1>3. CASE Replaces(store[m.to][k], m.data[k])
  <2>1. store'[m.to][k] = m.data[k]
    BY <1>1, <1>3, MergeEffect
  <2> QED
    BY <1>1, <1>2, <2>1 DEF Covers, Held, AtMost
<1>4. CASE ~Replaces(store[m.to][k], m.data[k])
  <2>1. store'[m.to][k] = store[m.to][k]
    BY <1>1, <1>4, MergeEffect
  <2>2. store[m.to][k].val # 0 /\ ~Less(store[m.to][k].ver, hist[i].ver)
    BY <1>1, <1>2, <1>4 DEF Replaces
  <2>3. AtMost(hist[i].ver, store[m.to][k].ver)
    BY <1>1, <2>2, EntryFields, LessOrder
  <2> QED
    BY <2>1, <2>2, <2>3 DEF Covers, Held, AtMost, Less
<1> QED
  BY <1>3, <1>4

\* Of one key: a write is held, or a newer one, where it was taken, and a server
\* it was sent to holds it, or a newer one, or the call is in flight.
DeliveredOf(k) ==
  \A i \in Writes : hist[i].key = k =>
    /\ Covers(hist[i].by, i)
    /\ \A t \in Servers : Addressed(t, i) => Covers(t, i) \/ Pending(t, i)

VersionsDifferOf(k) ==
  \A i, j \in Writes :
    hist[i].key = k /\ hist[j].key = k /\ hist[i].ver = hist[j].ver => i = j

KeyInv ==
  /\ TokenInv /\ AbsentIsEmpty
  /\ \A k \in Keys : NoneBack(k) => DeliveredOf(k)

VersionsInv == \A k \in Keys : NoneBack(k) => VersionsDifferOf(k)

\* If no put of a key has gone back after a put, the put is above the entry it
\* overwrites, and none had gone back before.
LEMMA NoneBackPut ==
  ASSUME TokenInv, NEW c \in Clients, NEW s \in Servers, NEW k \in Keys,
         PutKVClient(c, s, k), NEW q \in Keys, NoneBack(q)'
  PROVE  /\ NoneBack(q)
         /\ q = k /\ Held(s, k) =>
              Less(store[s][k].ver, PutVersion(s, k, seen[c][k]))
<1> DEFINE w == NewWrite(c, s, k)
           v == PutVersion(s, k, seen[c][k])
           n == Len(hist) + 1
<1>1. CodeInv
  BY DEF TokenInv
<1>2. w.key = k /\ w.ver = v /\ Causes(c, s, k) \subseteq w.past
  BY DEF NewWrite
<1>3. /\ hist'[n] = w /\ Writes' = Writes \cup {n}
      /\ \A i \in Writes : hist'[i] = hist[i]
  BY <1>1, PutEffect DEF HistGrows
<1>4. \A i \in Writes' : hist'[i].key = q =>
        \A j \in hist'[i].past : Less(hist'[j].ver, hist'[i].ver)
  BY DEF NoneBack, PutBack, Less
<1> HIDE DEF w, v, n
<1>5. NoneBack(q)
  <2> SUFFICES ASSUME NEW i \in Writes, hist[i].key = q, NEW j \in hist[i].past
               PROVE  Less(hist[j].ver, hist[i].ver)
    BY DEF NoneBack, PutBack
  <2>1. j \in Writes
    BY DEF TokenInv, WritesStand
  <2> QED
    BY <1>3, <1>4, <2>1
<1>6. ASSUME q = k, Held(s, k)
      PROVE  Less(store[s][k].ver, v)
  <2> DEFINE j == store[s][k].val
  <2>1. j \in w.past /\ j \in Writes /\ hist[j].ver = store[s][k].ver
    BY <1>1, <1>2, <1>6 DEF Causes, Held, CodeInv, NoThinAir, Accepted
  <2>2. hist'[j] = hist[j] /\ n \in Writes' /\ hist'[n].key = q
    BY <1>2, <1>3, <1>6, <2>1
  <2>3. Less(hist'[j].ver, w.ver)
    BY <1>3, <1>4, <2>1, <2>2
  <2> QED
    BY <1>2, <2>1, <2>2, <2>3
<1> QED
  BY <1>5, <1>6 DEF v

LEMMA KeyPut ==
  ASSUME KeyInv, NEW c \in Clients, NEW s \in Servers, NEW k \in Keys,
         PutKVClient(c, s, k)
  PROVE  KeyInv'
<1> DEFINE e == NewEntry(c, s, k)
           w == NewWrite(c, s, k)
           v == PutVersion(s, k, seen[c][k])
           n == Len(hist) + 1
<1>1. /\ TokenInv /\ CodeInv /\ TypeOK /\ Len(hist) \in Nat
      /\ TokenInv' /\ CodeInv'
  BY TokenPut, HistType DEF KeyInv, TokenInv, CodeInv
<1>2. w.key = k /\ w.by = s /\ w.ver = v /\ w.sent = Reachable(s)
  BY DEF NewWrite
<1>3. e.val = n /\ e.val # 0 /\ e.ver = v
  BY <1>1 DEF NewEntry
<1>4. /\ hist'[n] = w /\ Writes' = Writes \cup {n} /\ n \notin Writes
      /\ HistGrows
      /\ \A i \in Writes : hist'[i] = hist[i]
  BY <1>1, PutEffect DEF HistGrows
<1>5. /\ \A t \in Servers, j \in Keys :
           store'[t][j] = IF t = s /\ j = k THEN e ELSE store[t][j]
      /\ msgs' = msgs \cup {RemoteWrite(s, t, k, e) : t \in Reachable(s)}
  BY <1>1, PutEffect
<1> HIDE DEF e, w, v, n
<1>6. AbsentIsEmpty'
  BY <1>3, <1>5 DEF KeyInv, AbsentIsEmpty, Held
<1>7. ASSUME NEW q \in Keys, NoneBack(q)',
             NEW i \in Writes', hist'[i].key = q, NEW t \in Servers,
             t = hist'[i].by \/ t \in hist'[i].sent
      PROVE  /\ Covers(t, i)' \/ Pending(t, i)'
             /\ t = hist'[i].by => Covers(t, i)'
  <2>1. NoneBack(q) /\ (q = k /\ Held(s, k) => Less(store[s][k].ver, v))
    BY <1>1, <1>7, NoneBackPut DEF v
  <2>2. CASE i = n /\ t = s
    <3>1. hist'[i].key = k /\ hist'[i].ver = v /\ store'[t][k] = e
      BY <1>2, <1>4, <1>5, <2>2
    <3> QED
      BY <1>3, <3>1 DEF Covers, Held, AtMost
  <2>3. CASE i = n /\ t # s
    <3> DEFINE m == RemoteWrite(s, t, k, e)
    <3>1. t \in Reachable(s) /\ hist'[i].key = k /\ t # hist'[i].by
      BY <1>2, <1>4, <1>7, <2>3
    <3>2. m \in msgs'
      BY <1>5, <3>1
    <3>3. m.type = "ProcessRemoteWrite" /\ m.to = t /\ m.data[k].val = n
      BY <1>3 DEF RemoteWrite
    <3> QED
      BY <2>3, <3>1, <3>2, <3>3 DEF Pending
  <2>4. CASE i \in Writes
    <3>1. hist[i].key = q /\ hist'[i] = hist[i] /\ Addressed(t, i)
      BY <1>4, <1>7, <2>4 DEF Addressed
    <3>2. (Covers(t, i) \/ Pending(t, i)) /\ (t = hist[i].by => Covers(t, i))
      BY <2>1, <2>4, <3>1 DEF KeyInv, DeliveredOf
    <3>3. ASSUME Pending(t, i)
          PROVE  Pending(t, i)'
      BY <1>4, <1>5, <2>4, <3>3 DEF Pending
    <3>4. ASSUME Covers(t, i)
          PROVE  Covers(t, i)'
      <4>1. Held(t, q) => /\ store'[t][q].val # 0
                          /\ AtMost(store[t][q].ver, store'[t][q].ver)
        BY <1>3, <1>5, <2>1 DEF Held, AtMost
      <4> QED
        BY <1>1, <1>4, <2>4, <3>1, <3>4, <4>1, CoversKept
    <3> QED
      BY <3>1, <3>2, <3>3, <3>4
  <2> QED
    BY <1>4, <2>2, <2>3, <2>4
<1>8. ASSUME NEW q \in Keys, NoneBack(q)'
      PROVE  DeliveredOf(q)'
  <2>1. \A i \in Writes' : hist'[i].by \in Servers
    <3>1. \A i \in Writes : hist[i].by \in Servers
      BY <1>1, HistType
    <3> QED
      BY <1>2, <1>4, <3>1
  <2> QED
    BY <1>7, <1>8, <2>1 DEF DeliveredOf, Addressed
<1> QED
  BY <1>1, <1>6, <1>8 DEF KeyInv

LEMMA KeyMerge ==
  ASSUME KeyInv, NEW m \in msgs, Merge(m.to, m.data), msgs' = msgs \ {m},
         UNCHANGED <<clock, blacklist, ticked, beats, clientVars, histVars>>,
         TokenInv'
  PROVE  KeyInv'
<1>1. CodeInv /\ CodeInv' /\ TypeOK
  BY DEF KeyInv, TokenInv, CodeInv
<1>2. UNCHANGED hist /\ UNCHANGED Writes /\ HistGrows
  BY <1>1, HistType DEF histVars, Writes, HistGrows
<1>3. AbsentIsEmpty'
  <2> SUFFICES ASSUME NEW t \in Servers, NEW j \in Keys
               PROVE  store'[t][j].val # 0 \/ store'[t][j] = NoEntry
    BY DEF AbsentIsEmpty, Held
  <2>1. CASE t = m.to /\ Replaces(store[t][j], m.data[j])
    BY <1>1, <2>1, MergeEffect DEF Replaces
  <2>2. CASE ~(t = m.to /\ Replaces(store[t][j], m.data[j]))
    BY <1>1, <2>2, MergeEffect DEF KeyInv, AbsentIsEmpty, Held
  <2> QED
    BY <2>1, <2>2
<1>4. ASSUME NEW i \in Writes, NEW t \in Servers, Covers(t, i)
      PROVE  Covers(t, i)'
  <2> DEFINE j == hist[i].key
  <2>1. j \in Keys
    BY <1>1, HistType
  <2>2. Held(t, j) => /\ store'[t][j].val # 0
                      /\ AtMost(store[t][j].ver, store'[t][j].ver)
    BY <1>1, <2>1, MergeRaises DEF Held
  <2> QED
    BY <1>1, <1>2, <1>4, <2>2, CoversKept
<1>5. ASSUME NEW i \in Writes, NEW t \in Servers, Pending(t, i)
      PROVE  Covers(t, i)' \/ Pending(t, i)'
  <2>1. PICK n \in msgs : /\ n.type = "ProcessRemoteWrite" /\ n.to = t
                          /\ n.data[hist[i].key].val = i
    BY <1>5 DEF Pending
  <2>2. CASE n = m
    BY <1>1, <1>2, <2>1, <2>2, MergeCovers
  <2>3. CASE n # m
    BY <1>2, <2>1, <2>3 DEF Pending
  <2> QED
    BY <2>2, <2>3
<1>6. ASSUME NEW q \in Keys, NoneBack(q)'
      PROVE  DeliveredOf(q)'
  <2>1. NoneBack(q)
    BY <1>2, <1>6 DEF NoneBack, PutBack
  <2>2. DeliveredOf(q) /\ \A i \in Writes : hist[i].by \in Servers
    BY <1>1, <2>1, HistType DEF KeyInv
  <2>3. ASSUME NEW i \in Writes, hist[i].key = q
        PROVE  /\ Covers(hist[i].by, i)'
               /\ \A t \in Servers : Addressed(t, i) => Covers(t, i)' \/ Pending(t, i)'
    <3>1. /\ hist[i].by \in Servers /\ Covers(hist[i].by, i)
          /\ \A t \in Servers : Addressed(t, i) => Covers(t, i) \/ Pending(t, i)
      BY <2>2, <2>3 DEF DeliveredOf
    <3>2. Covers(hist[i].by, i)'
      BY <1>2, <1>4, <3>1 DEF Covers, Held, AtMost, Less
    <3>3. ASSUME NEW t \in Servers, Addressed(t, i)
          PROVE  Covers(t, i)' \/ Pending(t, i)'
      BY <1>4, <1>5, <3>1, <3>3
    <3> QED
      BY <3>2, <3>3
  <2>4. \A t \in Servers, i \in Writes : Addressed(t, i)' <=> Addressed(t, i)
    BY <1>2 DEF Addressed
  <2> QED
    BY <1>2, <2>3, <2>4 DEF DeliveredOf, Covers, Held, AtMost, Less
<1> QED
  BY <1>3, <1>6 DEF KeyInv

\* Gets, the sending of snapshots, and quiet steps.
LEMMA KeyKept ==
  ASSUME KeyInv, TokenInv', UNCHANGED <<store, hist>>, msgs \subseteq msgs'
  PROVE  KeyInv'
<1>1. AbsentIsEmpty'
  BY DEF KeyInv, AbsentIsEmpty, Held
<1>2. ASSUME NEW q \in Keys, NoneBack(q)'
      PROVE  DeliveredOf(q)'
  <2>1. DeliveredOf(q)
    BY <1>2 DEF KeyInv, NoneBack, PutBack, Writes
  <2> QED
    BY <2>1 DEF DeliveredOf, Writes, Addressed, Covers, Held, Pending
<1> QED
  BY <1>1, <1>2 DEF KeyInv

LEMMA KeyStep ==
  ASSUME KeyInv, [Next]_vars
  PROVE  KeyInv'
<1>1. TokenInv /\ CodeInv /\ TokenInv'
  BY TokenStep DEF KeyInv, TokenInv
<1>2. ASSUME NEW c \in Clients, NEW s \in Servers, NEW k \in Keys, PutKVClient(c, s, k)
      PROVE  KeyInv'
  BY <1>2, KeyPut
<1>3. CASE Other \/ UNCHANGED vars
  <2>1. ASSUME NEW c \in Clients, NEW s \in Servers, NEW k \in Keys, GetKVClient(c, s, k)
        PROVE  KeyInv'
    <3>1. UNCHANGED <<store, hist, msgs>>
      BY <2>1 DEF GetKVClient
    <3> QED
      BY <1>1, <3>1, KeyKept
  <2>2. ASSUME NEW m \in msgs, Merge(m.to, m.data), msgs' = msgs \ {m},
               UNCHANGED <<clock, blacklist, ticked, beats, clientVars, histVars>>
        PROVE  KeyInv'
    BY <1>1, <2>2, KeyMerge
  <2>3. ASSUME NEW s \in Servers, NEW t \in Servers, Stabilize(s, t)
        PROVE  KeyInv'
    <3>1. UNCHANGED <<store, hist>> /\ msgs \subseteq msgs'
      BY <2>3 DEF Stabilize, serverVars, histVars
    <3> QED
      BY <1>1, <3>1, KeyKept
  <2>4. CASE Quiet
    <3>1. UNCHANGED <<store, hist, msgs>>
      BY <2>4 DEF Quiet
    <3> QED
      BY <1>1, <3>1, KeyKept
  <2> QED
    BY <1>1, <1>3, <2>1, <2>2, <2>3, <2>4, OtherKinds
<1> QED
  BY <1>2, <1>3 DEF Next

\* No write is lost on the way, for a key of which no put went back.
THEOREM KeyWritesNotLost == Spec => []KeyInv
<1>1. Init => KeyInv
  <2> SUFFICES ASSUME Init PROVE KeyInv
    OBVIOUS
  <2>1. TokenInv /\ Writes = {}
    BY InitToken DEF Init, Writes
  <2>2. AbsentIsEmpty
    BY DEF Init, AbsentIsEmpty
  <2> QED
    BY <2>1, <2>2 DEF KeyInv, DeliveredOf
<1>2. KeyInv /\ [Next]_vars => KeyInv'
  BY KeyStep
<1> QED
  BY <1>1, <1>2, PTL DEF Spec

\* With distinct fractions no two writes of such a key have the same version.
LEMMA VersionsStep ==
  ASSUME DistinctPids, KeyInv, VersionsInv, [Next]_vars
  PROVE  VersionsInv'
<1>1. TokenInv /\ CodeInv
  BY DEF KeyInv, TokenInv
<1>2. ASSUME NEW c \in Clients, NEW s \in Servers, NEW k \in Keys, PutKVClient(c, s, k),
             NEW q \in Keys, NoneBack(q)'
      PROVE  VersionsDifferOf(q)'
  <2> DEFINE w == NewWrite(c, s, k)
             v == PutVersion(s, k, seen[c][k])
             n == Len(hist) + 1
  <2>1. w.key = k /\ w.ver = v
    BY DEF NewWrite
  <2>2. /\ hist'[n] = w /\ Writes' = Writes \cup {n}
        /\ \A i \in Writes : hist'[i] = hist[i]
    BY <1>1, <1>2, PutEffect DEF HistGrows
  <2>3. NoneBack(q) /\ (q = k /\ Held(s, k) => Less(store[s][k].ver, v))
    BY <1>1, <1>2, NoneBackPut
  <2>4. VersionsDifferOf(q) /\ DeliveredOf(q)
    BY <2>3 DEF VersionsInv, KeyInv
  <2>5. ASSUME NEW i \in Writes, hist[i].key = q, q = k
        PROVE  hist[i].ver # v
    <3>1. /\ hist[i].by \in Servers /\ hist[i].ver \in Timestamp
          /\ hist[i].ver[2] = Pid[hist[i].by] /\ v[2] = Pid[s] /\ v \in Timestamp
      BY <1>1, HistType, PutTypes DEF CodeInv, TypeOK, TokenInv, WritesStand
    <3>2. CASE hist[i].by = s
      <4>1. Held(s, k) /\ AtMost(hist[i].ver, store[s][k].ver)
        BY <2>4, <2>5, <3>2 DEF DeliveredOf, Covers
      <4>2. store[s][k].ver \in Timestamp
        BY <1>1, EntryFields DEF CodeInv, TypeOK
      <4>3. Less(hist[i].ver, v)
        BY <2>3, <2>5, <3>1, <4>1, <4>2, LessOrder
      <4> QED
        BY <3>1, <4>3, LessOrder
    <3>3. CASE hist[i].by # s
      BY <3>1, <3>3 DEF DistinctPids
    <3> QED
      BY <3>2, <3>3
  <2> HIDE DEF w, v, n
  <2> QED
    BY <2>1, <2>2, <2>4, <2>5 DEF VersionsDifferOf
<1>3. CASE Other \/ UNCHANGED vars
  <2>1. UNCHANGED hist
    BY <1>1, <1>3, HistOtherKept
  <2> QED
    BY <2>1 DEF VersionsInv, VersionsDifferOf, NoneBack, PutBack, Writes
<1> QED
  BY <1>2, <1>3 DEF Next, VersionsInv

\* With fractions that differ, two puts of a key of which none went back have
\* different versions.
THEOREM KeyVersionsDiffer ==
  ASSUME DistinctPids
  PROVE  Spec => [](KeyInv /\ VersionsInv)
<1>1. Init => VersionsInv
  BY DEF Init, VersionsInv, VersionsDifferOf, Writes
<1>2. KeyInv /\ VersionsInv /\ [Next]_vars => VersionsInv'
  BY VersionsStep
<1> QED
  BY <1>1, <1>2, KeyWritesNotLost, PTL DEF Spec

\* Two servers that cover every write of a key hold the same entry for it.
LEMMA CoveredAgree ==
  ASSUME CodeInv, AbsentIsEmpty, NEW k \in Keys, VersionsDifferOf(k),
         NEW s \in Servers, NEW t \in Servers,
         \A i \in Writes : hist[i].key = k => Covers(s, i) /\ Covers(t, i)
  PROVE  store[s][k] = store[t][k]
<1>1. TypeOK /\ \A u \in {s, t} : Held(u, k) => Accepted(k, store[u][k])
  BY DEF CodeInv, NoThinAir
<1>2. store[s][k] \in Entry /\ store[t][k] \in Entry
  BY <1>1 DEF TypeOK
<1>3. CASE Held(s, k) \/ Held(t, k)
  <2> DEFINE i == store[s][k].val
             j == store[t][k].val
  <2>1. Held(s, k) /\ Held(t, k)
    BY <1>1, <1>3 DEF Covers, Accepted
  <2>2. /\ i \in Writes /\ hist[i].key = k /\ hist[i].ver = store[s][k].ver
        /\ j \in Writes /\ hist[j].key = k /\ hist[j].ver = store[t][k].ver
    BY <1>1, <2>1 DEF Accepted
  <2>3. /\ AtMost(store[s][k].ver, store[t][k].ver)
        /\ AtMost(store[t][k].ver, store[s][k].ver)
    BY <2>2 DEF Covers
  <2>4. store[s][k].ver = store[t][k].ver
    BY <1>2, <2>3, EntryFields, LessOrder
  <2>5. i = j
    BY <2>2, <2>4 DEF VersionsDifferOf
  <2> QED
    BY <1>2, <2>4, <2>5 DEF Entry
<1>4. CASE ~Held(s, k) /\ ~Held(t, k)
  BY <1>4 DEF AbsentIsEmpty
<1> QED
  BY <1>3, <1>4

\* Eventual consistency, its safety half, at any timing: two servers that were
\* both sent every write of a key of which no put went back, and have no such
\* call outstanding, hold the same entry.
THEOREM AgreementUnlessBack ==
  ASSUME DistinctPids
  PROVE  Spec => []AgreesUnlessBack
<1>1. ASSUME KeyInv, VersionsInv
      PROVE  AgreesUnlessBack
  <2> SUFFICES ASSUME NEW k \in Keys, NoneBack(k),
                      NEW s \in Servers, NEW t \in Servers,
                      \A i \in Writes : hist[i].key = k =>
                        /\ Addressed(s, i) /\ ~Pending(s, i)
                        /\ Addressed(t, i) /\ ~Pending(t, i)
               PROVE  store[s][k] = store[t][k]
    BY DEF AgreesUnlessBack, AgreedOn
  <2>1. DeliveredOf(k) /\ VersionsDifferOf(k) /\ CodeInv /\ AbsentIsEmpty
    BY <1>1 DEF KeyInv, VersionsInv, TokenInv
  <2>2. \A i \in Writes : hist[i].key = k => Covers(s, i) /\ Covers(t, i)
    BY <2>1 DEF DeliveredOf
  <2> QED
    BY <2>1, <2>2, CoveredAgree
<1> QED
  BY <1>1, KeyVersionsDiffer, PTL

----------------------------------------------------------------------------
(* SessionInv is an invariant of the code when servers are caught up *)

\* A put that a caught-up server takes gets a version above all it follows.
LEMMA CaughtUpVersion ==
  ASSUME SessionInv, NEW c \in Clients, NEW s \in Servers, NEW k \in Keys,
         CaughtUp(c, s, k)
  PROVE  LET v == PutVersion(s, k, seen[c][k])
         IN  /\ v \in Timestamp /\ v[2] = Pid[s]
             /\ 1 <= v[1] /\ clock[s] <= v[1]
             /\ PutClock(s, k, seen[c][k]) = clock[s] + 1
             /\ v[1] <= clock[s] + 1
             /\ Held(s, k) => v[1] = clock[s] + 1
             /\ Less(seen[c][k], v)
             /\ Held(s, k) => Less(store[s][k].ver, v)
<1>1. /\ CodeInv /\ TypeOK /\ clock[s] \in Int /\ clock[s] >= 1 /\ Pid[s] \in Nat
      /\ seen[c][k] \in Timestamp /\ store[s][k] \in Entry
  BY PidAssumption DEF SessionInv, CodeInv, TypeOK, ClocksPositive
<1>2. store[s][k].ver \in Timestamp
  BY <1>1, EntryFields
<1> DEFINE next == <<clock[s] + 1, Pid[s]>>
           v == PutVersion(s, k, seen[c][k])
<1>3. Less(seen[c][k], next) /\ Less(store[s][k].ver, next)
  BY DEF CaughtUp
<1>4. v \in Timestamp /\ v[2] = Pid[s]
  BY <1>1, PutTypes
<1>5. PutClock(s, k, seen[c][k]) = clock[s] + 1
  <2>1. CASE ~Held(s, k) /\ seen[c][k] = NoVersion
    BY <2>1 DEF PutClock
  <2>2. CASE ~(~Held(s, k) /\ seen[c][k] = NoVersion)
    <3> DEFINE pivot == IF seen[c][k] = NoVersion THEN store[s][k].ver ELSE seen[c][k]
    <3>1. pivot \in Timestamp /\ Less(pivot, next)
      BY <1>1, <1>2, <1>3
    <3>2. PutClock(s, k, seen[c][k]) = ConditionalIncrement(clock[s], Pid[s], pivot)
      BY <2>2 DEF PutClock
    <3> HIDE DEF pivot
    <3> QED
      BY <1>1, <3>1, <3>2, IncrementType
  <2> QED
    BY <2>1, <2>2
<1>6. CASE ~Held(s, k) /\ seen[c][k] = NoVersion
  <2>1. v = <<clock[s], Pid[s]>>
    BY <1>6 DEF PutVersion
  <2>2. Less(NoVersion, v)
    BY <1>1, <2>1 DEF NoVersion, Less
  <2> QED
    BY <1>1, <1>4, <1>5, <1>6, <2>1, <2>2
<1>7. CASE ~(~Held(s, k) /\ seen[c][k] = NoVersion)
  <2>1. v = next
    BY <1>5, <1>7 DEF PutVersion
  <2> QED
    BY <1>1, <1>3, <1>4, <1>5, <2>1
<1> QED
  BY <1>6, <1>7

\* A server that has not issued the new version of k at v: every write of k it
\* took is older.
LEMMA OwnWritesOlder ==
  ASSUME SessionInv, NEW c \in Clients, NEW s \in Servers, NEW k \in Keys,
         CaughtUp(c, s, k),
         NEW i \in Writes, hist[i].by = s, hist[i].key = k
  PROVE  hist[i].ver # PutVersion(s, k, seen[c][k])
<1>1. /\ Held(s, k) /\ hist[i].ver[1] <= clock[s]
      /\ hist[i].ver \in Timestamp /\ clock[s] \in Int
  BY HistType DEF SessionInv, IssuerHolds, CodeInv, TypeOK
<1>2. PutVersion(s, k, seen[c][k])[1] = clock[s] + 1
  BY <1>1, CaughtUpVersion
<1> QED
  BY <1>1, <1>2 DEF Timestamp

\* What a put comes after is older than the put.
LEMMA CausesOlder ==
  ASSUME SessionInv, NEW c \in Clients, NEW s \in Servers, NEW k \in Keys,
         CaughtUp(c, s, k), NEW i \in NewWrite(c, s, k).past
  PROVE  /\ i \in Writes /\ hist[i].key = k
         /\ Less(hist[i].ver, PutVersion(s, k, seen[c][k]))
<1> DEFINE v == PutVersion(s, k, seen[c][k])
<1>1. CodeInv /\ TypeOK /\ v \in Timestamp /\ seen[c][k] \in Timestamp
  BY CaughtUpVersion DEF SessionInv, CodeInv, TypeOK
<1>2. ASSUME NEW j \in Causes(c, s, k)
      PROVE  j \in Writes /\ hist[j].key = k /\ Less(hist[j].ver, v)
  <2>1. j \in Writes /\ hist[j].ver \in Timestamp
    BY <1>1, <1>2, CausesInHist, HistType
  <2>2. CASE j = store[s][k].val /\ j # 0
    <3>1. Held(s, k) /\ Accepted(k, store[s][k])
      BY <1>1, <2>2 DEF Held, CodeInv, NoThinAir
    <3> QED
      BY <2>1, <2>2, <3>1, CaughtUpVersion DEF Accepted
  <2>3. CASE j = own[c][k] /\ j # 0
    <3>1. hist[j].key = k /\ AtMost(hist[j].ver, seen[c][k])
      BY <2>3 DEF SessionInv, SeenCovers
    <3> QED
      BY <1>1, <2>1, <3>1, CaughtUpVersion, LessOrder
  <2>4. CASE j = got[c][k] /\ j # 0
    <3>1. hist[j].key = k /\ hist[j].ver = seen[c][k]
      BY <2>4 DEF SessionInv, SeenCovers, Accepted
    <3> QED
      BY <2>1, <3>1, CaughtUpVersion
  <2> QED
    BY <1>2, <2>2, <2>3, <2>4 DEF Causes
<1>3. CASE i \in Causes(c, s, k)
  BY <1>2, <1>3
<1>4. CASE i \notin Causes(c, s, k)
  <2>1. PICK j \in Causes(c, s, k) : i \in hist[j].past
    BY <1>1, <1>4, CausesInHist DEF NewWrite
  <2>2. j \in Writes /\ hist[j].key = k /\ Less(hist[j].ver, v)
    BY <1>2
  <2>3. i \in Writes /\ hist[i].key = k /\ Less(hist[i].ver, hist[j].ver)
    BY <2>1, <2>2 DEF SessionInv, PastOlder
  <2>4. hist[i].ver \in Timestamp /\ hist[j].ver \in Timestamp
    BY <1>1, <2>2, <2>3, HistType
  <2> QED
    BY <1>1, <2>2, <2>3, <2>4, LessOrder
<1> QED
  BY <1>3, <1>4

LEMMA SessionPut ==
  ASSUME SessionInv, NEW c \in Clients, NEW s \in Servers, NEW k \in Keys,
         CaughtUp(c, s, k), PutKVClient(c, s, k)
  PROVE  SessionInv' /\ ClocksForward
<1> DEFINE e == NewEntry(c, s, k)
           w == NewWrite(c, s, k)
           v == PutVersion(s, k, seen[c][k])
           n == Len(hist) + 1
<1>1. CodeInv /\ TypeOK /\ Len(hist) \in Nat
  BY HistType DEF SessionInv, CodeInv
<1>2. CodeInv'
  BY <1>1, PutCode
<1>3. w.key = k /\ w.by = s /\ w.ver = v /\ e.val = n /\ e.ver = v
  BY DEF NewWrite, NewEntry
<1>4. /\ hist'[n] = w /\ Writes' = Writes \cup {n} /\ n \notin Writes
      /\ \A i \in Writes : hist'[i] = hist[i]
  BY <1>1, PutEffect DEF HistGrows
<1>5. /\ \A t \in Servers : /\ clock[t] \in Int /\ clock'[t] \in Int
                             /\ clock[t] <= clock'[t]
      /\ clock'[s] = clock[s] + 1
  <2>1. PutClock(s, k, seen[c][k]) = clock[s] + 1
    BY CaughtUpVersion
  <2>2. \A t \in Servers : clock'[t] = IF t = s THEN clock[s] + 1 ELSE clock[t]
    BY <1>1, <2>1, PutEffect
  <2>3. \A t \in Servers : clock[t] \in Int
    BY <1>1 DEF TypeOK
  <2>4. \A t \in Servers : clock'[t] \in Int /\ clock[t] <= clock'[t]
    BY <2>2, <2>3
  <2> QED
    BY <2>2, <2>3, <2>4
<1>6. Held(s, k)' /\ \A t \in Servers, j \in Keys : Held(t, j) => Held(t, j)'
  <2>1. e.val # 0
    BY <1>1, <1>3
  <2>2. \A t \in Servers, j \in Keys :
          store'[t][j] = IF t = s /\ j = k THEN e ELSE store[t][j]
    BY <1>1, PutEffect
  <2> HIDE DEF e
  <2> QED
    BY <2>1, <2>2 DEF Held
<1> HIDE DEF e, w, n, v
<1>8. ClocksPositive'
  BY <1>5 DEF SessionInv, ClocksPositive
<1>9. IssuerHolds'
  <2> SUFFICES ASSUME NEW i \in Writes'
               PROVE  /\ 1 <= hist'[i].ver[1] /\ hist'[i].ver[1] <= clock'[hist'[i].by]
                      /\ hist'[i].ver[2] = Pid[hist'[i].by]
                      /\ Held(hist[i].by, hist[i].key)'
    BY DEF IssuerHolds
  <2>1. CASE i = n
    <3>1. /\ v \in Timestamp /\ v[2] = Pid[s]
          /\ 1 <= v[1] /\ v[1] <= clock[s] + 1
      BY CaughtUpVersion DEF v
    <3>2. hist'[i].by = s /\ hist'[i].key = k /\ hist'[i].ver = v
      BY <1>3, <1>4, <2>1
    <3> QED
      BY <1>5, <1>6, <3>1, <3>2 DEF Held
  <2>2. CASE i \in Writes
    <3>1. /\ hist'[i] = hist[i] /\ hist[i].by \in Servers /\ hist[i].key \in Keys
          /\ hist[i].ver \in Timestamp
      BY <1>1, <1>4, <2>2, HistType
    <3>2. /\ 1 <= hist[i].ver[1] /\ hist[i].ver[1] <= clock[hist[i].by]
          /\ hist[i].ver[2] = Pid[hist[i].by]
          /\ Held(hist[i].by, hist[i].key)
      BY <2>2 DEF SessionInv, IssuerHolds
    <3>3. hist[i].ver[1] <= clock'[hist[i].by]
      BY <1>5, <3>1, <3>2 DEF Timestamp
    <3> QED
      BY <1>6, <3>1, <3>2, <3>3 DEF Held
  <2> QED
    BY <1>4, <2>1, <2>2
<1>10. PastOlder'
  <2> SUFFICES ASSUME NEW i \in Writes', NEW j \in hist'[i].past
               PROVE  /\ j \in Writes' /\ hist'[j].key = hist'[i].key
                      /\ Less(hist'[j].ver, hist'[i].ver)
    BY DEF PastOlder, Less
  <2>1. CASE i = n
    <3>1. j \in Writes /\ hist[j].key = k /\ Less(hist[j].ver, v)
      BY <1>4, <2>1, CausesOlder DEF w, v
    <3> QED
      BY <1>3, <1>4, <2>1, <3>1
  <2>2. CASE i \in Writes
    BY <1>4, <2>2 DEF SessionInv, PastOlder
  <2> QED
    BY <1>4, <2>1, <2>2
<1>11. SeenCovers'
  <2> SUFFICES ASSUME NEW d \in Clients, NEW j \in Keys
               PROVE  /\ seen'[d][j] = NoVersion => own'[d][j] = 0 /\ got'[d][j] = 0
                      /\ own'[d][j] # 0 => /\ own'[d][j] \in Writes'
                                           /\ hist'[own'[d][j]].key = j
                                           /\ AtMost(hist'[own'[d][j]].ver, seen'[d][j])
                      /\ got'[d][j] # 0 => /\ got'[d][j] \in Writes'
                                           /\ hist'[got'[d][j]].key = j
                                           /\ hist'[got'[d][j]].ver = seen'[d][j]
    BY DEF SeenCovers, Accepted, AtMost, Less
  <2>1. CASE d = c /\ j = k
    <3>1. seen'[d][j] = v /\ own'[d][j] = n /\ got'[d][j] = 0
      BY <1>1, <1>3, <2>1, PutEffect DEF e, v, n
    <3>2. v # NoVersion
      BY CaughtUpVersion DEF v, NoVersion
    <3> QED
      BY <1>3, <1>4, <2>1, <3>1, <3>2 DEF AtMost
  <2>2. CASE ~(d = c /\ j = k)
    <3>1. seen'[d][j] = seen[d][j] /\ own'[d][j] = own[d][j] /\ got'[d][j] = got[d][j]
      BY <1>1, <2>2, PutEffect
    <3> QED
      BY <1>4, <3>1 DEF SessionInv, SeenCovers, Accepted
  <2> QED
    BY <2>1, <2>2
<1> QED
  BY <1>2, <1>5, <1>8, <1>9, <1>10, <1>11 DEF SessionInv, ClocksForward

\* The other steps: hist stays, clocks and stores only advance.
LEMMA SessionKept ==
  ASSUME SessionInv, CodeInv', UNCHANGED hist, ClocksForward, SeenCovers',
         \A s \in Servers, k \in Keys : Held(s, k) => Held(s, k)'
  PROVE  SessionInv'
<1>1. CodeInv /\ TypeOK /\ TypeOK' /\ UNCHANGED Writes
  BY DEF SessionInv, CodeInv, Writes
<1>2. ClocksPositive'
  BY <1>1 DEF SessionInv, ClocksPositive, ClocksForward, TypeOK
<1>3. IssuerHolds'
  <2> SUFFICES ASSUME NEW i \in Writes
               PROVE  /\ 1 <= hist[i].ver[1] /\ hist[i].ver[1] <= clock'[hist[i].by]
                      /\ hist[i].ver[2] = Pid[hist[i].by]
                      /\ Held(hist[i].by, hist[i].key)'
    BY <1>1 DEF IssuerHolds
  <2>1. hist[i].by \in Servers /\ hist[i].key \in Keys /\ hist[i].ver \in Timestamp
    BY <1>1, HistType
  <2>2. /\ 1 <= hist[i].ver[1] /\ hist[i].ver[1] <= clock[hist[i].by]
        /\ hist[i].ver[2] = Pid[hist[i].by]
        /\ Held(hist[i].by, hist[i].key)
    BY DEF SessionInv, IssuerHolds
  <2>3. hist[i].ver[1] <= clock'[hist[i].by]
    BY <1>1, <2>1, <2>2 DEF ClocksForward, Timestamp, TypeOK
  <2>4. Held(hist[i].by, hist[i].key)'
    BY <2>1, <2>2 DEF Held
  <2> QED
    BY <2>2, <2>3, <2>4
<1>4. PastOlder'
  BY <1>1 DEF SessionInv, PastOlder
<1> QED
  BY <1>2, <1>3, <1>4 DEF SessionInv

LEMMA SessionGet ==
  ASSUME SessionInv, NEW c \in Clients, NEW s \in Servers, NEW k \in Keys,
         GetKVClient(c, s, k)
  PROVE  SessionInv' /\ ClocksForward
<1>1. CodeInv /\ TypeOK /\ CodeInv'
  BY GetCode DEF SessionInv, CodeInv
<1>2. /\ UNCHANGED <<store, hist, own>> /\ ClocksForward
      /\ UNCHANGED Writes
  BY <1>1, GetEffect DEF ClocksForward, Writes
<1>3. SeenCovers'
  <2> SUFFICES ASSUME NEW d \in Clients, NEW j \in Keys
               PROVE  /\ seen'[d][j] = NoVersion => own[d][j] = 0 /\ got'[d][j] = 0
                      /\ own[d][j] # 0 => /\ own[d][j] \in Writes
                                          /\ hist[own[d][j]].key = j
                                          /\ AtMost(hist[own[d][j]].ver, seen'[d][j])
                      /\ got'[d][j] # 0 => /\ got'[d][j] \in Writes
                                           /\ hist[got'[d][j]].key = j
                                           /\ hist[got'[d][j]].ver = seen'[d][j]
    BY <1>2 DEF SeenCovers, Accepted, AtMost, Less
  <2>1. CASE seen'[d][j] = seen[d][j] /\ got'[d][j] = got[d][j]
    BY <2>1 DEF SessionInv, SeenCovers, Accepted
  <2>2. CASE /\ d = c /\ j = k
             /\ Held(s, k) /\ AtMost(seen[c][k], store[s][k].ver)
             /\ seen'[c][k] = store[s][k].ver
             /\ got'[c][k] = store[s][k].val
    <3>1. Accepted(k, store[s][k])
      BY <1>1, <2>2 DEF CodeInv, NoThinAir
    <3>2. store[s][k].ver # NoVersion
      <4>1. 1 <= hist[store[s][k].val].ver[1]
        BY <3>1 DEF SessionInv, IssuerHolds, Accepted
      <4> QED
        BY <3>1, <4>1 DEF Accepted, NoVersion
    <3>3. own[c][k] # 0 => AtMost(hist[own[c][k]].ver, store[s][k].ver)
      <4>1. seen[c][k] \in Timestamp /\ store[s][k].ver \in Timestamp
        BY <1>1, EntryFields DEF TypeOK
      <4>2. own[c][k] # 0 => /\ hist[own[c][k]].ver \in Timestamp
                             /\ AtMost(hist[own[c][k]].ver, seen[c][k])
        BY <1>1, HistType DEF SessionInv, SeenCovers
      <4> QED
        BY <2>2, <4>1, <4>2, LessOrder
    <3>4. own[c][k] # 0 => own[c][k] \in Writes /\ hist[own[c][k]].key = k
      BY DEF SessionInv, SeenCovers
    <3> QED
      BY <2>2, <3>1, <3>2, <3>3, <3>4 DEF Accepted
  <2> QED
    BY <1>1, <2>1, <2>2, GetEffect
<1> QED
  BY <1>1, <1>2, <1>3, SessionKept DEF Held

LEMMA SessionOther ==
  ASSUME SessionInv, Other \/ UNCHANGED vars
  PROVE  SessionInv' /\ ClocksForward
<1>1. CodeInv /\ TypeOK
  BY DEF SessionInv, CodeInv
<1>2. CASE \E c \in Clients, s \in Servers, k \in Keys : GetKVClient(c, s, k)
  BY <1>2, SessionGet
<1>3. ASSUME CodeInv', UNCHANGED <<seen, hist, own, got>>, ClocksForward,
             \A s \in Servers, k \in Keys : Held(s, k) => Held(s, k)'
      PROVE  SessionInv'
  <2>1. SeenCovers'
    BY <1>3 DEF SessionInv, SeenCovers, Accepted, Writes
  <2> QED
    BY <1>3, <2>1, SessionKept
<1>4. ASSUME NEW m \in msgs, Merge(m.to, m.data), msgs' = msgs \ {m},
             UNCHANGED <<clock, blacklist, ticked, beats, clientVars, histVars>>
      PROVE  SessionInv' /\ ClocksForward
  <2>1. CodeInv' /\ \A s \in Servers, k \in Keys : Held(s, k) => Held(s, k)'
    BY <1>1, <1>4, MergeCode, MergeRaises
  <2>2. ClocksForward
    BY <1>1, <1>4 DEF ClocksForward, TypeOK
  <2> QED
    BY <1>3, <1>4, <2>1, <2>2 DEF clientVars, histVars
<1>5. ASSUME NEW s \in Servers, NEW t \in Servers, Stabilize(s, t)
      PROVE  SessionInv' /\ ClocksForward
  <2>1. CodeInv' /\ UNCHANGED <<clock, store, seen, hist, own, got>>
    BY <1>1, <1>5, StabilizeCode DEF Stabilize, serverVars, clientVars, histVars
  <2>2. ClocksForward
    BY <1>1, <2>1 DEF ClocksForward, TypeOK
  <2> QED
    BY <1>3, <2>1, <2>2 DEF Held
<1>6. CASE CodeInv' /\ Quiet /\ \A t \in Servers : clock[t] <= clock'[t]
  BY <1>3, <1>6 DEF Quiet, ClocksForward, Held
<1> QED
  BY <1>1, <1>2, <1>4, <1>5, <1>6, OtherKinds

LEMMA SessionStep ==
  ASSUME SessionInv, [CaughtUpNext]_vars
  PROVE  SessionInv' /\ ClocksForward
BY SessionPut, SessionOther DEF CaughtUpNext

LEMMA InitSession ==
  ASSUME Init
  PROVE  SessionInv
<1>1. CodeInv /\ Writes = {}
  BY InitCode DEF Init, Writes
<1>2. ClocksPositive /\ SeenCovers
  BY DEF Init, ClocksPositive, SeenCovers
<1> QED
  BY <1>1, <1>2 DEF SessionInv, IssuerHolds, PastOlder

\* With caught-up puts: no put goes back, and no client keeps a version below its
\* last put.
THEOREM SessionInvariant == CaughtUpSpec => []SessionInv
<1>1. SessionInv /\ [CaughtUpNext]_vars => SessionInv'
  BY SessionStep
<1> QED
  BY <1>1, InitSession, PTL DEF CaughtUpSpec

\* Read Your Writes: a client never reads, after a put, a value it came after.
THEOREM ReadYourWritesHolds == CaughtUpSpec => []ReadYourWrites
<1>1. ASSUME SessionInv
      PROVE  ReadYourWrites
  <2> SUFFICES ASSUME NEW c \in Clients, NEW k \in Keys,
                      got[c][k] \in Past(own[c][k])
               PROVE  FALSE
    BY DEF ReadYourWrites
  <2> DEFINE g == got[c][k]
             o == own[c][k]
  <2>1. o # 0 /\ g \in hist[o].past
    BY DEF Past
  <2>2. o \in Writes /\ AtMost(hist[o].ver, seen[c][k])
    BY <1>1, <2>1 DEF SessionInv, SeenCovers
  <2>3. g \in Writes /\ Less(hist[g].ver, hist[o].ver)
    BY <1>1, <2>1, <2>2 DEF SessionInv, PastOlder
  <2>4. hist[g].ver = seen[c][k]
    <3>1. g # 0
      BY <1>1, <2>3, HistType DEF Writes, SessionInv, CodeInv
    <3> QED
      BY <1>1, <3>1 DEF SessionInv, SeenCovers, Accepted
  <2>5. hist[g].ver \in Timestamp /\ hist[o].ver \in Timestamp
    BY <1>1, <2>2, <2>3, HistType DEF SessionInv, CodeInv
  <2> QED
    BY <2>2, <2>3, <2>4, <2>5, LessOrder
<1> QED
  BY <1>1, SessionInvariant, PTL

\* Monotonic Reads: a client's next read of a key is not a value that its last
\* read came after.
THEOREM MonotonicReadsHold == CaughtUpSpec => MonotonicReads
<1>1. ASSUME SessionInv, [CaughtUpNext]_vars
      PROVE  ReadsForward
  <2> SUFFICES ASSUME NEW c \in Clients, NEW k \in Keys,
                      got'[c][k] # got[c][k], got'[c][k] \in Past(got[c][k])
               PROVE  FALSE
    BY DEF ReadsForward
  <2> DEFINE g == got[c][k]
             h == got'[c][k]
  <2>1. CodeInv /\ TypeOK
    BY <1>1 DEF SessionInv, CodeInv
  <2>2. g # 0 /\ h \in hist[g].past
    BY DEF Past
  <2>3. Accepted(k, [val |-> g, ver |-> seen[c][k]])
    BY <1>1, <2>2 DEF SessionInv, SeenCovers
  <2>4. g \in Writes /\ hist[g].ver = seen[c][k]
    BY <2>3 DEF Accepted
  <2>5. h \in Writes /\ Less(hist[h].ver, hist[g].ver)
    BY <1>1, <2>2, <2>4 DEF SessionInv, PastOlder
  <2>6. h # 0
    BY <2>1, <2>5, HistType DEF Writes
  <2>7. PICK s \in Servers : GetKVClient(c, s, k) /\ h = store[s][k].val /\ Held(s, k)
                             /\ AtMost(seen[c][k], store[s][k].ver)
    <3>1. ASSUME NEW d \in Clients, NEW t \in Servers, NEW j \in Keys, PutKVClient(d, t, j)
          PROVE  h = 0 \/ h = g
      BY <2>1, <3>1, PutEffect
    <3>2. PICK d \in Clients, t \in Servers, j \in Keys : GetKVClient(d, t, j)
      BY <1>1, <2>1, <2>6, <3>1, OtherKinds DEF CaughtUpNext, Stabilize, Quiet, histVars
    <3> QED
      BY <2>1, <3>2, GetEffect
  <2>8. Accepted(k, store[s][k])
    BY <2>1, <2>7 DEF CodeInv, NoThinAir
  <2>9. AtMost(hist[g].ver, hist[h].ver)
    BY <2>4, <2>7, <2>8 DEF Accepted
  <2>10. hist[g].ver \in Timestamp /\ hist[h].ver \in Timestamp
    BY <2>1, <2>4, <2>5, HistType
  <2> QED
    BY <2>5, <2>9, <2>10, LessOrder
<1>2. SessionInv /\ [CaughtUpNext]_vars => [ReadsForward]_vars
  BY <1>1
<1> QED
  BY <1>2, SessionInvariant, PTL DEF CaughtUpSpec, MonotonicReads

----------------------------------------------------------------------------
(* With caught-up puts no put goes back, so the same holds of every key *)

LEMMA CaughtUpIsCode == CaughtUpSpec => Spec
<1>1. [CaughtUpNext]_vars => [Next]_vars
  BY DEF CaughtUpNext, Next
<1> QED
  BY <1>1, PTL DEF CaughtUpSpec, Spec

LEMMA NoneBackCaughtUp ==
  ASSUME SessionInv, NEW k \in Keys
  PROVE  NoneBack(k)
BY DEF SessionInv, PastOlder, NoneBack, PutBack

\* No write is lost on the way: each server a put was sent to holds it or a
\* newer one, or the call is still in flight.
THEOREM WritesNotLost == CaughtUpSpec => []ReplicaInv
<1>1. ASSUME SessionInv, KeyInv
      PROVE  ReplicaInv
  <2>1. \A i \in Writes : hist[i].key \in Keys
    BY <1>1, HistType DEF SessionInv, CodeInv
  <2>2. Delivered
    BY <1>1, <2>1, NoneBackCaughtUp DEF KeyInv, DeliveredOf, Delivered
  <2> QED
    BY <1>1, <2>2 DEF KeyInv, ReplicaInv
<1> QED
  BY <1>1, SessionInvariant, CaughtUpIsCode, KeyWritesNotLost, PTL

\* The whole inductive invariant.
THEOREM ReplicasInvariant ==
  ASSUME DistinctPids
  PROVE  CaughtUpSpec => []IInv
<1>1. ASSUME SessionInv, VersionsInv
      PROVE  VersionsDiffer
  <2>1. \A i \in Writes : hist[i].key \in Keys
    BY <1>1, HistType DEF SessionInv, CodeInv
  <2> QED
    BY <1>1, <2>1, NoneBackCaughtUp DEF VersionsInv, VersionsDifferOf, VersionsDiffer
<1>2. ReplicaInv /\ VersionsDiffer => IInv
  BY DEF IInv
<1> QED
  BY <1>1, <1>2, SessionInvariant, WritesNotLost, CaughtUpIsCode, KeyVersionsDiffer, PTL

\* Eventual consistency, its safety half: two servers that were both sent every
\* write of a key, and have no such call outstanding, hold the same entry.
THEOREM QuiescentReplicasAgree ==
  ASSUME DistinctPids
  PROVE  CaughtUpSpec => []QuiescentAgreement
<1>1. ASSUME SessionInv, AgreesUnlessBack
      PROVE  QuiescentAgreement
  BY <1>1, NoneBackCaughtUp DEF AgreesUnlessBack, QuiescentAgreement
<1> QED
  BY <1>1, SessionInvariant, CaughtUpIsCode, AgreementUnlessBack, PTL

----------------------------------------------------------------------------
(* The code, caught up, implements the abstract sessions *)

\* A caught-up put gets a version no write of the key has.
LEMMA VersionFresh ==
  ASSUME DistinctPids, SessionInv,
         NEW c \in Clients, NEW s \in Servers, NEW k \in Keys, CaughtUp(c, s, k),
         NEW i \in Writes, hist[i].key = k
  PROVE  hist[i].ver # PutVersion(s, k, seen[c][k])
<1>1. CASE hist[i].by = s
  BY <1>1, OwnWritesOlder
<1>2. CASE hist[i].by # s
  <2>1. hist[i].by \in Servers /\ hist[i].ver[2] = Pid[hist[i].by]
    BY HistType DEF SessionInv, CodeInv, IssuerHolds
  <2>2. Pid[hist[i].by] # Pid[s]
    BY <1>2, <2>1 DEF DistinctPids
  <2>3. PutVersion(s, k, seen[c][k])[2] = Pid[s]
    BY CaughtUpVersion
  <2> QED
    BY <2>1, <2>2, <2>3
<1> QED
  BY <1>1, <1>2

Issued == {<<hist[i].key, hist[i].ver>> : i \in Writes}

LEMMA PutWrites ==
  ASSUME DistinctPids, SessionInv,
         NEW c \in Clients, NEW s \in Servers, NEW k \in Keys,
         CaughtUp(c, s, k), PutKVClient(c, s, k)
  PROVE  Abstract!Next
<1> DEFINE w == NewWrite(c, s, k)
           v == PutVersion(s, k, seen[c][k])
           n == Len(hist) + 1
<1>1. CodeInv
  BY DEF SessionInv
<1>2. w.key = k /\ w.ver = v
  BY DEF NewWrite
<1>3. /\ hist'[n] = w /\ Writes' = Writes \cup {n} /\ n \notin Writes
      /\ \A i \in Writes : hist'[i] = hist[i]
  BY <1>1, PutEffect DEF HistGrows
<1>4. v \in {<<t, p>> : t \in 1 .. MaxClock, p \in {Pid[u] : u \in Servers}}
  <2>1. /\ v \in Timestamp /\ v[2] = Pid[s] /\ 1 <= v[1] /\ v[1] <= clock[s] + 1
        /\ PutClock(s, k, seen[c][k]) = clock[s] + 1
    BY CaughtUpVersion
  <2>2. v[1] <= MaxClock
    BY DEF PutKVClient
  <2>3. MaxClock \in Nat /\ clock[s] \in Int
    BY <1>1, BoundsAssumption DEF CodeInv, TypeOK
  <2>4. v = <<v[1], v[2]>> /\ v[1] \in 1 .. MaxClock
    BY <2>1, <2>2, <2>3 DEF Timestamp
  <2> HIDE DEF v
  <2> QED
    BY <2>1, <2>4
<1>5. \A i \in Writes : hist[i].key = k => hist[i].ver # v
  BY VersionFresh
<1>6. Less(seen[c][k], v)
  BY CaughtUpVersion
<1>7. seen' = [seen EXCEPT ![c][k] = v]
  BY DEF PutKVClient
<1> HIDE DEF w, v, n
<1>8. <<k, v>> \notin Issued
  BY <1>5 DEF Issued
<1>9. Issued' = Issued \cup {<<k, v>>}
  BY <1>2, <1>3 DEF Issued
<1>10. PICK u \in {<<t, p>> : t \in 1 .. MaxClock, p \in {Pid[x] : x \in Servers}} :
         u = v
  BY <1>4
<1>11. Abstract!Write(c, k, u)
  BY <1>6, <1>7, <1>8, <1>9, <1>10 DEF Abstract!Write, Abstract!Less, Less, Issued
<1> QED
  BY <1>11 DEF Abstract!Next

LEMMA GetReads ==
  ASSUME SessionInv, NEW c \in Clients, NEW s \in Servers, NEW k \in Keys,
         GetKVClient(c, s, k)
  PROVE  [Abstract!Next]_(Abstract!vars)
<1>1. CodeInv /\ store[s][k] \in Entry /\ seen[c][k] \in Timestamp
  BY DEF SessionInv, CodeInv, TypeOK
<1>2. UNCHANGED Issued
  BY DEF GetKVClient, Issued, Writes
<1>3. CASE Served(s, k, seen[c][k])
  <2> DEFINE v == store[s][k].ver
  <2>1. Held(s, k) /\ AtMost(seen[c][k], v)
    BY <1>1, <1>3, EntryFields, LessOrder DEF Served
  <2>2. <<k, v>> \in Issued
    BY <1>1, <2>1 DEF CodeInv, NoThinAir, Accepted, Issued
  <2>3. seen' = [seen EXCEPT ![c][k] = v]
    BY <1>3 DEF GetKVClient
  <2> HIDE DEF v
  <2>4. PICK e \in Issued : e[1] = k /\ e[2] = v
    BY <2>2
  <2>5. Abstract!Read(c, e[1], e[2])
    BY <1>2, <2>1, <2>2, <2>3, <2>4
       DEF Abstract!Read, Abstract!AtMost, Abstract!Less, AtMost, Less, Issued
  <2> QED
    BY <2>5 DEF Abstract!Next, Issued
<1>4. CASE ~Served(s, k, seen[c][k])
  BY <1>2, <1>4 DEF GetKVClient, Abstract!vars, Issued
<1> QED
  BY <1>3, <1>4

\* The client sessions of the code see the abstract store of SessionStore.
THEOREM ImplementsSessions ==
  ASSUME DistinctPids
  PROVE  CaughtUpSpec => AbstractSpec
<1>1. Init => Abstract!Init
  <2> SUFFICES ASSUME Init PROVE Abstract!Init
    OBVIOUS
  <2>1. Writes = {} /\ seen = [c \in Clients |-> [k \in Keys |-> NoVersion]]
    BY DEF Init, Writes
  <2> QED
    BY <2>1 DEF Abstract!Init, Abstract!NoVersion, NoVersion
<1>2. ASSUME SessionInv, [CaughtUpNext]_vars
      PROVE  [Abstract!Next]_(Abstract!vars)
  <2>1. ASSUME NEW c \in Clients, NEW s \in Servers, NEW k \in Keys,
               CaughtUp(c, s, k), PutKVClient(c, s, k)
        PROVE  Abstract!Next
    BY <1>2, <2>1, PutWrites
  <2>2. CASE Other \/ UNCHANGED vars
    <3>1. CodeInv
      BY <1>2 DEF SessionInv
    <3>2. CASE \E c \in Clients, s \in Servers, k \in Keys : GetKVClient(c, s, k)
      BY <1>2, <3>2, GetReads
    <3>3. CASE UNCHANGED <<hist, seen>>
      BY <3>3 DEF Abstract!vars, Writes
    <3> QED
      BY <2>2, <3>1, <3>2, <3>3, OtherKinds
         DEF Stabilize, Quiet, clientVars, histVars
  <2> QED
    BY <1>2, <2>1, <2>2 DEF CaughtUpNext
<1>3. SessionInv /\ [CaughtUpNext]_vars => [Abstract!Next]_(Abstract!vars)
  BY <1>2
<1> QED
  BY <1>1, <1>3, SessionInvariant, PTL
     DEF CaughtUpSpec, AbstractSpec, Abstract!Spec

============================================================================
