------------------------- MODULE ServerLocks_proofs -------------------------
(***************************************************************************)
(* Theorems about ServerLocks, for any number of servers and of threads.   *)
(* A table gives the mutexes that a thread holds at each instruction of    *)
(* its script; instruction by instruction, every script keeps a            *)
(* discipline (mutexes in one order, variables under their mutexes).  The  *)
(* invariant LocksInv says that "holder" is what the table says of the     *)
(* threads that run; deadlocks and races follow from the discipline.       *)
(***************************************************************************)
EXTENDS ServerLocks, TLAPS

----------------------------------------------------------------------------
(* The discipline of a script.                                             *)

\* The order in which a thread takes mutexes, its own server's or another's.
Rank == [black |-> 1, map |-> 2, store |-> 3, self |-> 4, log |-> 4]

\* Onward, of a script.
Onw(S, i) == IF S[i].to = {} THEN {i + 1} ELSE S[i].to

With(H, m) == H \cup {m}
Without(H, m) == H \ {m}

\* What a thread that held H of the mutexes of one place holds after I.
After(I, place, H) ==
  IF I.place # place THEN H
  ELSE IF I.op = "lock" THEN With(H, I.m)
  ELSE IF I.op = "unlock" THEN Without(H, I.m) ELSE H

\* The sets of mutexes that threads hold.
Free == {}
Map == {"map"}
MapSelf == {"map", "self"}
Self == {"self"}
Black == {"black"}
Store == {"store"}
StoreSelf == {"store", "self"}
StoreLog == {"store", "log"}
MapStore == {"map", "store"}

\* Here[r][i]: the mutexes of its own server that a thread holds before
\* instruction i of handler r, or after the end of r.
Here ==
  [JoinClusterAsServer |-> <<Free, Map, MapSelf, MapSelf, Map, Free>>,
   NewServerNotification |-> <<Free, Map, Map, Free>>,
   KillServerNotification |-> <<Free, Map, Map, Free>>,
   GetServerInfo |-> <<Free, Self, Self, Free>>,
   HeartbeatNotification |-> <<Free, Map, MapSelf, MapSelf, Map, Free>>,
   PrintMembershipList |-> <<Free, Map, MapSelf, MapSelf, Map, Free>>,
   CreateConnection |->
     <<Free, Self, Self, Free, Black, Black, Black, Black, Black, Free>>,
   BreakConnection |-> <<Free, Map, Free, Black, Black, Free>>,
   KillServer |-> <<Free, Map, Map, Map, Free>>,
   PutKVServer |->
     <<Free, Map, Free, Store, Store, StoreSelf, StoreSelf, Store, StoreSelf,
       StoreSelf, Store, StoreLog, StoreLog, Store, Store, Free>>,
   GetKVServer |-> <<Free, Store, Store, StoreSelf, StoreSelf, Store, Free>>,
   ProcessRemoteWrite |-> <<Free, Store, Store, StoreLog, StoreLog, Store, Free>>,
   SendKVData |-> <<Free, Store, Store, Free>>,
   PrintStore |-> <<Free, Self, Self, Free, Store, Store, Free>>,
   Stabilize |-> <<Free, Map, Map, Map, MapStore, MapStore, Map, Map, Map, Map, Free>>,
   startHeartbeats |->
     <<Free, Free, Self, Self, Free, Map, Map, MapSelf, MapSelf, Map, Map, Free>>]

\* Away(r, i): those of the server it calls.
Away(r, i) ==
  IF r = "Stabilize" /\ i \in 8 .. 9 THEN Store
  ELSE IF r = "CreateConnection" /\ i \in 7 .. 8 THEN Map ELSE Free

\* The mutexes it holds at the place of I.
Holds(r, i, I) == IF I.place = "there" THEN Away(r, i) ELSE Here[r][i]

\* What instruction I is, but for the variables it uses.
Is(I, op, m, place, to) ==
  I.op = op /\ I.m = m /\ I.place = place /\ I.to = to

\* Instruction i of handler r, whose script is S, takes mutexes in order and
\* gives back what it holds.
Ordered(r, S, i) ==
  /\ S[i].op \in {"lock", "unlock", "use", "each", "send", "select"}
  /\ S[i].m \in Mutexes /\ S[i].place \in {"here", "there"}
  /\ S[i].op = "lock" => \A h \in Here[r][i] \cup Away(r, i) : Rank[h] < Rank[S[i].m]
  /\ S[i].op = "unlock" => S[i].m \in Holds(r, i, S[i])

\* It uses variables under their mutexes, but for the exceptions of RacesKnown.
Guarded(r, S, i) ==
  /\ \A x \in S[i].reads \cup S[i].writes :
       \/ x \in Holds(r, i, S[i])
       \/ x = "map" /\ r \in Careless
       \/ x = "black" /\ "black" \notin S[i].writes
  /\ "black" \in S[i].writes => r \in {"BreakConnection", "CreateConnection"}

\* Where a loop, the channel's two ends and the heartbeat thread's mutexes are.
Placed(r, S, i) ==
  /\ S[i].op = "each" => i + 1 \in Onw(S, i) /\ Away(r, i) = Free
  /\ S[i].op = "send" => r = "KillServer" /\ i = 3
  /\ S[i].op = "select" <=> r = "startHeartbeats" /\ i = 1
  /\ r = "KillServer" => \A j \in Onw(S, i) : j > i
  /\ r = "startHeartbeats" =>
       /\ S[i].place = "here" /\ Away(r, i) = Free /\ Onw(S, i) \subseteq 1 .. Len(S)
       /\ S[i].op = "lock" => S[i].m \in {"map", "self"}

\* Here and Away stay true, and a handler ends with all mutexes given back.
Tracked(r, S, i) ==
  \A j \in Onw(S, i) :
    /\ \/ j \in 1 .. Len(S)
       \/ j = Len(S) + 1 /\ Here[r][j] = Free /\ Away(r, j) = Free
    /\ Here[r][j] = After(S[i], "here", Here[r][i])
    /\ Away(r, j) = After(S[i], "there", Away(r, i))

\* What taking and giving back make of those sets.
LEMMA Sums ==
  /\ With(Free, "black") = Black
  /\ With(Free, "map") = Map
  /\ With(Free, "self") = Self
  /\ With(Free, "store") = Store
  /\ With(Map, "self") = MapSelf
  /\ With(Map, "store") = MapStore
  /\ With(Store, "log") = StoreLog
  /\ With(Store, "self") = StoreSelf
  /\ Without(Black, "black") = Free
  /\ Without(StoreLog, "log") = Store
  /\ Without(Map, "map") = Free
  /\ Without(MapSelf, "self") = Map
  /\ Without(MapStore, "store") = Map
  /\ Without(Self, "self") = Free
  /\ Without(StoreSelf, "self") = Store
  /\ Without(Store, "store") = Free
<1>1. With(Free, "black") = Black
  BY DEF With, Free, Black
<1>2. With(Free, "map") = Map
  BY DEF With, Free, Map
<1>3. With(Free, "self") = Self
  BY DEF With, Free, Self
<1>4. With(Free, "store") = Store
  BY DEF With, Free, Store
<1>5. With(Map, "self") = MapSelf
  BY DEF With, Map, MapSelf
<1>6. With(Map, "store") = MapStore
  BY DEF With, Map, MapStore
<1>7. With(Store, "log") = StoreLog
  BY DEF With, Store, StoreLog
<1>8. With(Store, "self") = StoreSelf
  BY DEF With, Store, StoreSelf
<1>9. Without(Black, "black") = Free
  BY DEF Without, Black, Free
<1>10. Without(StoreLog, "log") = Store
  BY DEF Without, StoreLog, Store
<1>11. Without(Map, "map") = Free
  BY DEF Without, Map, Free
<1>12. Without(MapSelf, "self") = Map
  BY DEF Without, MapSelf, Map
<1>13. Without(MapStore, "store") = Map
  BY DEF Without, MapStore, Map
<1>14. Without(Self, "self") = Free
  BY DEF Without, Self, Free
<1>15. Without(StoreSelf, "self") = Store
  BY DEF Without, StoreSelf, Store
<1>16. Without(Store, "store") = Free
  BY DEF Without, Store, Free
<1> QED
  BY <1>1, <1>2, <1>3, <1>4, <1>5, <1>6, <1>7, <1>8, <1>9, <1>10, <1>11, <1>12, <1>13, <1>14, <1>15, <1>16

\* The constructors of instructions.
LEMMA Parts ==
  \A m, R, W, to, I :
    /\ Is(Lock(m), "lock", m, "here", {}) /\ Is(Unlock(m), "unlock", m, "here", {})
    /\ Is(UnlockTo(m, to), "unlock", m, "here", to)
    /\ Is(Use(R, W), "use", "map", "here", {})
    /\ Is(UseTo(R, W, to), "use", "map", "here", to)
    /\ Is(EachMember(to), "each", "map", "here", to)
    /\ Is(Send, "send", "map", "here", {}) /\ Is(Select, "select", "map", "here", {})
    /\ Is(There(I, to), I.op, I.m, "there", to)
  BY DEF Is, Instr, Lock, Unlock, UnlockTo, Use, UseTo, EachMember, Send, Select, There

LEMMA SendKVDataIs ==
  /\ SendKVData[1].op = "lock" /\ SendKVData[1].m = "store"
  /\ SendKVData[2].op = "use" /\ SendKVData[2].m = "map"
  /\ SendKVData[3].op = "unlock" /\ SendKVData[3].m = "store"
  BY DEF SendKVData, Lock, Use, Unlock, Instr

LEMMA NewServerNotificationIs ==
  /\ NewServerNotification[1].op = "lock" /\ NewServerNotification[1].m = "map"
  /\ NewServerNotification[2].op = "use" /\ NewServerNotification[2].m = "map"
  /\ NewServerNotification[3].op = "unlock" /\ NewServerNotification[3].m = "map"
  BY DEF NewServerNotification, Lock, Use, Unlock, Instr

\* The whole discipline.
Keeps(r, S, i) ==
  Ordered(r, S, i) /\ Guarded(r, S, i) /\ Placed(r, S, i) /\ Tracked(r, S, i)

----------------------------------------------------------------------------
(* Each script keeps it.                                                   *)

LEMMA JoinClusterAsServerKeeps ==
  \A i \in 1 .. Len(JoinClusterAsServer) : Keeps("JoinClusterAsServer", JoinClusterAsServer, i)
<1>1. /\ JoinClusterAsServer[1] = Lock("map")
      /\ JoinClusterAsServer[2] = Lock("self")
      /\ JoinClusterAsServer[3] = Use({"self", "black"}, {"map"})
      /\ JoinClusterAsServer[4] = Unlock("self")
      /\ JoinClusterAsServer[5] = Unlock("map")
  BY DEF JoinClusterAsServer
<1>1a. Len(JoinClusterAsServer) = 5
  BY DEF JoinClusterAsServer
<1>2. /\ Here["JoinClusterAsServer"][1] = Free
      /\ Here["JoinClusterAsServer"][2] = Map
      /\ Here["JoinClusterAsServer"][3] = MapSelf
      /\ Here["JoinClusterAsServer"][4] = MapSelf
      /\ Here["JoinClusterAsServer"][5] = Map /\ Here["JoinClusterAsServer"][6] = Free
  BY DEF Here
<1>3. /\ Away("JoinClusterAsServer", 1) = Free
      /\ Away("JoinClusterAsServer", 2) = Free
      /\ Away("JoinClusterAsServer", 3) = Free
      /\ Away("JoinClusterAsServer", 4) = Free
      /\ Away("JoinClusterAsServer", 5) = Free /\ Away("JoinClusterAsServer", 6) = Free
  BY DEF Away
<1>4. /\ Is(JoinClusterAsServer[1], "lock", "map", "here", {})
      /\ Is(JoinClusterAsServer[2], "lock", "self", "here", {})
      /\ Is(JoinClusterAsServer[3], "use", "map", "here", {})
      /\ Is(JoinClusterAsServer[4], "unlock", "self", "here", {})
      /\ Is(JoinClusterAsServer[5], "unlock", "map", "here", {})
  BY <1>1, Parts
<1>5. /\ Ordered("JoinClusterAsServer", JoinClusterAsServer, 1)
      /\ Ordered("JoinClusterAsServer", JoinClusterAsServer, 2)
      /\ Ordered("JoinClusterAsServer", JoinClusterAsServer, 3)
      /\ Ordered("JoinClusterAsServer", JoinClusterAsServer, 4)
      /\ Ordered("JoinClusterAsServer", JoinClusterAsServer, 5)
  BY <1>2, <1>3, <1>4 DEF Ordered, Is, Holds, Rank, Mutexes, Free, Map, MapSelf, Self,
       Black, Store, StoreSelf, StoreLog, MapStore
<1>6. /\ Guarded("JoinClusterAsServer", JoinClusterAsServer, 1)
      /\ Guarded("JoinClusterAsServer", JoinClusterAsServer, 2)
      /\ Guarded("JoinClusterAsServer", JoinClusterAsServer, 3)
      /\ Guarded("JoinClusterAsServer", JoinClusterAsServer, 4)
      /\ Guarded("JoinClusterAsServer", JoinClusterAsServer, 5)
  BY <1>1, <1>2, <1>3 DEF Guarded, Holds, Careless, Free, Map, MapSelf, Self, Black,
       Store, StoreSelf, StoreLog, MapStore, Instr, Lock, Unlock, Use
<1>7. /\ Placed("JoinClusterAsServer", JoinClusterAsServer, 1)
      /\ Placed("JoinClusterAsServer", JoinClusterAsServer, 2)
      /\ Placed("JoinClusterAsServer", JoinClusterAsServer, 3)
      /\ Placed("JoinClusterAsServer", JoinClusterAsServer, 4)
      /\ Placed("JoinClusterAsServer", JoinClusterAsServer, 5)
  BY <1>2, <1>3, <1>4 DEF Placed, Is, Onw
<1>8. /\ Tracked("JoinClusterAsServer", JoinClusterAsServer, 1)
      /\ Tracked("JoinClusterAsServer", JoinClusterAsServer, 2)
      /\ Tracked("JoinClusterAsServer", JoinClusterAsServer, 3)
      /\ Tracked("JoinClusterAsServer", JoinClusterAsServer, 4)
      /\ Tracked("JoinClusterAsServer", JoinClusterAsServer, 5)
  BY <1>1a, <1>2, <1>3, <1>4, Sums DEF Tracked, Is, Onw, After
<1>9. \A i \in 1 .. 5 : i = 1 \/ i = 2 \/ i = 3 \/ i = 4 \/ i = 5
  OBVIOUS
<1> QED
  BY <1>1a, <1>5, <1>6, <1>7, <1>8, <1>9 DEF Keeps

LEMMA NewServerNotificationKeeps ==
  \A i \in 1 .. Len(NewServerNotification) : Keeps("NewServerNotification", NewServerNotification, i)
<1>1. /\ NewServerNotification[1] = Lock("map")
      /\ NewServerNotification[2] = Use({}, {"map"})
      /\ NewServerNotification[3] = Unlock("map")
  BY DEF NewServerNotification
<1>1a. Len(NewServerNotification) = 3
  BY DEF NewServerNotification
<1>2. /\ Here["NewServerNotification"][1] = Free
      /\ Here["NewServerNotification"][2] = Map
      /\ Here["NewServerNotification"][3] = Map
      /\ Here["NewServerNotification"][4] = Free
  BY DEF Here
<1>3. /\ Away("NewServerNotification", 1) = Free
      /\ Away("NewServerNotification", 2) = Free
      /\ Away("NewServerNotification", 3) = Free
      /\ Away("NewServerNotification", 4) = Free
  BY DEF Away
<1>4. /\ Is(NewServerNotification[1], "lock", "map", "here", {})
      /\ Is(NewServerNotification[2], "use", "map", "here", {})
      /\ Is(NewServerNotification[3], "unlock", "map", "here", {})
  BY <1>1, Parts
<1>5. /\ Ordered("NewServerNotification", NewServerNotification, 1)
      /\ Ordered("NewServerNotification", NewServerNotification, 2)
      /\ Ordered("NewServerNotification", NewServerNotification, 3)
  BY <1>2, <1>3, <1>4 DEF Ordered, Is, Holds, Rank, Mutexes, Free, Map, MapSelf, Self,
       Black, Store, StoreSelf, StoreLog, MapStore
<1>6. /\ Guarded("NewServerNotification", NewServerNotification, 1)
      /\ Guarded("NewServerNotification", NewServerNotification, 2)
      /\ Guarded("NewServerNotification", NewServerNotification, 3)
  BY <1>1, <1>2, <1>3 DEF Guarded, Holds, Careless, Free, Map, MapSelf, Self, Black,
       Store, StoreSelf, StoreLog, MapStore, Instr, Lock, Unlock, Use
<1>7. /\ Placed("NewServerNotification", NewServerNotification, 1)
      /\ Placed("NewServerNotification", NewServerNotification, 2)
      /\ Placed("NewServerNotification", NewServerNotification, 3)
  BY <1>2, <1>3, <1>4 DEF Placed, Is, Onw
<1>8. /\ Tracked("NewServerNotification", NewServerNotification, 1)
      /\ Tracked("NewServerNotification", NewServerNotification, 2)
      /\ Tracked("NewServerNotification", NewServerNotification, 3)
  BY <1>1a, <1>2, <1>3, <1>4, Sums DEF Tracked, Is, Onw, After
<1>9. \A i \in 1 .. 3 : i = 1 \/ i = 2 \/ i = 3
  OBVIOUS
<1> QED
  BY <1>1a, <1>5, <1>6, <1>7, <1>8, <1>9 DEF Keeps

LEMMA KillServerNotificationKeeps ==
  \A i \in 1 .. Len(KillServerNotification) : Keeps("KillServerNotification", KillServerNotification, i)
<1>1. /\ KillServerNotification[1] = Lock("map")
      /\ KillServerNotification[2] = Use({}, {"map"})
      /\ KillServerNotification[3] = Unlock("map")
  BY DEF KillServerNotification
<1>1a. Len(KillServerNotification) = 3
  BY DEF KillServerNotification
<1>2. /\ Here["KillServerNotification"][1] = Free
      /\ Here["KillServerNotification"][2] = Map
      /\ Here["KillServerNotification"][3] = Map
      /\ Here["KillServerNotification"][4] = Free
  BY DEF Here
<1>3. /\ Away("KillServerNotification", 1) = Free
      /\ Away("KillServerNotification", 2) = Free
      /\ Away("KillServerNotification", 3) = Free
      /\ Away("KillServerNotification", 4) = Free
  BY DEF Away
<1>4. /\ Is(KillServerNotification[1], "lock", "map", "here", {})
      /\ Is(KillServerNotification[2], "use", "map", "here", {})
      /\ Is(KillServerNotification[3], "unlock", "map", "here", {})
  BY <1>1, Parts
<1>5. /\ Ordered("KillServerNotification", KillServerNotification, 1)
      /\ Ordered("KillServerNotification", KillServerNotification, 2)
      /\ Ordered("KillServerNotification", KillServerNotification, 3)
  BY <1>2, <1>3, <1>4 DEF Ordered, Is, Holds, Rank, Mutexes, Free, Map, MapSelf, Self,
       Black, Store, StoreSelf, StoreLog, MapStore
<1>6. /\ Guarded("KillServerNotification", KillServerNotification, 1)
      /\ Guarded("KillServerNotification", KillServerNotification, 2)
      /\ Guarded("KillServerNotification", KillServerNotification, 3)
  BY <1>1, <1>2, <1>3 DEF Guarded, Holds, Careless, Free, Map, MapSelf, Self, Black,
       Store, StoreSelf, StoreLog, MapStore, Instr, Lock, Unlock, Use
<1>7. /\ Placed("KillServerNotification", KillServerNotification, 1)
      /\ Placed("KillServerNotification", KillServerNotification, 2)
      /\ Placed("KillServerNotification", KillServerNotification, 3)
  BY <1>2, <1>3, <1>4 DEF Placed, Is, Onw
<1>8. /\ Tracked("KillServerNotification", KillServerNotification, 1)
      /\ Tracked("KillServerNotification", KillServerNotification, 2)
      /\ Tracked("KillServerNotification", KillServerNotification, 3)
  BY <1>1a, <1>2, <1>3, <1>4, Sums DEF Tracked, Is, Onw, After
<1>9. \A i \in 1 .. 3 : i = 1 \/ i = 2 \/ i = 3
  OBVIOUS
<1> QED
  BY <1>1a, <1>5, <1>6, <1>7, <1>8, <1>9 DEF Keeps

LEMMA GetServerInfoKeeps ==
  \A i \in 1 .. Len(GetServerInfo) : Keeps("GetServerInfo", GetServerInfo, i)
<1>1. /\ GetServerInfo[1] = Lock("self") /\ GetServerInfo[2] = Use({"self"}, {})
      /\ GetServerInfo[3] = Unlock("self")
  BY DEF GetServerInfo
<1>1a. Len(GetServerInfo) = 3
  BY DEF GetServerInfo
<1>2. /\ Here["GetServerInfo"][1] = Free /\ Here["GetServerInfo"][2] = Self
      /\ Here["GetServerInfo"][3] = Self /\ Here["GetServerInfo"][4] = Free
  BY DEF Here
<1>3. /\ Away("GetServerInfo", 1) = Free /\ Away("GetServerInfo", 2) = Free
      /\ Away("GetServerInfo", 3) = Free /\ Away("GetServerInfo", 4) = Free
  BY DEF Away
<1>4. /\ Is(GetServerInfo[1], "lock", "self", "here", {})
      /\ Is(GetServerInfo[2], "use", "map", "here", {})
      /\ Is(GetServerInfo[3], "unlock", "self", "here", {})
  BY <1>1, Parts
<1>5. /\ Ordered("GetServerInfo", GetServerInfo, 1)
      /\ Ordered("GetServerInfo", GetServerInfo, 2)
      /\ Ordered("GetServerInfo", GetServerInfo, 3)
  BY <1>2, <1>3, <1>4 DEF Ordered, Is, Holds, Rank, Mutexes, Free, Map, MapSelf, Self,
       Black, Store, StoreSelf, StoreLog, MapStore
<1>6. /\ Guarded("GetServerInfo", GetServerInfo, 1)
      /\ Guarded("GetServerInfo", GetServerInfo, 2)
      /\ Guarded("GetServerInfo", GetServerInfo, 3)
  BY <1>1, <1>2, <1>3 DEF Guarded, Holds, Careless, Free, Map, MapSelf, Self, Black,
       Store, StoreSelf, StoreLog, MapStore, Instr, Lock, Unlock, Use
<1>7. /\ Placed("GetServerInfo", GetServerInfo, 1)
      /\ Placed("GetServerInfo", GetServerInfo, 2)
      /\ Placed("GetServerInfo", GetServerInfo, 3)
  BY <1>2, <1>3, <1>4 DEF Placed, Is, Onw
<1>8. /\ Tracked("GetServerInfo", GetServerInfo, 1)
      /\ Tracked("GetServerInfo", GetServerInfo, 2)
      /\ Tracked("GetServerInfo", GetServerInfo, 3)
  BY <1>1a, <1>2, <1>3, <1>4, Sums DEF Tracked, Is, Onw, After
<1>9. \A i \in 1 .. 3 : i = 1 \/ i = 2 \/ i = 3
  OBVIOUS
<1> QED
  BY <1>1a, <1>5, <1>6, <1>7, <1>8, <1>9 DEF Keeps

LEMMA HeartbeatNotificationKeeps ==
  \A i \in 1 .. Len(HeartbeatNotification) : Keeps("HeartbeatNotification", HeartbeatNotification, i)
<1>1. /\ HeartbeatNotification[1] = Lock("map")
      /\ HeartbeatNotification[2] = Lock("self")
      /\ HeartbeatNotification[3] = Use({}, {"map", "self"})
      /\ HeartbeatNotification[4] = Unlock("self")
      /\ HeartbeatNotification[5] = Unlock("map")
  BY DEF HeartbeatNotification
<1>1a. Len(HeartbeatNotification) = 5
  BY DEF HeartbeatNotification
<1>2. /\ Here["HeartbeatNotification"][1] = Free
      /\ Here["HeartbeatNotification"][2] = Map
      /\ Here["HeartbeatNotification"][3] = MapSelf
      /\ Here["HeartbeatNotification"][4] = MapSelf
      /\ Here["HeartbeatNotification"][5] = Map
      /\ Here["HeartbeatNotification"][6] = Free
  BY DEF Here
<1>3. /\ Away("HeartbeatNotification", 1) = Free
      /\ Away("HeartbeatNotification", 2) = Free
      /\ Away("HeartbeatNotification", 3) = Free
      /\ Away("HeartbeatNotification", 4) = Free
      /\ Away("HeartbeatNotification", 5) = Free
      /\ Away("HeartbeatNotification", 6) = Free
  BY DEF Away
<1>4. /\ Is(HeartbeatNotification[1], "lock", "map", "here", {})
      /\ Is(HeartbeatNotification[2], "lock", "self", "here", {})
      /\ Is(HeartbeatNotification[3], "use", "map", "here", {})
      /\ Is(HeartbeatNotification[4], "unlock", "self", "here", {})
      /\ Is(HeartbeatNotification[5], "unlock", "map", "here", {})
  BY <1>1, Parts
<1>5. /\ Ordered("HeartbeatNotification", HeartbeatNotification, 1)
      /\ Ordered("HeartbeatNotification", HeartbeatNotification, 2)
      /\ Ordered("HeartbeatNotification", HeartbeatNotification, 3)
      /\ Ordered("HeartbeatNotification", HeartbeatNotification, 4)
      /\ Ordered("HeartbeatNotification", HeartbeatNotification, 5)
  BY <1>2, <1>3, <1>4 DEF Ordered, Is, Holds, Rank, Mutexes, Free, Map, MapSelf, Self,
       Black, Store, StoreSelf, StoreLog, MapStore
<1>6. /\ Guarded("HeartbeatNotification", HeartbeatNotification, 1)
      /\ Guarded("HeartbeatNotification", HeartbeatNotification, 2)
      /\ Guarded("HeartbeatNotification", HeartbeatNotification, 3)
      /\ Guarded("HeartbeatNotification", HeartbeatNotification, 4)
      /\ Guarded("HeartbeatNotification", HeartbeatNotification, 5)
  BY <1>1, <1>2, <1>3 DEF Guarded, Holds, Careless, Free, Map, MapSelf, Self, Black,
       Store, StoreSelf, StoreLog, MapStore, Instr, Lock, Unlock, Use
<1>7. /\ Placed("HeartbeatNotification", HeartbeatNotification, 1)
      /\ Placed("HeartbeatNotification", HeartbeatNotification, 2)
      /\ Placed("HeartbeatNotification", HeartbeatNotification, 3)
      /\ Placed("HeartbeatNotification", HeartbeatNotification, 4)
      /\ Placed("HeartbeatNotification", HeartbeatNotification, 5)
  BY <1>2, <1>3, <1>4 DEF Placed, Is, Onw
<1>8. /\ Tracked("HeartbeatNotification", HeartbeatNotification, 1)
      /\ Tracked("HeartbeatNotification", HeartbeatNotification, 2)
      /\ Tracked("HeartbeatNotification", HeartbeatNotification, 3)
      /\ Tracked("HeartbeatNotification", HeartbeatNotification, 4)
      /\ Tracked("HeartbeatNotification", HeartbeatNotification, 5)
  BY <1>1a, <1>2, <1>3, <1>4, Sums DEF Tracked, Is, Onw, After
<1>9. \A i \in 1 .. 5 : i = 1 \/ i = 2 \/ i = 3 \/ i = 4 \/ i = 5
  OBVIOUS
<1> QED
  BY <1>1a, <1>5, <1>6, <1>7, <1>8, <1>9 DEF Keeps

LEMMA PrintMembershipListKeeps ==
  \A i \in 1 .. Len(PrintMembershipList) : Keeps("PrintMembershipList", PrintMembershipList, i)
<1>1. /\ PrintMembershipList[1] = Lock("map")
      /\ PrintMembershipList[2] = Lock("self")
      /\ PrintMembershipList[3] = Use({"map", "self"}, {})
      /\ PrintMembershipList[4] = Unlock("self")
      /\ PrintMembershipList[5] = Unlock("map")
  BY DEF PrintMembershipList
<1>1a. Len(PrintMembershipList) = 5
  BY DEF PrintMembershipList
<1>2. /\ Here["PrintMembershipList"][1] = Free
      /\ Here["PrintMembershipList"][2] = Map
      /\ Here["PrintMembershipList"][3] = MapSelf
      /\ Here["PrintMembershipList"][4] = MapSelf
      /\ Here["PrintMembershipList"][5] = Map /\ Here["PrintMembershipList"][6] = Free
  BY DEF Here
<1>3. /\ Away("PrintMembershipList", 1) = Free
      /\ Away("PrintMembershipList", 2) = Free
      /\ Away("PrintMembershipList", 3) = Free
      /\ Away("PrintMembershipList", 4) = Free
      /\ Away("PrintMembershipList", 5) = Free /\ Away("PrintMembershipList", 6) = Free
  BY DEF Away
<1>4. /\ Is(PrintMembershipList[1], "lock", "map", "here", {})
      /\ Is(PrintMembershipList[2], "lock", "self", "here", {})
      /\ Is(PrintMembershipList[3], "use", "map", "here", {})
      /\ Is(PrintMembershipList[4], "unlock", "self", "here", {})
      /\ Is(PrintMembershipList[5], "unlock", "map", "here", {})
  BY <1>1, Parts
<1>5. /\ Ordered("PrintMembershipList", PrintMembershipList, 1)
      /\ Ordered("PrintMembershipList", PrintMembershipList, 2)
      /\ Ordered("PrintMembershipList", PrintMembershipList, 3)
      /\ Ordered("PrintMembershipList", PrintMembershipList, 4)
      /\ Ordered("PrintMembershipList", PrintMembershipList, 5)
  BY <1>2, <1>3, <1>4 DEF Ordered, Is, Holds, Rank, Mutexes, Free, Map, MapSelf, Self,
       Black, Store, StoreSelf, StoreLog, MapStore
<1>6. /\ Guarded("PrintMembershipList", PrintMembershipList, 1)
      /\ Guarded("PrintMembershipList", PrintMembershipList, 2)
      /\ Guarded("PrintMembershipList", PrintMembershipList, 3)
      /\ Guarded("PrintMembershipList", PrintMembershipList, 4)
      /\ Guarded("PrintMembershipList", PrintMembershipList, 5)
  BY <1>1, <1>2, <1>3 DEF Guarded, Holds, Careless, Free, Map, MapSelf, Self, Black,
       Store, StoreSelf, StoreLog, MapStore, Instr, Lock, Unlock, Use
<1>7. /\ Placed("PrintMembershipList", PrintMembershipList, 1)
      /\ Placed("PrintMembershipList", PrintMembershipList, 2)
      /\ Placed("PrintMembershipList", PrintMembershipList, 3)
      /\ Placed("PrintMembershipList", PrintMembershipList, 4)
      /\ Placed("PrintMembershipList", PrintMembershipList, 5)
  BY <1>2, <1>3, <1>4 DEF Placed, Is, Onw
<1>8. /\ Tracked("PrintMembershipList", PrintMembershipList, 1)
      /\ Tracked("PrintMembershipList", PrintMembershipList, 2)
      /\ Tracked("PrintMembershipList", PrintMembershipList, 3)
      /\ Tracked("PrintMembershipList", PrintMembershipList, 4)
      /\ Tracked("PrintMembershipList", PrintMembershipList, 5)
  BY <1>1a, <1>2, <1>3, <1>4, Sums DEF Tracked, Is, Onw, After
<1>9. \A i \in 1 .. 5 : i = 1 \/ i = 2 \/ i = 3 \/ i = 4 \/ i = 5
  OBVIOUS
<1> QED
  BY <1>1a, <1>5, <1>6, <1>7, <1>8, <1>9 DEF Keeps

LEMMA CreateConnectionKeeps ==
  \A i \in 1 .. Len(CreateConnection) : Keeps("CreateConnection", CreateConnection, i)
<1>1. /\ CreateConnection[1] = Lock("self")
      /\ CreateConnection[2] = Use({"self"}, {})
      /\ CreateConnection[3] = Unlock("self") /\ CreateConnection[4] = Lock("black")
      /\ CreateConnection[5] = UseTo({}, {"black"}, {6, 9})
      /\ CreateConnection[6] = There(NewServerNotification[1], {})
      /\ CreateConnection[7] = There(NewServerNotification[2], {})
      /\ CreateConnection[8] = There(NewServerNotification[3], {})
      /\ CreateConnection[9] = Unlock("black")
  BY DEF CreateConnection
<1>1a. Len(CreateConnection) = 9
  BY DEF CreateConnection
<1>2. /\ Here["CreateConnection"][1] = Free /\ Here["CreateConnection"][2] = Self
      /\ Here["CreateConnection"][3] = Self /\ Here["CreateConnection"][4] = Free
      /\ Here["CreateConnection"][5] = Black /\ Here["CreateConnection"][6] = Black
      /\ Here["CreateConnection"][7] = Black /\ Here["CreateConnection"][8] = Black
      /\ Here["CreateConnection"][9] = Black /\ Here["CreateConnection"][10] = Free
  BY DEF Here
<1>3. /\ Away("CreateConnection", 1) = Free /\ Away("CreateConnection", 2) = Free
      /\ Away("CreateConnection", 3) = Free /\ Away("CreateConnection", 4) = Free
      /\ Away("CreateConnection", 5) = Free /\ Away("CreateConnection", 6) = Free
      /\ Away("CreateConnection", 7) = Map /\ Away("CreateConnection", 8) = Map
      /\ Away("CreateConnection", 9) = Free /\ Away("CreateConnection", 10) = Free
  BY DEF Away
<1>4. /\ Is(CreateConnection[1], "lock", "self", "here", {})
      /\ Is(CreateConnection[2], "use", "map", "here", {})
      /\ Is(CreateConnection[3], "unlock", "self", "here", {})
      /\ Is(CreateConnection[4], "lock", "black", "here", {})
      /\ Is(CreateConnection[5], "use", "map", "here", {6, 9})
      /\ Is(CreateConnection[6], "lock", "map", "there", {})
      /\ Is(CreateConnection[7], "use", "map", "there", {})
      /\ Is(CreateConnection[8], "unlock", "map", "there", {})
      /\ Is(CreateConnection[9], "unlock", "black", "here", {})
  BY <1>1, Parts, NewServerNotificationIs
<1>5. /\ Ordered("CreateConnection", CreateConnection, 1)
      /\ Ordered("CreateConnection", CreateConnection, 2)
      /\ Ordered("CreateConnection", CreateConnection, 3)
      /\ Ordered("CreateConnection", CreateConnection, 4)
      /\ Ordered("CreateConnection", CreateConnection, 5)
      /\ Ordered("CreateConnection", CreateConnection, 6)
      /\ Ordered("CreateConnection", CreateConnection, 7)
      /\ Ordered("CreateConnection", CreateConnection, 8)
      /\ Ordered("CreateConnection", CreateConnection, 9)
  BY <1>2, <1>3, <1>4 DEF Ordered, Is, Holds, Rank, Mutexes, Free, Map, MapSelf, Self,
       Black, Store, StoreSelf, StoreLog, MapStore
<1>6. /\ Guarded("CreateConnection", CreateConnection, 1)
      /\ Guarded("CreateConnection", CreateConnection, 2)
      /\ Guarded("CreateConnection", CreateConnection, 3)
      /\ Guarded("CreateConnection", CreateConnection, 4)
      /\ Guarded("CreateConnection", CreateConnection, 5)
      /\ Guarded("CreateConnection", CreateConnection, 6)
      /\ Guarded("CreateConnection", CreateConnection, 7)
      /\ Guarded("CreateConnection", CreateConnection, 8)
      /\ Guarded("CreateConnection", CreateConnection, 9)
  BY <1>1, <1>2, <1>3 DEF Guarded, Holds, Careless, Free, Map, MapSelf, Self, Black,
       Store, StoreSelf, StoreLog, MapStore, Instr, Lock, There, Unlock, Use, UseTo,
       NewServerNotification
<1>7. /\ Placed("CreateConnection", CreateConnection, 1)
      /\ Placed("CreateConnection", CreateConnection, 2)
      /\ Placed("CreateConnection", CreateConnection, 3)
      /\ Placed("CreateConnection", CreateConnection, 4)
      /\ Placed("CreateConnection", CreateConnection, 5)
      /\ Placed("CreateConnection", CreateConnection, 6)
      /\ Placed("CreateConnection", CreateConnection, 7)
      /\ Placed("CreateConnection", CreateConnection, 8)
      /\ Placed("CreateConnection", CreateConnection, 9)
  BY <1>2, <1>3, <1>4 DEF Placed, Is, Onw
<1>8. /\ Tracked("CreateConnection", CreateConnection, 1)
      /\ Tracked("CreateConnection", CreateConnection, 2)
      /\ Tracked("CreateConnection", CreateConnection, 3)
      /\ Tracked("CreateConnection", CreateConnection, 4)
      /\ Tracked("CreateConnection", CreateConnection, 5)
      /\ Tracked("CreateConnection", CreateConnection, 6)
      /\ Tracked("CreateConnection", CreateConnection, 7)
      /\ Tracked("CreateConnection", CreateConnection, 8)
      /\ Tracked("CreateConnection", CreateConnection, 9)
  BY <1>1a, <1>2, <1>3, <1>4, Sums DEF Tracked, Is, Onw, After
<1>9. \A i \in 1 .. 9 : i = 1 \/ i = 2 \/ i = 3 \/ i = 4 \/ i = 5 \/ i = 6 \/ i = 7 \/
         i = 8 \/ i = 9
  OBVIOUS
<1> QED
  BY <1>1a, <1>5, <1>6, <1>7, <1>8, <1>9 DEF Keeps

LEMMA BreakConnectionKeeps ==
  \A i \in 1 .. Len(BreakConnection) : Keeps("BreakConnection", BreakConnection, i)
<1>1. /\ BreakConnection[1] = Lock("map") /\ BreakConnection[2] = Unlock("map")
      /\ BreakConnection[3] = Lock("black")
      /\ BreakConnection[4] = Use({}, {"black", "map"})
      /\ BreakConnection[5] = Unlock("black")
  BY DEF BreakConnection
<1>1a. Len(BreakConnection) = 5
  BY DEF BreakConnection
<1>2. /\ Here["BreakConnection"][1] = Free /\ Here["BreakConnection"][2] = Map
      /\ Here["BreakConnection"][3] = Free /\ Here["BreakConnection"][4] = Black
      /\ Here["BreakConnection"][5] = Black /\ Here["BreakConnection"][6] = Free
  BY DEF Here
<1>3. /\ Away("BreakConnection", 1) = Free /\ Away("BreakConnection", 2) = Free
      /\ Away("BreakConnection", 3) = Free /\ Away("BreakConnection", 4) = Free
      /\ Away("BreakConnection", 5) = Free /\ Away("BreakConnection", 6) = Free
  BY DEF Away
<1>4. /\ Is(BreakConnection[1], "lock", "map", "here", {})
      /\ Is(BreakConnection[2], "unlock", "map", "here", {})
      /\ Is(BreakConnection[3], "lock", "black", "here", {})
      /\ Is(BreakConnection[4], "use", "map", "here", {})
      /\ Is(BreakConnection[5], "unlock", "black", "here", {})
  BY <1>1, Parts
<1>5. /\ Ordered("BreakConnection", BreakConnection, 1)
      /\ Ordered("BreakConnection", BreakConnection, 2)
      /\ Ordered("BreakConnection", BreakConnection, 3)
      /\ Ordered("BreakConnection", BreakConnection, 4)
      /\ Ordered("BreakConnection", BreakConnection, 5)
  BY <1>2, <1>3, <1>4 DEF Ordered, Is, Holds, Rank, Mutexes, Free, Map, MapSelf, Self,
       Black, Store, StoreSelf, StoreLog, MapStore
<1>6. /\ Guarded("BreakConnection", BreakConnection, 1)
      /\ Guarded("BreakConnection", BreakConnection, 2)
      /\ Guarded("BreakConnection", BreakConnection, 3)
      /\ Guarded("BreakConnection", BreakConnection, 4)
      /\ Guarded("BreakConnection", BreakConnection, 5)
  BY <1>1, <1>2, <1>3 DEF Guarded, Holds, Careless, Free, Map, MapSelf, Self, Black,
       Store, StoreSelf, StoreLog, MapStore, Instr, Lock, Unlock, Use
<1>7. /\ Placed("BreakConnection", BreakConnection, 1)
      /\ Placed("BreakConnection", BreakConnection, 2)
      /\ Placed("BreakConnection", BreakConnection, 3)
      /\ Placed("BreakConnection", BreakConnection, 4)
      /\ Placed("BreakConnection", BreakConnection, 5)
  BY <1>2, <1>3, <1>4 DEF Placed, Is, Onw
<1>8. /\ Tracked("BreakConnection", BreakConnection, 1)
      /\ Tracked("BreakConnection", BreakConnection, 2)
      /\ Tracked("BreakConnection", BreakConnection, 3)
      /\ Tracked("BreakConnection", BreakConnection, 4)
      /\ Tracked("BreakConnection", BreakConnection, 5)
  BY <1>1a, <1>2, <1>3, <1>4, Sums DEF Tracked, Is, Onw, After
<1>9. \A i \in 1 .. 5 : i = 1 \/ i = 2 \/ i = 3 \/ i = 4 \/ i = 5
  OBVIOUS
<1> QED
  BY <1>1a, <1>5, <1>6, <1>7, <1>8, <1>9 DEF Keeps

LEMMA KillServerKeeps ==
  \A i \in 1 .. Len(KillServer) : Keeps("KillServer", KillServer, i)
<1>1. /\ KillServer[1] = Lock("map") /\ KillServer[2] = Use({"black"}, {"map"})
      /\ KillServer[3] = Send /\ KillServer[4] = Unlock("map")
  BY DEF KillServer
<1>1a. Len(KillServer) = 4
  BY DEF KillServer
<1>2. /\ Here["KillServer"][1] = Free /\ Here["KillServer"][2] = Map
      /\ Here["KillServer"][3] = Map /\ Here["KillServer"][4] = Map
      /\ Here["KillServer"][5] = Free
  BY DEF Here
<1>3. /\ Away("KillServer", 1) = Free /\ Away("KillServer", 2) = Free
      /\ Away("KillServer", 3) = Free /\ Away("KillServer", 4) = Free
      /\ Away("KillServer", 5) = Free
  BY DEF Away
<1>4. /\ Is(KillServer[1], "lock", "map", "here", {})
      /\ Is(KillServer[2], "use", "map", "here", {})
      /\ Is(KillServer[3], "send", "map", "here", {})
      /\ Is(KillServer[4], "unlock", "map", "here", {})
  BY <1>1, Parts
<1>5. /\ Ordered("KillServer", KillServer, 1) /\ Ordered("KillServer", KillServer, 2)
      /\ Ordered("KillServer", KillServer, 3) /\ Ordered("KillServer", KillServer, 4)
  BY <1>2, <1>3, <1>4 DEF Ordered, Is, Holds, Rank, Mutexes, Free, Map, MapSelf, Self,
       Black, Store, StoreSelf, StoreLog, MapStore
<1>6. /\ Guarded("KillServer", KillServer, 1) /\ Guarded("KillServer", KillServer, 2)
      /\ Guarded("KillServer", KillServer, 3) /\ Guarded("KillServer", KillServer, 4)
  BY <1>1, <1>2, <1>3 DEF Guarded, Holds, Careless, Free, Map, MapSelf, Self, Black,
       Store, StoreSelf, StoreLog, MapStore, Instr, Lock, Unlock, Use, Send
<1>7. /\ Placed("KillServer", KillServer, 1) /\ Placed("KillServer", KillServer, 2)
      /\ Placed("KillServer", KillServer, 3) /\ Placed("KillServer", KillServer, 4)
  BY <1>2, <1>3, <1>4 DEF Placed, Is, Onw
<1>8. /\ Tracked("KillServer", KillServer, 1) /\ Tracked("KillServer", KillServer, 2)
      /\ Tracked("KillServer", KillServer, 3) /\ Tracked("KillServer", KillServer, 4)
  BY <1>1a, <1>2, <1>3, <1>4, Sums DEF Tracked, Is, Onw, After
<1>9. \A i \in 1 .. 4 : i = 1 \/ i = 2 \/ i = 3 \/ i = 4
  OBVIOUS
<1> QED
  BY <1>1a, <1>5, <1>6, <1>7, <1>8, <1>9 DEF Keeps

LEMMA PutKVServerKeeps ==
  \A i \in 1 .. Len(PutKVServer) : Keeps("PutKVServer", PutKVServer, i)
<1>1. /\ PutKVServer[1] = Lock("map") /\ PutKVServer[2] = Unlock("map")
      /\ PutKVServer[3] = Lock("store")
      /\ PutKVServer[4] = UseTo({}, {"store"}, {5, 8})
      /\ PutKVServer[5] = Lock("self") /\ PutKVServer[6] = Use({"self"}, {})
      /\ PutKVServer[7] = Unlock("self") /\ PutKVServer[8] = Lock("self")
      /\ PutKVServer[9] = Use({}, {"self"}) /\ PutKVServer[10] = Unlock("self")
      /\ PutKVServer[11] = Lock("log") /\ PutKVServer[12] = Use({}, {"log"})
      /\ PutKVServer[13] = Unlock("log")
      /\ PutKVServer[14] = Use({"store", "black"}, {"map"})
      /\ PutKVServer[15] = Unlock("store")
  BY DEF PutKVServer
<1>1a. Len(PutKVServer) = 15
  BY DEF PutKVServer
<1>2. /\ Here["PutKVServer"][1] = Free /\ Here["PutKVServer"][2] = Map
      /\ Here["PutKVServer"][3] = Free /\ Here["PutKVServer"][4] = Store
      /\ Here["PutKVServer"][5] = Store /\ Here["PutKVServer"][6] = StoreSelf
      /\ Here["PutKVServer"][7] = StoreSelf /\ Here["PutKVServer"][8] = Store
      /\ Here["PutKVServer"][9] = StoreSelf /\ Here["PutKVServer"][10] = StoreSelf
      /\ Here["PutKVServer"][11] = Store /\ Here["PutKVServer"][12] = StoreLog
      /\ Here["PutKVServer"][13] = StoreLog /\ Here["PutKVServer"][14] = Store
      /\ Here["PutKVServer"][15] = Store /\ Here["PutKVServer"][16] = Free
  BY DEF Here
<1>3. /\ Away("PutKVServer", 1) = Free /\ Away("PutKVServer", 2) = Free
      /\ Away("PutKVServer", 3) = Free /\ Away("PutKVServer", 4) = Free
      /\ Away("PutKVServer", 5) = Free /\ Away("PutKVServer", 6) = Free
      /\ Away("PutKVServer", 7) = Free /\ Away("PutKVServer", 8) = Free
      /\ Away("PutKVServer", 9) = Free /\ Away("PutKVServer", 10) = Free
      /\ Away("PutKVServer", 11) = Free /\ Away("PutKVServer", 12) = Free
      /\ Away("PutKVServer", 13) = Free /\ Away("PutKVServer", 14) = Free
      /\ Away("PutKVServer", 15) = Free /\ Away("PutKVServer", 16) = Free
  BY DEF Away
<1>4. /\ Is(PutKVServer[1], "lock", "map", "here", {})
      /\ Is(PutKVServer[2], "unlock", "map", "here", {})
      /\ Is(PutKVServer[3], "lock", "store", "here", {})
      /\ Is(PutKVServer[4], "use", "map", "here", {5, 8})
      /\ Is(PutKVServer[5], "lock", "self", "here", {})
      /\ Is(PutKVServer[6], "use", "map", "here", {})
      /\ Is(PutKVServer[7], "unlock", "self", "here", {})
      /\ Is(PutKVServer[8], "lock", "self", "here", {})
      /\ Is(PutKVServer[9], "use", "map", "here", {})
      /\ Is(PutKVServer[10], "unlock", "self", "here", {})
      /\ Is(PutKVServer[11], "lock", "log", "here", {})
      /\ Is(PutKVServer[12], "use", "map", "here", {})
      /\ Is(PutKVServer[13], "unlock", "log", "here", {})
      /\ Is(PutKVServer[14], "use", "map", "here", {})
      /\ Is(PutKVServer[15], "unlock", "store", "here", {})
  BY <1>1, Parts
<1>5. /\ Ordered("PutKVServer", PutKVServer, 1)
      /\ Ordered("PutKVServer", PutKVServer, 2)
      /\ Ordered("PutKVServer", PutKVServer, 3)
      /\ Ordered("PutKVServer", PutKVServer, 4)
      /\ Ordered("PutKVServer", PutKVServer, 5)
      /\ Ordered("PutKVServer", PutKVServer, 6)
      /\ Ordered("PutKVServer", PutKVServer, 7)
      /\ Ordered("PutKVServer", PutKVServer, 8)
      /\ Ordered("PutKVServer", PutKVServer, 9)
      /\ Ordered("PutKVServer", PutKVServer, 10)
      /\ Ordered("PutKVServer", PutKVServer, 11)
      /\ Ordered("PutKVServer", PutKVServer, 12)
      /\ Ordered("PutKVServer", PutKVServer, 13)
      /\ Ordered("PutKVServer", PutKVServer, 14)
      /\ Ordered("PutKVServer", PutKVServer, 15)
  BY <1>2, <1>3, <1>4 DEF Ordered, Is, Holds, Rank, Mutexes, Free, Map, MapSelf, Self,
       Black, Store, StoreSelf, StoreLog, MapStore
<1>6. /\ Guarded("PutKVServer", PutKVServer, 1)
      /\ Guarded("PutKVServer", PutKVServer, 2)
      /\ Guarded("PutKVServer", PutKVServer, 3)
      /\ Guarded("PutKVServer", PutKVServer, 4)
      /\ Guarded("PutKVServer", PutKVServer, 5)
      /\ Guarded("PutKVServer", PutKVServer, 6)
      /\ Guarded("PutKVServer", PutKVServer, 7)
      /\ Guarded("PutKVServer", PutKVServer, 8)
      /\ Guarded("PutKVServer", PutKVServer, 9)
      /\ Guarded("PutKVServer", PutKVServer, 10)
      /\ Guarded("PutKVServer", PutKVServer, 11)
      /\ Guarded("PutKVServer", PutKVServer, 12)
      /\ Guarded("PutKVServer", PutKVServer, 13)
      /\ Guarded("PutKVServer", PutKVServer, 14)
      /\ Guarded("PutKVServer", PutKVServer, 15)
  BY <1>1, <1>2, <1>3 DEF Guarded, Holds, Careless, Free, Map, MapSelf, Self, Black,
       Store, StoreSelf, StoreLog, MapStore, Instr, Lock, Unlock, Use, UseTo
<1>7. /\ Placed("PutKVServer", PutKVServer, 1)
      /\ Placed("PutKVServer", PutKVServer, 2)
      /\ Placed("PutKVServer", PutKVServer, 3)
      /\ Placed("PutKVServer", PutKVServer, 4)
      /\ Placed("PutKVServer", PutKVServer, 5)
      /\ Placed("PutKVServer", PutKVServer, 6)
      /\ Placed("PutKVServer", PutKVServer, 7)
      /\ Placed("PutKVServer", PutKVServer, 8)
      /\ Placed("PutKVServer", PutKVServer, 9)
      /\ Placed("PutKVServer", PutKVServer, 10)
      /\ Placed("PutKVServer", PutKVServer, 11)
      /\ Placed("PutKVServer", PutKVServer, 12)
      /\ Placed("PutKVServer", PutKVServer, 13)
      /\ Placed("PutKVServer", PutKVServer, 14) /\ Placed("PutKVServer", PutKVServer, 15)
  BY <1>2, <1>3, <1>4 DEF Placed, Is, Onw
<1>8. /\ Tracked("PutKVServer", PutKVServer, 1)
      /\ Tracked("PutKVServer", PutKVServer, 2)
      /\ Tracked("PutKVServer", PutKVServer, 3)
      /\ Tracked("PutKVServer", PutKVServer, 4)
      /\ Tracked("PutKVServer", PutKVServer, 5)
      /\ Tracked("PutKVServer", PutKVServer, 6)
      /\ Tracked("PutKVServer", PutKVServer, 7)
      /\ Tracked("PutKVServer", PutKVServer, 8)
      /\ Tracked("PutKVServer", PutKVServer, 9)
      /\ Tracked("PutKVServer", PutKVServer, 10)
      /\ Tracked("PutKVServer", PutKVServer, 11)
      /\ Tracked("PutKVServer", PutKVServer, 12)
      /\ Tracked("PutKVServer", PutKVServer, 13)
      /\ Tracked("PutKVServer", PutKVServer, 14)
      /\ Tracked("PutKVServer", PutKVServer, 15)
  BY <1>1a, <1>2, <1>3, <1>4, Sums DEF Tracked, Is, Onw, After
<1>9. \A i \in 1 .. 15 : i = 1 \/ i = 2 \/ i = 3 \/ i = 4 \/ i = 5 \/ i = 6 \/ i = 7 \/
         i = 8 \/ i = 9 \/ i = 10 \/ i = 11 \/ i = 12 \/ i = 13 \/ i = 14 \/ i = 15
  OBVIOUS
<1> QED
  BY <1>1a, <1>5, <1>6, <1>7, <1>8, <1>9 DEF Keeps

LEMMA GetKVServerKeeps ==
  \A i \in 1 .. Len(GetKVServer) : Keeps("GetKVServer", GetKVServer, i)
<1>1. /\ GetKVServer[1] = Lock("store") /\ GetKVServer[2] = Use({"store"}, {})
      /\ GetKVServer[3] = Lock("self") /\ GetKVServer[4] = Use({}, {"self"})
      /\ GetKVServer[5] = Unlock("self") /\ GetKVServer[6] = Unlock("store")
  BY DEF GetKVServer
<1>1a. Len(GetKVServer) = 6
  BY DEF GetKVServer
<1>2. /\ Here["GetKVServer"][1] = Free /\ Here["GetKVServer"][2] = Store
      /\ Here["GetKVServer"][3] = Store /\ Here["GetKVServer"][4] = StoreSelf
      /\ Here["GetKVServer"][5] = StoreSelf /\ Here["GetKVServer"][6] = Store
      /\ Here["GetKVServer"][7] = Free
  BY DEF Here
<1>3. /\ Away("GetKVServer", 1) = Free /\ Away("GetKVServer", 2) = Free
      /\ Away("GetKVServer", 3) = Free /\ Away("GetKVServer", 4) = Free
      /\ Away("GetKVServer", 5) = Free /\ Away("GetKVServer", 6) = Free
      /\ Away("GetKVServer", 7) = Free
  BY DEF Away
<1>4. /\ Is(GetKVServer[1], "lock", "store", "here", {})
      /\ Is(GetKVServer[2], "use", "map", "here", {})
      /\ Is(GetKVServer[3], "lock", "self", "here", {})
      /\ Is(GetKVServer[4], "use", "map", "here", {})
      /\ Is(GetKVServer[5], "unlock", "self", "here", {})
      /\ Is(GetKVServer[6], "unlock", "store", "here", {})
  BY <1>1, Parts
<1>5. /\ Ordered("GetKVServer", GetKVServer, 1)
      /\ Ordered("GetKVServer", GetKVServer, 2)
      /\ Ordered("GetKVServer", GetKVServer, 3)
      /\ Ordered("GetKVServer", GetKVServer, 4)
      /\ Ordered("GetKVServer", GetKVServer, 5) /\ Ordered("GetKVServer", GetKVServer, 6)
  BY <1>2, <1>3, <1>4 DEF Ordered, Is, Holds, Rank, Mutexes, Free, Map, MapSelf, Self,
       Black, Store, StoreSelf, StoreLog, MapStore
<1>6. /\ Guarded("GetKVServer", GetKVServer, 1)
      /\ Guarded("GetKVServer", GetKVServer, 2)
      /\ Guarded("GetKVServer", GetKVServer, 3)
      /\ Guarded("GetKVServer", GetKVServer, 4)
      /\ Guarded("GetKVServer", GetKVServer, 5) /\ Guarded("GetKVServer", GetKVServer, 6)
  BY <1>1, <1>2, <1>3 DEF Guarded, Holds, Careless, Free, Map, MapSelf, Self, Black,
       Store, StoreSelf, StoreLog, MapStore, Instr, Lock, Unlock, Use
<1>7. /\ Placed("GetKVServer", GetKVServer, 1)
      /\ Placed("GetKVServer", GetKVServer, 2)
      /\ Placed("GetKVServer", GetKVServer, 3)
      /\ Placed("GetKVServer", GetKVServer, 4)
      /\ Placed("GetKVServer", GetKVServer, 5) /\ Placed("GetKVServer", GetKVServer, 6)
  BY <1>2, <1>3, <1>4 DEF Placed, Is, Onw
<1>8. /\ Tracked("GetKVServer", GetKVServer, 1)
      /\ Tracked("GetKVServer", GetKVServer, 2)
      /\ Tracked("GetKVServer", GetKVServer, 3)
      /\ Tracked("GetKVServer", GetKVServer, 4)
      /\ Tracked("GetKVServer", GetKVServer, 5) /\ Tracked("GetKVServer", GetKVServer, 6)
  BY <1>1a, <1>2, <1>3, <1>4, Sums DEF Tracked, Is, Onw, After
<1>9. \A i \in 1 .. 6 : i = 1 \/ i = 2 \/ i = 3 \/ i = 4 \/ i = 5 \/ i = 6
  OBVIOUS
<1> QED
  BY <1>1a, <1>5, <1>6, <1>7, <1>8, <1>9 DEF Keeps

LEMMA ProcessRemoteWriteKeeps ==
  \A i \in 1 .. Len(ProcessRemoteWrite) : Keeps("ProcessRemoteWrite", ProcessRemoteWrite, i)
<1>1. /\ ProcessRemoteWrite[1] = Lock("store")
      /\ ProcessRemoteWrite[2] = UseTo({}, {"store"}, {3, 6})
      /\ ProcessRemoteWrite[3] = Lock("log")
      /\ ProcessRemoteWrite[4] = Use({}, {"log"})
      /\ ProcessRemoteWrite[5] = Unlock("log") /\ ProcessRemoteWrite[6] = Unlock("store")
  BY DEF ProcessRemoteWrite
<1>1a. Len(ProcessRemoteWrite) = 6
  BY DEF ProcessRemoteWrite
<1>2. /\ Here["ProcessRemoteWrite"][1] = Free
      /\ Here["ProcessRemoteWrite"][2] = Store
      /\ Here["ProcessRemoteWrite"][3] = Store
      /\ Here["ProcessRemoteWrite"][4] = StoreLog
      /\ Here["ProcessRemoteWrite"][5] = StoreLog
      /\ Here["ProcessRemoteWrite"][6] = Store /\ Here["ProcessRemoteWrite"][7] = Free
  BY DEF Here
<1>3. /\ Away("ProcessRemoteWrite", 1) = Free /\ Away("ProcessRemoteWrite", 2) = Free
      /\ Away("ProcessRemoteWrite", 3) = Free /\ Away("ProcessRemoteWrite", 4) = Free
      /\ Away("ProcessRemoteWrite", 5) = Free /\ Away("ProcessRemoteWrite", 6) = Free
      /\ Away("ProcessRemoteWrite", 7) = Free
  BY DEF Away
<1>4. /\ Is(ProcessRemoteWrite[1], "lock", "store", "here", {})
      /\ Is(ProcessRemoteWrite[2], "use", "map", "here", {3, 6})
      /\ Is(ProcessRemoteWrite[3], "lock", "log", "here", {})
      /\ Is(ProcessRemoteWrite[4], "use", "map", "here", {})
      /\ Is(ProcessRemoteWrite[5], "unlock", "log", "here", {})
      /\ Is(ProcessRemoteWrite[6], "unlock", "store", "here", {})
  BY <1>1, Parts
<1>5. /\ Ordered("ProcessRemoteWrite", ProcessRemoteWrite, 1)
      /\ Ordered("ProcessRemoteWrite", ProcessRemoteWrite, 2)
      /\ Ordered("ProcessRemoteWrite", ProcessRemoteWrite, 3)
      /\ Ordered("ProcessRemoteWrite", ProcessRemoteWrite, 4)
      /\ Ordered("ProcessRemoteWrite", ProcessRemoteWrite, 5)
      /\ Ordered("ProcessRemoteWrite", ProcessRemoteWrite, 6)
  BY <1>2, <1>3, <1>4 DEF Ordered, Is, Holds, Rank, Mutexes, Free, Map, MapSelf, Self,
       Black, Store, StoreSelf, StoreLog, MapStore
<1>6. /\ Guarded("ProcessRemoteWrite", ProcessRemoteWrite, 1)
      /\ Guarded("ProcessRemoteWrite", ProcessRemoteWrite, 2)
      /\ Guarded("ProcessRemoteWrite", ProcessRemoteWrite, 3)
      /\ Guarded("ProcessRemoteWrite", ProcessRemoteWrite, 4)
      /\ Guarded("ProcessRemoteWrite", ProcessRemoteWrite, 5)
      /\ Guarded("ProcessRemoteWrite", ProcessRemoteWrite, 6)
  BY <1>1, <1>2, <1>3 DEF Guarded, Holds, Careless, Free, Map, MapSelf, Self, Black,
       Store, StoreSelf, StoreLog, MapStore, Instr, Lock, Unlock, Use, UseTo
<1>7. /\ Placed("ProcessRemoteWrite", ProcessRemoteWrite, 1)
      /\ Placed("ProcessRemoteWrite", ProcessRemoteWrite, 2)
      /\ Placed("ProcessRemoteWrite", ProcessRemoteWrite, 3)
      /\ Placed("ProcessRemoteWrite", ProcessRemoteWrite, 4)
      /\ Placed("ProcessRemoteWrite", ProcessRemoteWrite, 5)
      /\ Placed("ProcessRemoteWrite", ProcessRemoteWrite, 6)
  BY <1>2, <1>3, <1>4 DEF Placed, Is, Onw
<1>8. /\ Tracked("ProcessRemoteWrite", ProcessRemoteWrite, 1)
      /\ Tracked("ProcessRemoteWrite", ProcessRemoteWrite, 2)
      /\ Tracked("ProcessRemoteWrite", ProcessRemoteWrite, 3)
      /\ Tracked("ProcessRemoteWrite", ProcessRemoteWrite, 4)
      /\ Tracked("ProcessRemoteWrite", ProcessRemoteWrite, 5)
      /\ Tracked("ProcessRemoteWrite", ProcessRemoteWrite, 6)
  BY <1>1a, <1>2, <1>3, <1>4, Sums DEF Tracked, Is, Onw, After
<1>9. \A i \in 1 .. 6 : i = 1 \/ i = 2 \/ i = 3 \/ i = 4 \/ i = 5 \/ i = 6
  OBVIOUS
<1> QED
  BY <1>1a, <1>5, <1>6, <1>7, <1>8, <1>9 DEF Keeps

LEMMA SendKVDataKeeps ==
  \A i \in 1 .. Len(SendKVData) : Keeps("SendKVData", SendKVData, i)
<1>1. /\ SendKVData[1] = Lock("store") /\ SendKVData[2] = Use({}, {"store"})
      /\ SendKVData[3] = Unlock("store")
  BY DEF SendKVData
<1>1a. Len(SendKVData) = 3
  BY DEF SendKVData
<1>2. /\ Here["SendKVData"][1] = Free /\ Here["SendKVData"][2] = Store
      /\ Here["SendKVData"][3] = Store /\ Here["SendKVData"][4] = Free
  BY DEF Here
<1>3. /\ Away("SendKVData", 1) = Free /\ Away("SendKVData", 2) = Free
      /\ Away("SendKVData", 3) = Free /\ Away("SendKVData", 4) = Free
  BY DEF Away
<1>4. /\ Is(SendKVData[1], "lock", "store", "here", {})
      /\ Is(SendKVData[2], "use", "map", "here", {})
      /\ Is(SendKVData[3], "unlock", "store", "here", {})
  BY <1>1, Parts
<1>5. /\ Ordered("SendKVData", SendKVData, 1) /\ Ordered("SendKVData", SendKVData, 2)
      /\ Ordered("SendKVData", SendKVData, 3)
  BY <1>2, <1>3, <1>4 DEF Ordered, Is, Holds, Rank, Mutexes, Free, Map, MapSelf, Self,
       Black, Store, StoreSelf, StoreLog, MapStore
<1>6. /\ Guarded("SendKVData", SendKVData, 1) /\ Guarded("SendKVData", SendKVData, 2)
      /\ Guarded("SendKVData", SendKVData, 3)
  BY <1>1, <1>2, <1>3 DEF Guarded, Holds, Careless, Free, Map, MapSelf, Self, Black,
       Store, StoreSelf, StoreLog, MapStore, Instr, Lock, Unlock, Use
<1>7. /\ Placed("SendKVData", SendKVData, 1) /\ Placed("SendKVData", SendKVData, 2)
      /\ Placed("SendKVData", SendKVData, 3)
  BY <1>2, <1>3, <1>4 DEF Placed, Is, Onw
<1>8. /\ Tracked("SendKVData", SendKVData, 1) /\ Tracked("SendKVData", SendKVData, 2)
      /\ Tracked("SendKVData", SendKVData, 3)
  BY <1>1a, <1>2, <1>3, <1>4, Sums DEF Tracked, Is, Onw, After
<1>9. \A i \in 1 .. 3 : i = 1 \/ i = 2 \/ i = 3
  OBVIOUS
<1> QED
  BY <1>1a, <1>5, <1>6, <1>7, <1>8, <1>9 DEF Keeps

LEMMA PrintStoreKeeps ==
  \A i \in 1 .. Len(PrintStore) : Keeps("PrintStore", PrintStore, i)
<1>1. /\ PrintStore[1] = Lock("self") /\ PrintStore[2] = Use({"self"}, {})
      /\ PrintStore[3] = Unlock("self") /\ PrintStore[4] = Lock("store")
      /\ PrintStore[5] = Use({"store"}, {}) /\ PrintStore[6] = Unlock("store")
  BY DEF PrintStore
<1>1a. Len(PrintStore) = 6
  BY DEF PrintStore
<1>2. /\ Here["PrintStore"][1] = Free /\ Here["PrintStore"][2] = Self
      /\ Here["PrintStore"][3] = Self /\ Here["PrintStore"][4] = Free
      /\ Here["PrintStore"][5] = Store /\ Here["PrintStore"][6] = Store
      /\ Here["PrintStore"][7] = Free
  BY DEF Here
<1>3. /\ Away("PrintStore", 1) = Free /\ Away("PrintStore", 2) = Free
      /\ Away("PrintStore", 3) = Free /\ Away("PrintStore", 4) = Free
      /\ Away("PrintStore", 5) = Free /\ Away("PrintStore", 6) = Free
      /\ Away("PrintStore", 7) = Free
  BY DEF Away
<1>4. /\ Is(PrintStore[1], "lock", "self", "here", {})
      /\ Is(PrintStore[2], "use", "map", "here", {})
      /\ Is(PrintStore[3], "unlock", "self", "here", {})
      /\ Is(PrintStore[4], "lock", "store", "here", {})
      /\ Is(PrintStore[5], "use", "map", "here", {})
      /\ Is(PrintStore[6], "unlock", "store", "here", {})
  BY <1>1, Parts
<1>5. /\ Ordered("PrintStore", PrintStore, 1) /\ Ordered("PrintStore", PrintStore, 2)
      /\ Ordered("PrintStore", PrintStore, 3) /\ Ordered("PrintStore", PrintStore, 4)
      /\ Ordered("PrintStore", PrintStore, 5) /\ Ordered("PrintStore", PrintStore, 6)
  BY <1>2, <1>3, <1>4 DEF Ordered, Is, Holds, Rank, Mutexes, Free, Map, MapSelf, Self,
       Black, Store, StoreSelf, StoreLog, MapStore
<1>6. /\ Guarded("PrintStore", PrintStore, 1) /\ Guarded("PrintStore", PrintStore, 2)
      /\ Guarded("PrintStore", PrintStore, 3) /\ Guarded("PrintStore", PrintStore, 4)
      /\ Guarded("PrintStore", PrintStore, 5) /\ Guarded("PrintStore", PrintStore, 6)
  BY <1>1, <1>2, <1>3 DEF Guarded, Holds, Careless, Free, Map, MapSelf, Self, Black,
       Store, StoreSelf, StoreLog, MapStore, Instr, Lock, Unlock, Use
<1>7. /\ Placed("PrintStore", PrintStore, 1) /\ Placed("PrintStore", PrintStore, 2)
      /\ Placed("PrintStore", PrintStore, 3) /\ Placed("PrintStore", PrintStore, 4)
      /\ Placed("PrintStore", PrintStore, 5) /\ Placed("PrintStore", PrintStore, 6)
  BY <1>2, <1>3, <1>4 DEF Placed, Is, Onw
<1>8. /\ Tracked("PrintStore", PrintStore, 1) /\ Tracked("PrintStore", PrintStore, 2)
      /\ Tracked("PrintStore", PrintStore, 3) /\ Tracked("PrintStore", PrintStore, 4)
      /\ Tracked("PrintStore", PrintStore, 5) /\ Tracked("PrintStore", PrintStore, 6)
  BY <1>1a, <1>2, <1>3, <1>4, Sums DEF Tracked, Is, Onw, After
<1>9. \A i \in 1 .. 6 : i = 1 \/ i = 2 \/ i = 3 \/ i = 4 \/ i = 5 \/ i = 6
  OBVIOUS
<1> QED
  BY <1>1a, <1>5, <1>6, <1>7, <1>8, <1>9 DEF Keeps

LEMMA StabilizeKeeps ==
  \A i \in 1 .. Len(Stabilize) : Keeps("Stabilize", Stabilize, i)
<1>1. /\ Stabilize[1] = Lock("map") /\ Stabilize[2] = EachMember({3, 10})
      /\ Stabilize[3] = UseTo({"black"}, {"map"}, {2, 4})
      /\ Stabilize[4] = Lock("store") /\ Stabilize[5] = Use({"store"}, {})
      /\ Stabilize[6] = UnlockTo("store", {2, 7})
      /\ Stabilize[7] = There(SendKVData[1], {})
      /\ Stabilize[8] = There(SendKVData[2], {})
      /\ Stabilize[9] = There(SendKVData[3], {2})
      /\ Stabilize[10] = UnlockTo("map", {1, 11})
  BY DEF Stabilize
<1>1a. Len(Stabilize) = 10
  BY DEF Stabilize
<1>2. /\ Here["Stabilize"][1] = Free /\ Here["Stabilize"][2] = Map
      /\ Here["Stabilize"][3] = Map /\ Here["Stabilize"][4] = Map
      /\ Here["Stabilize"][5] = MapStore /\ Here["Stabilize"][6] = MapStore
      /\ Here["Stabilize"][7] = Map /\ Here["Stabilize"][8] = Map
      /\ Here["Stabilize"][9] = Map /\ Here["Stabilize"][10] = Map
      /\ Here["Stabilize"][11] = Free
  BY DEF Here
<1>3. /\ Away("Stabilize", 1) = Free /\ Away("Stabilize", 2) = Free
      /\ Away("Stabilize", 3) = Free /\ Away("Stabilize", 4) = Free
      /\ Away("Stabilize", 5) = Free /\ Away("Stabilize", 6) = Free
      /\ Away("Stabilize", 7) = Free /\ Away("Stabilize", 8) = Store
      /\ Away("Stabilize", 9) = Store /\ Away("Stabilize", 10) = Free
      /\ Away("Stabilize", 11) = Free
  BY DEF Away
<1>4. /\ Is(Stabilize[1], "lock", "map", "here", {})
      /\ Is(Stabilize[2], "each", "map", "here", {3, 10})
      /\ Is(Stabilize[3], "use", "map", "here", {2, 4})
      /\ Is(Stabilize[4], "lock", "store", "here", {})
      /\ Is(Stabilize[5], "use", "map", "here", {})
      /\ Is(Stabilize[6], "unlock", "store", "here", {2, 7})
      /\ Is(Stabilize[7], "lock", "store", "there", {})
      /\ Is(Stabilize[8], "use", "map", "there", {})
      /\ Is(Stabilize[9], "unlock", "store", "there", {2})
      /\ Is(Stabilize[10], "unlock", "map", "here", {1, 11})
  BY <1>1, Parts, SendKVDataIs
<1>5. /\ Ordered("Stabilize", Stabilize, 1) /\ Ordered("Stabilize", Stabilize, 2)
      /\ Ordered("Stabilize", Stabilize, 3) /\ Ordered("Stabilize", Stabilize, 4)
      /\ Ordered("Stabilize", Stabilize, 5) /\ Ordered("Stabilize", Stabilize, 6)
      /\ Ordered("Stabilize", Stabilize, 7) /\ Ordered("Stabilize", Stabilize, 8)
      /\ Ordered("Stabilize", Stabilize, 9) /\ Ordered("Stabilize", Stabilize, 10)
  BY <1>2, <1>3, <1>4 DEF Ordered, Is, Holds, Rank, Mutexes, Free, Map, MapSelf, Self,
       Black, Store, StoreSelf, StoreLog, MapStore
<1>6. /\ Guarded("Stabilize", Stabilize, 1) /\ Guarded("Stabilize", Stabilize, 2)
      /\ Guarded("Stabilize", Stabilize, 3) /\ Guarded("Stabilize", Stabilize, 4)
      /\ Guarded("Stabilize", Stabilize, 5) /\ Guarded("Stabilize", Stabilize, 6)
      /\ Guarded("Stabilize", Stabilize, 7) /\ Guarded("Stabilize", Stabilize, 8)
      /\ Guarded("Stabilize", Stabilize, 9) /\ Guarded("Stabilize", Stabilize, 10)
  BY <1>1, <1>2, <1>3 DEF Guarded, Holds, Careless, Free, Map, MapSelf, Self, Black,
       Store, StoreSelf, StoreLog, MapStore, Instr, EachMember, Lock, There, Unlock,
       UnlockTo, Use, UseTo, SendKVData
<1>7. /\ Placed("Stabilize", Stabilize, 1) /\ Placed("Stabilize", Stabilize, 2)
      /\ Placed("Stabilize", Stabilize, 3) /\ Placed("Stabilize", Stabilize, 4)
      /\ Placed("Stabilize", Stabilize, 5) /\ Placed("Stabilize", Stabilize, 6)
      /\ Placed("Stabilize", Stabilize, 7) /\ Placed("Stabilize", Stabilize, 8)
      /\ Placed("Stabilize", Stabilize, 9) /\ Placed("Stabilize", Stabilize, 10)
  BY <1>2, <1>3, <1>4 DEF Placed, Is, Onw
<1>8. /\ Tracked("Stabilize", Stabilize, 1) /\ Tracked("Stabilize", Stabilize, 2)
      /\ Tracked("Stabilize", Stabilize, 3) /\ Tracked("Stabilize", Stabilize, 4)
      /\ Tracked("Stabilize", Stabilize, 5) /\ Tracked("Stabilize", Stabilize, 6)
      /\ Tracked("Stabilize", Stabilize, 7) /\ Tracked("Stabilize", Stabilize, 8)
      /\ Tracked("Stabilize", Stabilize, 9) /\ Tracked("Stabilize", Stabilize, 10)
  BY <1>1a, <1>2, <1>3, <1>4, Sums DEF Tracked, Is, Onw, After
<1>9. \A i \in 1 .. 10 : i = 1 \/ i = 2 \/ i = 3 \/ i = 4 \/ i = 5 \/ i = 6 \/ i = 7 \/
         i = 8 \/ i = 9 \/ i = 10
  OBVIOUS
<1> QED
  BY <1>1a, <1>5, <1>6, <1>7, <1>8, <1>9 DEF Keeps

LEMMA StartHeartbeatsKeeps ==
  \A i \in 1 .. Len(startHeartbeats) : Keeps("startHeartbeats", startHeartbeats, i)
<1>1. /\ startHeartbeats[1] = Select /\ startHeartbeats[2] = Lock("self")
      /\ startHeartbeats[3] = Use({}, {"self"}) /\ startHeartbeats[4] = Unlock("self")
      /\ startHeartbeats[5] = Lock("map") /\ startHeartbeats[6] = Use({}, {"map"})
      /\ startHeartbeats[7] = Lock("self") /\ startHeartbeats[8] = Use({"self"}, {})
      /\ startHeartbeats[9] = Unlock("self")
      /\ startHeartbeats[10] = Use({"black"}, {"map"})
      /\ startHeartbeats[11] = UnlockTo("map", {1})
  BY DEF startHeartbeats
<1>1a. Len(startHeartbeats) = 11
  BY DEF startHeartbeats
<1>2. /\ Here["startHeartbeats"][1] = Free /\ Here["startHeartbeats"][2] = Free
      /\ Here["startHeartbeats"][3] = Self /\ Here["startHeartbeats"][4] = Self
      /\ Here["startHeartbeats"][5] = Free /\ Here["startHeartbeats"][6] = Map
      /\ Here["startHeartbeats"][7] = Map /\ Here["startHeartbeats"][8] = MapSelf
      /\ Here["startHeartbeats"][9] = MapSelf /\ Here["startHeartbeats"][10] = Map
      /\ Here["startHeartbeats"][11] = Map /\ Here["startHeartbeats"][12] = Free
  BY DEF Here
<1>3. /\ Away("startHeartbeats", 1) = Free /\ Away("startHeartbeats", 2) = Free
      /\ Away("startHeartbeats", 3) = Free /\ Away("startHeartbeats", 4) = Free
      /\ Away("startHeartbeats", 5) = Free /\ Away("startHeartbeats", 6) = Free
      /\ Away("startHeartbeats", 7) = Free /\ Away("startHeartbeats", 8) = Free
      /\ Away("startHeartbeats", 9) = Free /\ Away("startHeartbeats", 10) = Free
      /\ Away("startHeartbeats", 11) = Free /\ Away("startHeartbeats", 12) = Free
  BY DEF Away
<1>4. /\ Is(startHeartbeats[1], "select", "map", "here", {})
      /\ Is(startHeartbeats[2], "lock", "self", "here", {})
      /\ Is(startHeartbeats[3], "use", "map", "here", {})
      /\ Is(startHeartbeats[4], "unlock", "self", "here", {})
      /\ Is(startHeartbeats[5], "lock", "map", "here", {})
      /\ Is(startHeartbeats[6], "use", "map", "here", {})
      /\ Is(startHeartbeats[7], "lock", "self", "here", {})
      /\ Is(startHeartbeats[8], "use", "map", "here", {})
      /\ Is(startHeartbeats[9], "unlock", "self", "here", {})
      /\ Is(startHeartbeats[10], "use", "map", "here", {})
      /\ Is(startHeartbeats[11], "unlock", "map", "here", {1})
  BY <1>1, Parts
<1>5. /\ Ordered("startHeartbeats", startHeartbeats, 1)
      /\ Ordered("startHeartbeats", startHeartbeats, 2)
      /\ Ordered("startHeartbeats", startHeartbeats, 3)
      /\ Ordered("startHeartbeats", startHeartbeats, 4)
      /\ Ordered("startHeartbeats", startHeartbeats, 5)
      /\ Ordered("startHeartbeats", startHeartbeats, 6)
      /\ Ordered("startHeartbeats", startHeartbeats, 7)
      /\ Ordered("startHeartbeats", startHeartbeats, 8)
      /\ Ordered("startHeartbeats", startHeartbeats, 9)
      /\ Ordered("startHeartbeats", startHeartbeats, 10)
      /\ Ordered("startHeartbeats", startHeartbeats, 11)
  BY <1>2, <1>3, <1>4 DEF Ordered, Is, Holds, Rank, Mutexes, Free, Map, MapSelf, Self,
       Black, Store, StoreSelf, StoreLog, MapStore
<1>6. /\ Guarded("startHeartbeats", startHeartbeats, 1)
      /\ Guarded("startHeartbeats", startHeartbeats, 2)
      /\ Guarded("startHeartbeats", startHeartbeats, 3)
      /\ Guarded("startHeartbeats", startHeartbeats, 4)
      /\ Guarded("startHeartbeats", startHeartbeats, 5)
      /\ Guarded("startHeartbeats", startHeartbeats, 6)
      /\ Guarded("startHeartbeats", startHeartbeats, 7)
      /\ Guarded("startHeartbeats", startHeartbeats, 8)
      /\ Guarded("startHeartbeats", startHeartbeats, 9)
      /\ Guarded("startHeartbeats", startHeartbeats, 10)
      /\ Guarded("startHeartbeats", startHeartbeats, 11)
  BY <1>1, <1>2, <1>3 DEF Guarded, Holds, Careless, Free, Map, MapSelf, Self, Black,
       Store, StoreSelf, StoreLog, MapStore, Instr, Lock, Unlock, UnlockTo, Use, Select
<1>7. /\ Placed("startHeartbeats", startHeartbeats, 1)
      /\ Placed("startHeartbeats", startHeartbeats, 2)
      /\ Placed("startHeartbeats", startHeartbeats, 3)
      /\ Placed("startHeartbeats", startHeartbeats, 4)
      /\ Placed("startHeartbeats", startHeartbeats, 5)
      /\ Placed("startHeartbeats", startHeartbeats, 6)
      /\ Placed("startHeartbeats", startHeartbeats, 7)
      /\ Placed("startHeartbeats", startHeartbeats, 8)
      /\ Placed("startHeartbeats", startHeartbeats, 9)
      /\ Placed("startHeartbeats", startHeartbeats, 10)
      /\ Placed("startHeartbeats", startHeartbeats, 11)
  BY <1>1a, <1>2, <1>3, <1>4 DEF Placed, Is, Onw
<1>8. /\ Tracked("startHeartbeats", startHeartbeats, 1)
      /\ Tracked("startHeartbeats", startHeartbeats, 2)
      /\ Tracked("startHeartbeats", startHeartbeats, 3)
      /\ Tracked("startHeartbeats", startHeartbeats, 4)
      /\ Tracked("startHeartbeats", startHeartbeats, 5)
      /\ Tracked("startHeartbeats", startHeartbeats, 6)
      /\ Tracked("startHeartbeats", startHeartbeats, 7)
      /\ Tracked("startHeartbeats", startHeartbeats, 8)
      /\ Tracked("startHeartbeats", startHeartbeats, 9)
      /\ Tracked("startHeartbeats", startHeartbeats, 10)
      /\ Tracked("startHeartbeats", startHeartbeats, 11)
  BY <1>1a, <1>2, <1>3, <1>4, Sums DEF Tracked, Is, Onw, After
<1>9. \A i \in 1 .. 11 : i = 1 \/ i = 2 \/ i = 3 \/ i = 4 \/ i = 5 \/ i = 6 \/ i = 7 \/
         i = 8 \/ i = 9 \/ i = 10 \/ i = 11
  OBVIOUS
<1> QED
  BY <1>1a, <1>5, <1>6, <1>7, <1>8, <1>9 DEF Keeps

----------------------------------------------------------------------------
(* The scripts together.                                                   *)

LEMMA Scripts ==
  /\ Handlers = {"JoinClusterAsServer", "NewServerNotification", "KillServerNotification",
                 "GetServerInfo", "HeartbeatNotification", "PrintMembershipList",
                 "CreateConnection", "BreakConnection", "KillServer", "PutKVServer",
                 "GetKVServer", "ProcessRemoteWrite", "SendKVData", "PrintStore",
                 "Stabilize", "startHeartbeats"}
  /\ Script["JoinClusterAsServer"] = JoinClusterAsServer
  /\ Script["NewServerNotification"] = NewServerNotification
  /\ Script["KillServerNotification"] = KillServerNotification
  /\ Script["GetServerInfo"] = GetServerInfo
  /\ Script["HeartbeatNotification"] = HeartbeatNotification
  /\ Script["PrintMembershipList"] = PrintMembershipList
  /\ Script["CreateConnection"] = CreateConnection
  /\ Script["BreakConnection"] = BreakConnection
  /\ Script["KillServer"] = KillServer
  /\ Script["PutKVServer"] = PutKVServer
  /\ Script["GetKVServer"] = GetKVServer
  /\ Script["ProcessRemoteWrite"] = ProcessRemoteWrite
  /\ Script["SendKVData"] = SendKVData
  /\ Script["PrintStore"] = PrintStore
  /\ Script["Stabilize"] = Stabilize
  /\ Script["startHeartbeats"] = startHeartbeats
  BY DEF Handlers, Script

Sequence(S) == DOMAIN S = 1 .. Len(S) /\ Len(S) \in Nat /\ 1 \in DOMAIN S

LEMMA Sequences ==
  \A r \in Handlers : Sequence(Script[r])
<1>1. Sequence(JoinClusterAsServer) /\ Sequence(NewServerNotification)
      /\ Sequence(KillServerNotification) /\ Sequence(GetServerInfo)
  BY DEF Sequence, JoinClusterAsServer, NewServerNotification, KillServerNotification,
         GetServerInfo
<1>2. Sequence(HeartbeatNotification) /\ Sequence(PrintMembershipList)
      /\ Sequence(CreateConnection) /\ Sequence(BreakConnection)
  BY DEF Sequence, HeartbeatNotification, PrintMembershipList, CreateConnection,
         BreakConnection
<1>3. Sequence(KillServer) /\ Sequence(PutKVServer) /\ Sequence(GetKVServer)
      /\ Sequence(ProcessRemoteWrite)
  BY DEF Sequence, KillServer, PutKVServer, GetKVServer, ProcessRemoteWrite
<1>4. Sequence(SendKVData) /\ Sequence(PrintStore) /\ Sequence(Stabilize)
      /\ Sequence(startHeartbeats)
  BY DEF Sequence, SendKVData, PrintStore, Stabilize, startHeartbeats
<1> QED
  BY <1>1, <1>2, <1>3, <1>4, Scripts

\* Every instruction of every handler keeps the discipline.
LEMMA AllKeep ==
  \A r \in Handlers : \A i \in DOMAIN Script[r] : Keeps(r, Script[r], i)
<1>1. ASSUME NEW r \in Handlers PROVE \A i \in 1 .. Len(Script[r]) : Keeps(r, Script[r], i)
  BY Scripts, JoinClusterAsServerKeeps, NewServerNotificationKeeps,
     KillServerNotificationKeeps, GetServerInfoKeeps, HeartbeatNotificationKeeps,
     PrintMembershipListKeeps, CreateConnectionKeeps, BreakConnectionKeeps,
     KillServerKeeps, PutKVServerKeeps, GetKVServerKeeps, ProcessRemoteWriteKeeps,
     SendKVDataKeeps, PrintStoreKeeps, StabilizeKeeps, StartHeartbeatsKeeps
<1> QED
  BY <1>1, Sequences DEF Sequence

\* A handler starts with no mutex.
LEMMA StartsFree ==
  \A r \in Handlers : Here[r][1] = Free /\ Away(r, 1) = Free
<1>1. ASSUME NEW r \in Handlers PROVE Here[r][1] = Free
  BY Scripts DEF Here
<1>2. ASSUME NEW r \in Handlers PROVE Away(r, 1) = Free
  BY DEF Away
<1> QED
  BY <1>1, <1>2

----------------------------------------------------------------------------
(* The inductive invariant.                                                *)

\* Thread t holds mutex m of server s, as its place in its script says.
Has(t, s, m) ==
  /\ t \in Busy
  /\ \/ s = at[t] /\ m \in Here[runs[t]][pc[t]]
     \/ s = peer[t] /\ m \in Away(runs[t], pc[t])

ThreadTypes ==
  /\ runs \in [Threads -> Handlers \cup {None}]
  /\ pc \in [Threads -> Nat]
  /\ at \in [Threads -> Servers \cup {None}]
  /\ peer \in [Threads -> Servers \cup {None}]
  /\ todo \in [Threads -> SUBSET Servers]

ThreadsInv ==
  /\ \A t \in Threads : runs[t] = None => pc[t] = 1
  /\ \A t \in Threads : runs[t] # None =>
       /\ pc[t] \in DOMAIN Script[runs[t]]
       /\ at[t] \in Servers /\ peer[t] \in Servers /\ at[t] \notin todo[t]
  /\ \A s \in Servers : runs[s] \in {None, "startHeartbeats"} /\ at[s] = s
  /\ \A w \in Workers :
       runs[w] # "startHeartbeats" /\ (runs[w] # None => peer[w] # at[w])

HolderInv ==
  /\ holder \in [Servers -> [Mutexes -> Threads \cup {None}]]
  /\ \A s \in Servers, m \in Mutexes, t \in Threads : holder[s][m] = t <=> Has(t, s, m)

\* A server is killed once, and until then its heartbeat thread runs.
KillInv ==
  /\ killed \in SUBSET Servers
  /\ \A s \in Servers \ killed : runs[s] # None
  /\ \A w \in Workers : runs[w] = "KillServer" =>
       /\ at[w] \in killed
       /\ pc[w] <= 3 => runs[at[w]] # None
       /\ \A u \in Workers : (runs[u] = "KillServer" /\ at[u] = at[w]) => u = w

LocksInv == ThreadTypes /\ ThreadsInv /\ HolderInv /\ KillInv

\* Thread t has gone on at instruction i of its handler, or the handler has ended.
Moved(t, i) ==
  /\ i \in Nat
  /\ runs' \in [Threads -> Handlers \cup {None}] /\ pc' \in [Threads -> Nat]
  /\ \A u \in Threads \ {t} : runs'[u] = runs[u] /\ pc'[u] = pc[u]
  /\ \/ runs'[t] = runs[t] /\ pc'[t] = i /\ i \in DOMAIN Script[runs[t]]
     \/ /\ runs'[t] = None /\ pc'[t] = 1 /\ runs[t] # "startHeartbeats"
        /\ Here[runs[t]][i] = Free /\ Away(runs[t], i) = Free
  /\ Here[runs[t]][i] = After(Now(t), "here", Here[runs[t]][pc[t]])
  /\ Away(runs[t], i) = After(Now(t), "there", Away(runs[t], pc[t]))
  /\ runs[t] = "KillServer" => i > pc[t]

LEMMA BusyThread ==
  ASSUME LocksInv, NEW t \in Threads, runs[t] # None
  PROVE  /\ runs[t] \in Handlers /\ pc[t] \in DOMAIN Script[runs[t]]
         /\ Keeps(runs[t], Script[runs[t]], pc[t]) /\ Sequence(Script[runs[t]])
         /\ Place(t) \in Servers /\ Now(t).m \in Mutexes
         /\ at[t] \in Servers /\ peer[t] \in Servers
<1>1. runs[t] \in Handlers /\ pc[t] \in DOMAIN Script[runs[t]]
      /\ at[t] \in Servers /\ peer[t] \in Servers
  BY DEF LocksInv, ThreadTypes, ThreadsInv
<1>2. Keeps(runs[t], Script[runs[t]], pc[t]) /\ Sequence(Script[runs[t]])
  BY <1>1, AllKeep, Sequences
<1>3. Place(t) \in Servers
  BY <1>1 DEF Place
<1>4. Now(t).m \in Mutexes
  BY <1>2 DEF Now, Keeps, Ordered
<1> QED
  BY <1>1, <1>2, <1>3, <1>4

LEMMA Goes ==
  ASSUME LocksInv, NEW t \in Threads, runs[t] # None,
         NEW i \in Onward(runs[t], pc[t]), GoTo(t, i)
  PROVE  Moved(t, i)
<1> DEFINE r == runs[t]
           S == Script[r]
<1>1. r \in Handlers /\ pc[t] \in DOMAIN S /\ Keeps(r, S, pc[t]) /\ Sequence(S)
  BY BusyThread
<1>2. i \in Onw(S, pc[t])
  BY DEF Onward, Onw
<1>3. /\ \/ i \in DOMAIN S
         \/ i = Len(S) + 1 /\ Here[r][i] = Free /\ Away(r, i) = Free
      /\ Here[r][i] = After(S[pc[t]], "here", Here[r][pc[t]])
      /\ Away(r, i) = After(S[pc[t]], "there", Away(r, pc[t]))
  BY <1>1, <1>2 DEF Keeps, Tracked, Sequence
<1>4. /\ r = "startHeartbeats" => i \in DOMAIN S
      /\ r = "KillServer" => i > pc[t]
  BY <1>1, <1>2 DEF Keeps, Placed, Sequence
<1>5. i \in DOMAIN S \/ i = Len(S) + 1
  BY <1>3
<1>6. /\ runs \in [Threads -> Handlers \cup {None}] /\ pc \in [Threads -> Nat]
  BY DEF LocksInv, ThreadTypes
<1>7. i \in Nat
  BY <1>1, <1>5 DEF Sequence
<1>8. /\ runs' \in [Threads -> Handlers \cup {None}] /\ pc' \in [Threads -> Nat]
      /\ \A u \in Threads \ {t} : runs'[u] = runs[u] /\ pc'[u] = pc[u]
  BY <1>6, <1>7 DEF GoTo
<1>9. \/ runs'[t] = r /\ pc'[t] = i /\ i \in DOMAIN S
      \/ i \notin DOMAIN S /\ runs'[t] = None /\ pc'[t] = 1
  BY <1>6 DEF GoTo
<1> QED
  BY <1>3, <1>4, <1>7, <1>8, <1>9 DEF Moved, Now

LEMMA MovedKeepsThreads ==
  ASSUME LocksInv, NEW t \in Threads, runs[t] # None, NEW i, Moved(t, i), at' = at,
         peer' \in [Threads -> Servers \cup {None}], todo' \in [Threads -> SUBSET Servers],
         \A u \in Threads \ {t} : peer'[u] = peer[u] /\ todo'[u] = todo[u],
         peer'[t] \in Servers, at[t] \notin todo'[t],
         t \in Workers => peer'[t] # at[t]
  PROVE  ThreadTypes' /\ ThreadsInv'
<1>1. ThreadTypes'
  BY DEF LocksInv, ThreadTypes, Moved
<1>2. \A u \in Threads : runs'[u] = None => pc'[u] = 1
  BY DEF LocksInv, ThreadsInv, Moved
<1>3. ASSUME NEW u \in Threads, runs'[u] # None
      PROVE  /\ pc'[u] \in DOMAIN Script[runs'[u]]
             /\ at[u] \in Servers /\ peer'[u] \in Servers /\ at[u] \notin todo'[u]
  BY <1>3 DEF LocksInv, ThreadsInv, Moved
<1>4. ASSUME NEW s \in Servers
      PROVE  runs'[s] \in {None, "startHeartbeats"} /\ at[s] = s
  BY DEF LocksInv, ThreadsInv, Moved, Threads
<1>5. ASSUME NEW w \in Workers
      PROVE  runs'[w] # "startHeartbeats" /\ (runs'[w] # None => peer'[w] # at[w])
  BY RequestsAssumption DEF LocksInv, ThreadsInv, Moved, Threads, Handlers, Script
<1>6. ThreadsInv'
  BY <1>2, <1>3, <1>4, <1>5 DEF ThreadsInv
<1> QED
  BY <1>1, <1>6

LEMMA MovedKeepsKill ==
  ASSUME LocksInv, NEW t \in Threads, runs[t] # None, NEW i, Moved(t, i), at' = at,
         killed' = killed
  PROVE  KillInv'
<1>1. None \notin Handlers /\ "KillServer" \in Handlers /\ "KillServer" # "startHeartbeats"
  BY RequestsAssumption DEF Handlers, Script
<1>2. ASSUME NEW s \in Servers, runs[s] # None
      PROVE  runs'[s] # None
  BY <1>2 DEF LocksInv, ThreadsInv, Moved, Threads
<1>3. ASSUME NEW w \in Workers, runs'[w] = "KillServer"
      PROVE  runs[w] = "KillServer" /\ (pc'[w] <= 3 => pc[w] <= 3)
  <2>1. CASE w = t
    <3>1. runs[t] = "KillServer" /\ pc'[t] = i /\ i > pc[t] /\ i \in Nat
      BY <1>1, <1>3, <2>1 DEF Moved
    <3>2. pc[t] \in Nat
      BY DEF LocksInv, ThreadTypes
    <3> QED
      BY <2>1, <3>1, <3>2
  <2>2. CASE w # t
    BY <1>3, <2>2 DEF Moved, Threads
  <2> QED
    BY <2>1, <2>2
<1>4. ASSUME NEW w \in Workers, runs'[w] = "KillServer"
      PROVE  /\ at[w] \in killed
             /\ pc'[w] <= 3 => runs'[at[w]] # None
             /\ \A u \in Workers : (runs'[u] = "KillServer" /\ at[u] = at[w]) => u = w
  <2>1. runs[w] = "KillServer" /\ (pc'[w] <= 3 => pc[w] <= 3)
    BY <1>3, <1>4
  <2>2. at[w] \in killed /\ at[w] \in Servers /\ (pc[w] <= 3 => runs[at[w]] # None)
    BY <2>1 DEF LocksInv, KillInv
  <2>3. \A u \in Workers : (runs[u] = "KillServer" /\ at[u] = at[w]) => u = w
    BY <2>1 DEF LocksInv, KillInv
  <2> QED
    BY <1>2, <1>3, <2>1, <2>2, <2>3
<1> QED
  BY <1>2, <1>4 DEF LocksInv, KillInv

LEMMA HasMoves ==
  ASSUME LocksInv, NEW t \in Threads, runs[t] # None, NEW i, Moved(t, i), at' = at,
         \A u \in Threads \ {t} : peer'[u] = peer[u], NEW s \in Servers, NEW m \in Mutexes
  PROVE  /\ \A u \in Threads \ {t} : Has(u, s, m)' <=> Has(u, s, m)
         /\ Has(t, s, m)' <=> \/ s = at[t] /\ m \in Here[runs[t]][i]
                              \/ s = peer'[t] /\ m \in Away(runs[t], i)
<1>1. ASSUME NEW u \in Threads \ {t}
      PROVE  Has(u, s, m)' <=> Has(u, s, m)
  BY DEF Moved, Has, Busy
<1>2. CASE runs'[t] = None
  BY <1>2 DEF Moved, Has, Busy, Free
<1>3. CASE runs'[t] # None
  BY <1>3 DEF Moved, Has, Busy
<1> QED
  BY <1>1, <1>2, <1>3

\* A step that takes or gives back no mutex.
LEMMA HolderStays ==
  ASSUME LocksInv, NEW t \in Threads, runs[t] # None, NEW i, Moved(t, i), at' = at,
         holder' = holder, \A u \in Threads \ {t} : peer'[u] = peer[u],
         Now(t).op \notin {"lock", "unlock"},
         peer'[t] = peer[t] \/ Away(runs[t], pc[t]) = Free
  PROVE  HolderInv'
<1>1. ASSUME NEW s \in Servers, NEW m \in Mutexes, NEW u \in Threads
      PROVE  holder'[s][m] = u <=> Has(u, s, m)'
  <2>1. holder[s][m] = u <=> Has(u, s, m)
    BY DEF LocksInv, HolderInv
  <2>2. CASE u # t
    BY <2>1, <2>2, HasMoves
  <2>3. CASE u = t
    <3>1. Has(t, s, m)' <=> \/ s = at[t] /\ m \in Here[runs[t]][i]
                            \/ s = peer'[t] /\ m \in Away(runs[t], i)
      BY HasMoves
    <3>2. /\ Here[runs[t]][i] = Here[runs[t]][pc[t]]
          /\ Away(runs[t], i) = Away(runs[t], pc[t])
      BY DEF Moved, After
    <3>3. Has(t, s, m) <=> \/ s = at[t] /\ m \in Here[runs[t]][pc[t]]
                           \/ s = peer[t] /\ m \in Away(runs[t], pc[t])
      BY DEF Has, Busy
    <3>4. Has(t, s, m)' <=> Has(t, s, m)
      BY <3>1, <3>2, <3>3 DEF Free
    <3> QED
      BY <2>1, <2>3, <3>4
  <2> QED
    BY <2>2, <2>3
<1> QED
  BY <1>1 DEF LocksInv, HolderInv

LEMMA TouchKeeps ==
  ASSUME LocksInv, NEW t \in Threads, Touch(t) \/ SelectDefault(t)
  PROVE  LocksInv'
<1>1. /\ runs[t] # None /\ Now(t).op \notin {"lock", "unlock"}
      /\ UNCHANGED <<at, peer, todo, holder, killed>>
  BY DEF Touch, SelectDefault, Does, Busy
<1>2. PICK i \in Onward(runs[t], pc[t]) : GoTo(t, i)
  BY DEF Touch, SelectDefault
<1>3. Moved(t, i)
  BY <1>1, <1>2, Goes
<1>4. ThreadTypes' /\ ThreadsInv'
  BY <1>1, <1>3, MovedKeepsThreads DEF LocksInv, ThreadTypes, ThreadsInv
<1>5. KillInv'
  BY <1>1, <1>3, MovedKeepsKill
<1>6. HolderInv'
  BY <1>1, <1>3, HolderStays
<1> QED
  BY <1>4, <1>5, <1>6 DEF LocksInv

LEMMA NextMemberKeeps ==
  ASSUME LocksInv, NEW t \in Threads, NextMember(t)
  PROVE  LocksInv'
<1>1. /\ runs[t] # None /\ Now(t).op = "each" /\ UNCHANGED <<at, holder, killed>>
  BY DEF NextMember, Does, Busy
<1>2. pc[t] + 1 \in Onward(runs[t], pc[t]) /\ Away(runs[t], pc[t]) = Free
  BY <1>1, BusyThread DEF Keeps, Placed, Onward, Onw, Now
<1>3. Now(t).to \ {pc[t] + 1} \subseteq Onward(runs[t], pc[t])
  BY DEF Onward, Now
<1>4. /\ \A u \in Threads \ {t} : peer'[u] = peer[u] /\ todo'[u] = todo[u]
      /\ peer' \in [Threads -> Servers \cup {None}] /\ todo' \in [Threads -> SUBSET Servers]
      /\ peer'[t] \in Servers /\ at[t] \notin todo'[t]
      /\ t \in Workers => peer'[t] # at[t]
  <2> USE <1>1, BusyThread DEF LocksInv, ThreadTypes, ThreadsInv
  <2>1. CASE \E p \in todo[t] : /\ peer' = [peer EXCEPT ![t] = p]
                                /\ todo' = [todo EXCEPT ![t] = todo[t] \ {p}]
    BY <2>1
  <2>2. CASE todo' = [todo EXCEPT ![t] = Servers \ {at[t]}] /\ peer' = peer
    BY <2>2
  <2> QED
    BY <2>1, <2>2 DEF NextMember
<1>5. PICK i \in Onward(runs[t], pc[t]) : GoTo(t, i)
  BY <1>2, <1>3 DEF NextMember
<1>6. Moved(t, i)
  BY <1>1, <1>5, Goes
<1>7. ThreadTypes' /\ ThreadsInv'
  BY <1>1, <1>4, <1>6, MovedKeepsThreads
<1>8. KillInv'
  BY <1>1, <1>6, MovedKeepsKill
<1>9. HolderInv'
  BY <1>1, <1>2, <1>4, <1>6, HolderStays
<1> QED
  BY <1>7, <1>8, <1>9 DEF LocksInv

LEMMA AcquireKeeps ==
  ASSUME LocksInv, NEW t \in Threads, Acquire(t)
  PROVE  LocksInv'
<1> DEFINE q == Place(t)
           n == Now(t).m
<1>1. /\ runs[t] # None /\ Now(t).op = "lock" /\ holder[q][n] = None
      /\ holder' = [holder EXCEPT ![q][n] = t] /\ UNCHANGED <<at, peer, todo, killed>>
  BY DEF Acquire, Does, Busy
<1>2. PICK i \in Onward(runs[t], pc[t]) : GoTo(t, i)
  BY DEF Acquire
<1>3. Moved(t, i)
  BY <1>1, <1>2, Goes
<1>4. ThreadTypes' /\ ThreadsInv'
  BY <1>1, <1>3, MovedKeepsThreads DEF LocksInv, ThreadTypes, ThreadsInv
<1>5. KillInv'
  BY <1>1, <1>3, MovedKeepsKill
<1>6. q \in Servers /\ n \in Mutexes /\ Now(t).place \in {"here", "there"}
  BY <1>1, BusyThread DEF Keeps, Ordered, Now
<1>7. ASSUME NEW s \in Servers, NEW m \in Mutexes, NEW u \in Threads
      PROVE  holder'[s][m] = u <=> Has(u, s, m)'
  <2>1. holder[s][m] = u <=> Has(u, s, m)
    BY DEF LocksInv, HolderInv
  <2>2. holder'[s][m] = IF s = q /\ m = n THEN t ELSE holder[s][m]
    BY <1>1, <1>6 DEF LocksInv, HolderInv
  <2>3. u # None
    BY ThreadsAssumption
  <2>4. CASE u # t
    <3>1. Has(u, s, m)' <=> Has(u, s, m)
      BY <1>1, <1>3, <2>4, HasMoves
    <3> QED
      BY <1>1, <2>1, <2>2, <2>3, <2>4, <3>1
  <2>5. CASE u = t
    <3>1. Has(t, s, m)' <=> \/ s = at[t] /\ m \in Here[runs[t]][i]
                            \/ s = peer[t] /\ m \in Away(runs[t], i)
      BY <1>1, <1>3, HasMoves
    <3>2. Has(t, s, m) <=> \/ s = at[t] /\ m \in Here[runs[t]][pc[t]]
                           \/ s = peer[t] /\ m \in Away(runs[t], pc[t])
      BY <1>1 DEF Has, Busy
    <3>3. CASE Now(t).place = "here"
      <4>1. /\ Here[runs[t]][i] = Here[runs[t]][pc[t]] \cup {n}
            /\ Away(runs[t], i) = Away(runs[t], pc[t]) /\ q = at[t]
        BY <1>1, <1>3, <3>3 DEF Moved, After, With, Place
      <4> QED
        BY <2>1, <2>2, <2>5, <3>1, <3>2, <4>1
    <3>4. CASE Now(t).place = "there"
      <4>1. /\ Here[runs[t]][i] = Here[runs[t]][pc[t]]
            /\ Away(runs[t], i) = Away(runs[t], pc[t]) \cup {n} /\ q = peer[t]
        BY <1>1, <1>3, <3>4 DEF Moved, After, With, Place
      <4> QED
        BY <2>1, <2>2, <2>5, <3>1, <3>2, <4>1
    <3> QED
      BY <1>6, <3>3, <3>4
  <2> QED
    BY <2>4, <2>5
<1>8. holder' \in [Servers -> [Mutexes -> Threads \cup {None}]]
  BY <1>1, <1>6 DEF LocksInv, HolderInv
<1>9. HolderInv'
  BY <1>7, <1>8 DEF HolderInv
<1> QED
  BY <1>4, <1>5, <1>9 DEF LocksInv

LEMMA ReleaseKeeps ==
  ASSUME LocksInv, NEW t \in Threads, Release(t)
  PROVE  LocksInv'
<1> DEFINE q == Place(t)
           n == Now(t).m
<1>1. /\ runs[t] # None /\ Now(t).op = "unlock"
      /\ holder' = [holder EXCEPT ![q][n] = None] /\ UNCHANGED <<at, peer, todo, killed>>
  BY DEF Release, Does, Busy
<1>2. PICK i \in Onward(runs[t], pc[t]) : GoTo(t, i)
  BY DEF Release
<1>3. Moved(t, i)
  BY <1>1, <1>2, Goes
<1>4. ThreadTypes' /\ ThreadsInv'
  BY <1>1, <1>3, MovedKeepsThreads DEF LocksInv, ThreadTypes, ThreadsInv
<1>5. KillInv'
  BY <1>1, <1>3, MovedKeepsKill
<1>6. /\ q \in Servers /\ n \in Mutexes /\ Now(t).place \in {"here", "there"}
      /\ n \in Holds(runs[t], pc[t], Now(t))
  BY <1>1, BusyThread DEF Keeps, Ordered, Now
<1>7. Has(t, q, n)
  BY <1>1, <1>6 DEF Has, Busy, Holds, Place
<1>8. holder[q][n] = t
  BY <1>6, <1>7 DEF LocksInv, HolderInv
<1>9. at[t] = peer[t] => Away(runs[t], pc[t]) = Free /\ Now(t).place = "here"
  <2>1. CASE t \in Workers
    BY <1>1, <2>1 DEF LocksInv, ThreadsInv
  <2>2. CASE t \in Servers
    <3>1. runs[t] = "startHeartbeats"
      BY <1>1, <2>2 DEF LocksInv, ThreadsInv
    <3> QED
      BY <1>1, <3>1, BusyThread DEF Keeps, Placed, Now
  <2> QED
    BY <2>1, <2>2 DEF Threads
<1>10. ASSUME NEW s \in Servers, NEW m \in Mutexes, NEW u \in Threads
       PROVE  holder'[s][m] = u <=> Has(u, s, m)'
  <2>1. holder[s][m] = u <=> Has(u, s, m)
    BY DEF LocksInv, HolderInv
  <2>2. holder'[s][m] = IF s = q /\ m = n THEN None ELSE holder[s][m]
    BY <1>1, <1>6 DEF LocksInv, HolderInv
  <2>3. u # None
    BY ThreadsAssumption
  <2>4. CASE u # t
    <3>1. Has(u, s, m)' <=> Has(u, s, m)
      BY <1>1, <1>3, <2>4, HasMoves
    <3> QED
      BY <1>8, <2>1, <2>2, <2>3, <2>4, <3>1
  <2>5. CASE u = t
    <3>1. Has(t, s, m)' <=> \/ s = at[t] /\ m \in Here[runs[t]][i]
                            \/ s = peer[t] /\ m \in Away(runs[t], i)
      BY <1>1, <1>3, HasMoves
    <3>2. Has(t, s, m) <=> \/ s = at[t] /\ m \in Here[runs[t]][pc[t]]
                           \/ s = peer[t] /\ m \in Away(runs[t], pc[t])
      BY <1>1 DEF Has, Busy
    <3>3. CASE Now(t).place = "here"
      <4>1. /\ Here[runs[t]][i] = Here[runs[t]][pc[t]] \ {n}
            /\ Away(runs[t], i) = Away(runs[t], pc[t]) /\ q = at[t]
        BY <1>1, <1>3, <3>3 DEF Moved, After, Without, Place
      <4> QED
        BY <1>9, <2>1, <2>2, <2>3, <2>5, <3>1, <3>2, <4>1 DEF Free
    <3>4. CASE Now(t).place = "there"
      <4>1. /\ Here[runs[t]][i] = Here[runs[t]][pc[t]]
            /\ Away(runs[t], i) = Away(runs[t], pc[t]) \ {n} /\ q = peer[t]
        BY <1>1, <1>3, <3>4 DEF Moved, After, Without, Place
      <4>2. at[t] # peer[t]
        BY <1>9, <3>4
      <4> QED
        BY <2>1, <2>2, <2>3, <2>5, <3>1, <3>2, <4>1, <4>2
    <3> QED
      BY <1>6, <3>3, <3>4
  <2> QED
    BY <2>4, <2>5
<1>11. holder' \in [Servers -> [Mutexes -> Threads \cup {None}]]
  BY <1>1, <1>6 DEF LocksInv, HolderInv
<1>12. HolderInv'
  BY <1>10, <1>11 DEF HolderInv
<1> QED
  BY <1>4, <1>5, <1>12 DEF LocksInv

\* The sender, KillServer, goes on and the heartbeat thread of its server ends.
LEMMA SendDoneKeeps ==
  ASSUME LocksInv, NEW t \in Threads, SendDone(t)
  PROVE  LocksInv'
<1> DEFINE h == at[t]
<1>1. /\ runs[t] # None /\ Now(t).op = "send" /\ h \in Threads /\ runs[h] # None
      /\ Now(h).op = "select" /\ UNCHANGED <<at, peer, todo, holder, killed>>
      /\ runs' = [runs EXCEPT ![h] = None] /\ pc' = [pc EXCEPT ![t] = pc[t] + 1]
  BY DEF SendDone, Does, Busy
<1>2. /\ runs[t] = "KillServer" /\ pc[t] = 3
      /\ runs[h] = "startHeartbeats" /\ pc[h] = 1
  BY <1>1, BusyThread DEF Keeps, Placed, Now
<1>3. t # h /\ t \in Workers /\ h \in Servers
  <2>1. t \notin Servers
    BY <1>1, <1>2 DEF LocksInv, ThreadsInv
  <2>2. h \notin Workers
    BY <1>2 DEF LocksInv, ThreadsInv
  <2> QED
    BY <1>1, <2>1, <2>2 DEF Threads
<1>4. /\ "KillServer" \in Handlers /\ None \notin Handlers
      /\ 4 \in DOMAIN Script["KillServer"]
  BY RequestsAssumption, Scripts DEF KillServer
<1>5. /\ runs'[t] = "KillServer" /\ pc'[t] = 4 /\ runs'[h] = None /\ pc'[h] = 1
      /\ \A u \in Threads \ {t, h} : runs'[u] = runs[u] /\ pc'[u] = pc[u]
  BY <1>1, <1>2, <1>3 DEF LocksInv, ThreadTypes
<1>6. ThreadTypes'
  BY <1>1 DEF LocksInv, ThreadTypes
<1>7. ThreadsInv'
  <2>1. \A u \in Threads : runs'[u] = None => pc'[u] = 1
    BY <1>4, <1>5 DEF LocksInv, ThreadsInv
  <2>2. ASSUME NEW u \in Threads, runs'[u] # None
        PROVE  /\ pc'[u] \in DOMAIN Script[runs'[u]]
               /\ at[u] \in Servers /\ peer[u] \in Servers /\ at[u] \notin todo[u]
    BY <1>2, <1>4, <1>5, <2>2 DEF LocksInv, ThreadsInv
  <2>3. ASSUME NEW s \in Servers
        PROVE  runs'[s] \in {None, "startHeartbeats"} /\ at[s] = s
    BY <1>3, <1>5, ThreadsAssumption DEF LocksInv, ThreadsInv, Threads
  <2>4. ASSUME NEW w \in Workers
        PROVE  runs'[w] # "startHeartbeats" /\ (runs'[w] # None => peer[w] # at[w])
    BY <1>2, <1>3, <1>4, <1>5, ThreadsAssumption DEF LocksInv, ThreadsInv, Threads
  <2> QED
    BY <1>1, <2>1, <2>2, <2>3, <2>4 DEF ThreadsInv
<1>8. KillInv'
  <2>1. h \in killed
    BY <1>2, <1>3 DEF LocksInv, KillInv
  <2>2. \A s \in Servers \ killed : runs'[s] # None
    BY <1>3, <1>4, <1>5, <2>1 DEF LocksInv, KillInv, Threads
  <2>3. ASSUME NEW w \in Workers, runs'[w] = "KillServer"
        PROVE  /\ at[w] \in killed
               /\ pc'[w] <= 3 => runs'[at[w]] # None
               /\ \A u \in Workers : (runs'[u] = "KillServer" /\ at[u] = at[w]) => u = w
    <3>1. \A u \in Workers : runs'[u] = runs[u] /\ (u # t => pc'[u] = pc[u])
      BY <1>2, <1>3, <1>5, ThreadsAssumption DEF Threads
    <3>2. at[w] \in killed /\ (pc[w] <= 3 => runs[at[w]] # None)
      BY <2>3, <3>1 DEF LocksInv, KillInv
    <3>3. \A u \in Workers : (runs'[u] = "KillServer" /\ at[u] = at[w]) => u = w
      BY <2>3, <3>1 DEF LocksInv, KillInv
    <3>4. w # t => at[w] # h
      BY <1>2, <1>3, <2>3, <3>1, <3>3
    <3>5. at[w] \in Servers
      BY <3>2 DEF LocksInv, KillInv
    <3>6. pc'[w] <= 3 => runs'[at[w]] # None
      <4>1. CASE w = t
        BY <1>5, <4>1
      <4>2. CASE w # t
        BY <1>5, <3>1, <3>2, <3>4, <3>5, <4>2, <1>2, <1>4 DEF Threads
      <4> QED
        BY <4>1, <4>2
    <3> QED
      BY <3>2, <3>3, <3>6
  <2> QED
    BY <1>1, <2>2, <2>3 DEF LocksInv, KillInv
<1>9. ASSUME NEW s \in Servers, NEW m \in Mutexes, NEW u \in Threads
      PROVE  holder'[s][m] = u <=> Has(u, s, m)'
  <2>1. holder[s][m] = u <=> Has(u, s, m)
    BY DEF LocksInv, HolderInv
  <2>2. CASE u \notin {t, h}
    BY <1>1, <1>5, <2>1, <2>2 DEF Has, Busy
  <2>3. CASE u = t
    <3>1. /\ Here["KillServer"][3] = Here["KillServer"][4]
          /\ Away("KillServer", 3) = Away("KillServer", 4)
      BY DEF Here, Away
    <3> QED
      BY <1>1, <1>2, <1>5, <2>1, <2>3, <3>1, <1>4 DEF Has, Busy
  <2>4. CASE u = h
    <3>1. ~Has(h, s, m)
      BY <1>2, StartsFree, Scripts DEF Has, Free
    <3>2. ~Has(h, s, m)'
      BY <1>1, <1>5 DEF Has, Busy
    <3> QED
      BY <1>1, <2>1, <2>4, <3>1, <3>2
  <2> QED
    BY <2>2, <2>3, <2>4
<1>10. HolderInv'
  BY <1>1, <1>9 DEF LocksInv, HolderInv
<1> QED
  BY <1>6, <1>7, <1>8, <1>10 DEF LocksInv

LEMMA BeginKeeps ==
  ASSUME LocksInv, NEW t \in Workers, NEW r \in Requests, NEW s \in Servers,
         NEW p \in Servers, Begin(t, r, s, p)
  PROVE  LocksInv'
<1>1. /\ runs[t] = None /\ MayAsk(r, s) /\ p # s
      /\ runs' = [runs EXCEPT ![t] = r] /\ at' = [at EXCEPT ![t] = s]
      /\ peer' = [peer EXCEPT ![t] = p] /\ todo' = [todo EXCEPT ![t] = Servers \ {s}]
      /\ killed' = (IF r = "KillServer" THEN killed \cup {s} ELSE killed)
      /\ UNCHANGED <<pc, holder>>
  BY DEF Begin
<1>2. /\ r \in Handlers /\ r # "startHeartbeats" /\ r # None /\ None \notin Handlers
      /\ t \in Threads /\ t \notin Servers
  BY RequestsAssumption, ThreadsAssumption DEF Threads
<1>3. /\ runs'[t] = r /\ at'[t] = s /\ peer'[t] = p /\ todo'[t] = Servers \ {s}
      /\ pc[t] = 1
      /\ \A u \in Threads \ {t} : /\ runs'[u] = runs[u] /\ at'[u] = at[u]
                                  /\ peer'[u] = peer[u] /\ todo'[u] = todo[u]
  BY <1>1, <1>2 DEF LocksInv, ThreadTypes, ThreadsInv
<1>4. ThreadTypes'
  BY <1>1, <1>2 DEF LocksInv, ThreadTypes
<1>5. ThreadsInv'
  <2>1. \A u \in Threads : runs'[u] = None => pc'[u] = 1
    BY <1>1, <1>2, <1>3 DEF LocksInv, ThreadsInv
  <2>2. ASSUME NEW u \in Threads, runs'[u] # None
        PROVE  /\ pc'[u] \in DOMAIN Script[runs'[u]]
               /\ at'[u] \in Servers /\ peer'[u] \in Servers /\ at'[u] \notin todo'[u]
    <3>1. CASE u = t
      BY <1>1, <1>2, <1>3, <3>1, Sequences DEF Sequence
    <3>2. CASE u # t
      BY <1>1, <1>3, <2>2, <3>2 DEF LocksInv, ThreadsInv
    <3> QED
      BY <3>1, <3>2
  <2>3. ASSUME NEW x \in Servers
        PROVE  runs'[x] \in {None, "startHeartbeats"} /\ at'[x] = x
    BY <1>2, <1>3 DEF LocksInv, ThreadsInv, Threads
  <2>4. ASSUME NEW w \in Workers
        PROVE  runs'[w] # "startHeartbeats" /\ (runs'[w] # None => peer'[w] # at'[w])
    BY <1>1, <1>2, <1>3 DEF LocksInv, ThreadsInv, Threads
  <2> QED
    BY <2>1, <2>2, <2>3, <2>4 DEF ThreadsInv
<1>6. KillInv'
  <2>1. killed' \in SUBSET Servers /\ killed \subseteq killed'
    BY <1>1 DEF LocksInv, KillInv
  <2>2. \A x \in Servers \ killed' : runs'[x] # None
    BY <1>2, <1>3, <2>1 DEF LocksInv, KillInv, Threads
  <2>3. ASSUME NEW w \in Workers, runs'[w] = "KillServer"
        PROVE  /\ at'[w] \in killed'
               /\ pc'[w] <= 3 => runs'[at'[w]] # None
               /\ \A u \in Workers : (runs'[u] = "KillServer" /\ at'[u] = at'[w]) => u = w
    <3>1. \A x \in Servers : runs'[x] = runs[x]
      BY <1>2, <1>3 DEF Threads
    <3>2. \A u \in Workers \ {t} : runs'[u] = runs[u] /\ at'[u] = at[u]
      BY <1>3 DEF Threads
    <3>3. \A u \in Workers \ {t} : runs[u] = "KillServer" => at[u] \in killed
      BY DEF LocksInv, KillInv
    <3>4. r = "KillServer" => s \notin killed /\ s \in killed'
      BY <1>1 DEF MayAsk
    <3>5. CASE w = t
      BY <1>3, <2>3, <3>1, <3>2, <3>3, <3>4, <3>5 DEF LocksInv, KillInv
    <3>6. CASE w # t
      <4>1. runs[w] = "KillServer" /\ at'[w] = at[w] /\ at[w] \in killed
        BY <2>3, <3>2, <3>3, <3>6
      <4>2. at[w] \in Servers
        BY <4>1 DEF LocksInv, KillInv
      <4>3. pc'[w] <= 3 => runs'[at'[w]] # None
        BY <1>1, <3>1, <4>1, <4>2 DEF LocksInv, KillInv
      <4>4. \A u \in Workers : (runs'[u] = "KillServer" /\ at'[u] = at'[w]) => u = w
        BY <1>3, <3>2, <3>4, <4>1 DEF LocksInv, KillInv
      <4> QED
        BY <2>1, <4>1, <4>3, <4>4
    <3> QED
      BY <3>5, <3>6
  <2> QED
    BY <2>1, <2>2, <2>3 DEF KillInv
<1>7. ASSUME NEW x \in Servers, NEW m \in Mutexes, NEW u \in Threads
      PROVE  holder'[x][m] = u <=> Has(u, x, m)'
  <2>1. holder[x][m] = u <=> Has(u, x, m)
    BY DEF LocksInv, HolderInv
  <2>2. CASE u # t
    BY <1>1, <1>3, <2>1, <2>2 DEF Has, Busy
  <2>3. CASE u = t
    <3>1. ~Has(t, x, m)
      BY <1>1 DEF Has, Busy
    <3>2. ~Has(t, x, m)'
      BY <1>1, <1>2, <1>3, StartsFree DEF Has, Free
    <3> QED
      BY <1>1, <2>1, <2>3, <3>1, <3>2
  <2> QED
    BY <2>2, <2>3
<1>8. HolderInv'
  BY <1>1, <1>7 DEF LocksInv, HolderInv
<1> QED
  BY <1>4, <1>5, <1>6, <1>8 DEF LocksInv

LEMMA InitLocks == Init => LocksInv
<1> SUFFICES ASSUME Init PROVE LocksInv
  OBVIOUS
<1>1. "startHeartbeats" \in Handlers /\ "KillServer" # "startHeartbeats" /\ None \notin Handlers
      /\ "KillServer" \in Handlers
  BY RequestsAssumption, Scripts
<1>2. ThreadTypes
  BY <1>1 DEF Init, ThreadTypes, Threads
<1>3. ThreadsInv
  BY <1>1, ThreadsAssumption, Sequences DEF Init, ThreadsInv, Threads, Sequence
<1>4. KillInv
  BY <1>1, ThreadsAssumption DEF Init, KillInv, Threads
<1>5. ASSUME NEW s \in Servers, NEW m \in Mutexes, NEW t \in Threads
      PROVE  holder[s][m] = t <=> Has(t, s, m)
  <2>1. holder[s][m] # t
    BY ThreadsAssumption DEF Init
  <2>2. t \in Servers => ~Has(t, s, m)
    BY <1>1, StartsFree DEF Init, Has, Free
  <2>3. t \notin Servers => ~Has(t, s, m)
    BY DEF Init, Has, Busy
  <2> QED
    BY <2>1, <2>2, <2>3
<1>6. HolderInv
  BY <1>5 DEF Init, HolderInv
<1> QED
  BY <1>2, <1>3, <1>4, <1>6 DEF LocksInv

LEMMA NextLocks == LocksInv /\ [Next]_vars => LocksInv'
<1> SUFFICES ASSUME LocksInv, [Next]_vars PROVE LocksInv'
  OBVIOUS
<1>1. CASE UNCHANGED vars
  BY <1>1 DEF vars, LocksInv, ThreadTypes, ThreadsInv, HolderInv, KillInv, Has, Busy
<1>2. ASSUME NEW t \in Threads, Step(t) PROVE LocksInv'
  BY <1>2, AcquireKeeps, ReleaseKeeps, TouchKeeps, NextMemberKeeps, SendDoneKeeps DEF Step
<1>3. ASSUME NEW t \in Workers, NEW r \in Requests, NEW s \in Servers, NEW p \in Servers,
             Begin(t, r, s, p)
      PROVE  LocksInv'
  BY <1>3, BeginKeeps
<1> QED
  BY <1>1, <1>2, <1>3 DEF Next

\* A thread holds exactly the mutexes that its place in its handler says.
THEOREM LocksHold == Spec => []LocksInv
  BY InitLocks, NextLocks, PTL DEF Spec

----------------------------------------------------------------------------
(* What it shows.                                                          *)

\* Types, and no thread ends with a mutex in its hands.
THEOREM TypeCorrect == Spec => []TypeOK
<1>1. LocksInv => TypeOK
  <2> SUFFICES ASSUME LocksInv PROVE TypeOK
    OBVIOUS
  <2>1. ASSUME NEW s \in Servers, NEW m \in Mutexes
        PROVE  holder[s][m] \in Busy \cup {None}
    BY DEF LocksInv, HolderInv, Has
  <2>2. holder \in [Servers -> [Mutexes -> Busy \cup {None}]]
    BY <2>1 DEF LocksInv, HolderInv
  <2> QED
    BY <2>2 DEF TypeOK, LocksInv, ThreadTypes, ThreadsInv, KillInv, Busy
<1> QED
  BY <1>1, LocksHold, PTL

\* Two threads use a variable at once, and one writes it, only in the ways
\* that RacesKnown names.
THEOREM NoOtherRaces == Spec => []RacesKnown
<1>1. LocksInv => RacesKnown
  <2> SUFFICES ASSUME LocksInv, NEW t \in Threads, NEW u \in Threads,
                      Does(t, "use"), Does(u, "use"), NEW x \in Mutexes, Race(t, u, x)
               PROVE  \/ x = "map" /\ {runs[t], runs[u]} \cap Careless # {}
                      \/ x = "black" /\ runs[t] \in {"BreakConnection", "CreateConnection"}
    BY DEF RacesKnown
  <2>1. runs[t] # None /\ runs[u] # None
    BY DEF Does, Busy
  <2>2. t # u /\ Place(t) = Place(u) /\ x \in Now(t).writes
        /\ x \in Now(u).reads \cup Now(u).writes
    BY DEF Race
  <2>3. /\ \/ x \in Holds(runs[t], pc[t], Now(t))
           \/ x = "map" /\ runs[t] \in Careless
        /\ x = "black" => runs[t] \in {"BreakConnection", "CreateConnection"}
    BY <2>1, <2>2, BusyThread DEF Keeps, Guarded, Now
  <2>4. \/ x \in Holds(runs[u], pc[u], Now(u))
        \/ x = "map" /\ runs[u] \in Careless
        \/ x = "black"
    BY <2>1, <2>2, BusyThread DEF Keeps, Guarded, Now
  <2>5. ASSUME NEW v \in Threads, runs[v] # None, x \in Holds(runs[v], pc[v], Now(v))
        PROVE  holder[Place(v)][x] = v
    <3>1. Place(v) \in Servers /\ Now(v).place \in {"here", "there"}
      BY <2>5, BusyThread DEF Keeps, Ordered, Now
    <3>2. Has(v, Place(v), x)
      BY <2>5, <3>1 DEF Has, Busy, Holds, Place
    <3> QED
      BY <3>1, <3>2 DEF LocksInv, HolderInv
  <2>6. ~(x \in Holds(runs[t], pc[t], Now(t)) /\ x \in Holds(runs[u], pc[u], Now(u)))
    BY <2>1, <2>2, <2>5
  <2> QED
    BY <2>3, <2>4, <2>6
<1> QED
  BY <1>1, LocksHold, PTL

\* A thread that waits for a mutex waits for one that is later in the order
\* than all it holds.
LEMMA WaitsInOrder ==
  ASSUME LocksInv, NEW t \in Threads, Does(t, "lock"),
         NEW s \in Servers, NEW m \in Mutexes, holder[s][m] = t
  PROVE  Rank[m] < Rank[Now(t).m]
<1>1. Has(t, s, m) /\ runs[t] # None /\ Now(t).op = "lock"
  BY DEF LocksInv, HolderInv, Does, Busy
<1>2. m \in Here[runs[t]][pc[t]] \cup Away(runs[t], pc[t])
  BY <1>1 DEF Has
<1> QED
  BY <1>1, <1>2, BusyThread DEF Keeps, Ordered, Now

LEMMA Sender ==
  ASSUME LocksInv, NEW t \in Threads, Does(t, "send")
  PROVE  /\ runs[t] = "KillServer" /\ pc[t] = 3
         /\ at[t] \in Servers /\ at[t] \in Busy /\ runs[at[t]] = "startHeartbeats"
         /\ \A s \in Servers, m \in Mutexes : holder[s][m] = t <=> s = at[t] /\ m = "map"
<1>1. runs[t] # None /\ runs[t] = "KillServer" /\ pc[t] = 3 /\ at[t] \in Servers
  BY BusyThread DEF Does, Busy, Keeps, Placed, Now
<1>2. t \in Workers
  BY <1>1, Scripts DEF LocksInv, ThreadsInv, Threads
<1>3. runs[at[t]] # None
  BY <1>1, <1>2 DEF LocksInv, KillInv
<1>4. at[t] \in Busy /\ runs[at[t]] = "startHeartbeats"
  BY <1>1, <1>3 DEF LocksInv, ThreadsInv, Busy, Threads
<1>5. Here["KillServer"][3] = Map /\ Away("KillServer", 3) = Free
  BY DEF Here, Away
<1>6. ASSUME NEW s \in Servers, NEW m \in Mutexes
      PROVE  holder[s][m] = t <=> s = at[t] /\ m = "map"
  BY <1>1, <1>5 DEF LocksInv, HolderInv, Has, Busy, Map, Free
<1> QED
  BY <1>1, <1>4, <1>6

\* A set of threads that wait only for each other has KillServer in it, at its
\* send, and the heartbeat thread of its server at the lock of serverMap.
THEOREM DeadlockIsKill == Spec => []OnlyKillDeadlocks
<1>1. LocksInv => OnlyKillDeadlocks
  <2> SUFFICES ASSUME LocksInv, NEW S \in (SUBSET {t \in Busy : Blocked(t)}) \ {{}},
                      \A t \in S : WaitsFor(t) \subseteq S, \A t \in S : ~KillStuck(t)
               PROVE  FALSE
    BY DEF OnlyKillDeadlocks
  <2>1. \A t \in S : t \in Threads /\ t \in Busy /\ Blocked(t)
    BY DEF Busy
  <2>2. \A m \in Mutexes : Rank[m] \in 1 .. 4
    BY DEF Rank, Mutexes
  \* the thread that holds what t waits for waits as well
  <2>3. ASSUME NEW t \in S, Does(t, "lock")
        PROVE  \E u \in S, s \in Servers : holder[s][Now(t).m] = u /\ Now(t).m \in Mutexes
    <3>1. Place(t) \in Servers /\ Now(t).m \in Mutexes
      BY <2>1, BusyThread DEF Busy
    <3>2. ~Does(t, "send")
      BY <2>3 DEF Does
    <3>3. holder[Place(t)][Now(t).m] # None
      BY <2>1, <3>2 DEF Blocked
    <3>4. holder[Place(t)][Now(t).m] \in S
      BY <2>3, <3>3 DEF WaitsFor
    <3> QED
      BY <3>1, <3>4
  \* nobody waits to send
  <2>4. ASSUME NEW t \in S, Does(t, "send")
        PROVE  FALSE
    <3> DEFINE h == at[t]
    <3>1. /\ h \in Busy /\ h \in Servers /\ runs[h] = "startHeartbeats" /\ holder[h]["map"] = t
          /\ h \in Threads
      BY <2>1, <2>4, Sender DEF Mutexes, Busy
    <3>2. ~Does(t, "lock")
      BY <2>4 DEF Does
    <3>3. h \in S
      BY <2>1, <2>4, <3>1, <3>2 DEF Blocked, WaitsFor
    <3>4. ~Does(h, "send")
      BY <3>1, Sender
    <3>5. Does(h, "lock")
      BY <2>1, <3>3, <3>4 DEF Blocked
    <3>6. Now(h).m \in {"map", "self"}
      BY <3>1, <3>5, BusyThread DEF Keeps, Placed, Does, Busy, Now
    <3>7. Now(h).m # "map"
      BY <2>4, <3>1, <3>5 DEF KillStuck
    <3>8. PICK u \in S, s \in Servers : holder[s]["self"] = u
      BY <2>3, <3>3, <3>5, <3>6, <3>7
    <3>9. CASE Does(u, "send")
      BY <2>1, <3>8, <3>9, Sender DEF Mutexes
    <3>10. CASE Does(u, "lock")
      <4>1. Rank["self"] < Rank[Now(u).m] /\ Now(u).m \in Mutexes
        BY <2>1, <3>8, <3>10, WaitsInOrder, BusyThread DEF Mutexes, Busy
      <4> QED
        BY <2>2, <4>1 DEF Rank
    <3> QED
      BY <2>1, <3>9, <3>10 DEF Blocked
  <2>5. \A t \in S : Does(t, "lock")
    BY <2>1, <2>4 DEF Blocked
  \* every thread of S waits for a later mutex than another one does
  <2>6. ASSUME NEW t \in S
        PROVE  \E u \in S : Rank[Now(t).m] < Rank[Now(u).m]
    <3>1. PICK u \in S, s \in Servers : holder[s][Now(t).m] = u /\ Now(t).m \in Mutexes
      BY <2>3, <2>5
    <3> QED
      BY <2>1, <2>5, <3>1, WaitsInOrder
  <2>7. \A t \in S : Rank[Now(t).m] \in 1 .. 4
    BY <2>1, <2>2, BusyThread DEF Busy
  <2>8. \A t \in S : Rank[Now(t).m] < 4
    BY <2>6, <2>7
  <2>9. \A t \in S : Rank[Now(t).m] < 3
    BY <2>6, <2>7, <2>8
  <2>10. \A t \in S : Rank[Now(t).m] < 2
    BY <2>6, <2>7, <2>9
  <2>11. \A t \in S : FALSE
    BY <2>6, <2>7, <2>10
  <2> QED
    BY <2>11
<1> QED
  BY <1>1, LocksHold, PTL
=============================================================================
