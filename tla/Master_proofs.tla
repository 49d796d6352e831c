---------------------------- MODULE Master_proofs ----------------------------
(***************************************************************************)
(* Proofs about Master, for any processes and ids, any commands and any    *)
(* processes that end or do not come up.                                   *)
(***************************************************************************)
EXTENDS Master, TLAPS

Address == Listed \ {None}

\* A process that is listed is up, or lost, or the one the master waits for.
ListedInv ==
  /\ \A p \in Address : state[p] = "up" \/ p \in lost \/ p = waiting
  /\ \A p \in Procs : state[p] = "unborn" <=> role[p] = "none"
  /\ waiting # None => role[waiting] # "none" /\ calls = << >>

\* What is yet to be called: a client about a server, or two servers about each
\* other.
PendingInv ==
  /\ Len(calls) \in 0 .. 2
  /\ \A k \in 1 .. Len(calls) :
       /\ calls[k].at \in Address
       /\ id[calls[k].Address] = calls[k].Id /\ role[calls[k].Address] = "server"
  /\ Len(calls) = 2 =>
       /\ calls[1].at = calls[2].Address /\ calls[2].at = calls[1].Address
       /\ calls[1].op = calls[2].op
       /\ role[calls[1].at] = "server" /\ role[calls[2].at] = "server"

AtServerNext == Len(calls) = 1 /\ role[calls[1].at] = "server"

Symmetric(p, q) == p \in blacklist[q] <=> q \in blacklist[p]

\* A connection is broken at both ends or at none, but for the one that the
\* command is at, whose first end is set already.
EndsInv ==
  /\ \A p, q \in Procs :
       \/ Symmetric(p, q)
       \/ AtServerNext /\ {p, q} = {calls[1].at, calls[1].Address}
  /\ AtServerNext =>
       (calls[1].at \in blacklist[calls[1].Address] <=> calls[1].op = "break")

MasterInv ==
  TypeOK /\ AddressesMatch /\ ListedInv /\ PendingInv /\ EndsInv /\ PanicsOnlyOnLost

----------------------------------------------------------------------------
LEMMA AddressType ==
  ASSUME TypeOK
  PROVE  Address \subseteq Procs
BY DEF TypeOK, Address, Listed

\* No call is pending before a step nor after it.
LEMMA NothingPending ==
  ASSUME EndsInv, calls = << >>, calls' = << >>, UNCHANGED blacklist
  PROVE  PendingInv' /\ EndsInv'
<1>1. Len(calls) = 0 /\ Len(calls') = 0
  OBVIOUS
<1> QED
  BY <1>1 DEF PendingInv, EndsInv, AtServerNext, Symmetric

LEMMA InitHolds == Init => MasterInv
<1> SUFFICES ASSUME Init PROVE MasterInv
  OBVIOUS
<1> USE DEF Init
<1>1. TypeOK
  <2>1. calls \in Seq(Call)
    OBVIOUS
  <2>2. serv_map \in [Procs -> [Ids -> Procs \cup {None}]]
    OBVIOUS
  <2> QED
    BY <2>1, <2>2 DEF TypeOK
<1>2. AddressesMatch /\ PanicsOnlyOnLost
  BY DEF AddressesMatch, IsServer, IsClient, PanicsOnlyOnLost
<1>3. ListedInv
  BY DEF ListedInv, Address, Listed
<1>4. Len(calls) = 0
  OBVIOUS
<1>5. PendingInv /\ EndsInv
  BY <1>4 DEF PendingInv, EndsInv, AtServerNext, Symmetric
<1> QED
  BY <1>1, <1>2, <1>3, <1>5 DEF MasterInv

\* A process that has not been started is at no address, so that the id it is given
\* changes nothing of the others.
LEMMA SpawnKeeps ==
  ASSUME MasterInv, NEW p \in Procs, NEW i \in Ids, NEW kind \in {"server", "client"},
         Idle, Spawn(p, i, kind), UNCHANGED <<calls, panicked, blacklist>>,
         Address' \subseteq Address \cup {p}
  PROVE  /\ ListedInv' /\ PendingInv' /\ EndsInv' /\ PanicsOnlyOnLost'
         /\ id' \in [Procs -> Ids \cup {None}]
         /\ role' \in [Procs -> {"none", "server", "client"}]
         /\ state' \in [Procs -> {"unborn", "starting", "up", "down"}]
         /\ waiting' \in Procs \cup {None} /\ lost' \in SUBSET Procs
         /\ id'[p] = i /\ role'[p] = kind
         /\ \A q \in Procs : role[q] # "none" => id'[q] = id[q] /\ role'[q] = role[q]
<1>1. /\ waiting = None /\ calls = << >> /\ ~panicked /\ calls' = << >> /\ ~panicked'
      /\ state[p] = "unborn" /\ waiting' = p /\ lost' = lost
      /\ id' = [id EXCEPT ![p] = i] /\ role' = [role EXCEPT ![p] = kind]
      /\ state' = [state EXCEPT ![p] = "starting"]
  BY DEF Idle, Spawn
<1>2. role[p] = "none"
  BY <1>1 DEF MasterInv, ListedInv
<1>3. PendingInv' /\ EndsInv'
  BY <1>1, NothingPending DEF MasterInv
<1>4. PanicsOnlyOnLost'
  BY <1>1 DEF PanicsOnlyOnLost
<1>5. /\ id' \in [Procs -> Ids \cup {None}]
      /\ role' \in [Procs -> {"none", "server", "client"}]
      /\ state' \in [Procs -> {"unborn", "starting", "up", "down"}]
      /\ waiting' \in Procs \cup {None} /\ lost' \in SUBSET Procs
      /\ id'[p] = i /\ role'[p] = kind /\ state'[p] = "starting"
      /\ \A q \in Procs \ {p} : id'[q] = id[q] /\ role'[q] = role[q] /\ state'[q] = state[q]
  BY <1>1 DEF MasterInv, TypeOK
<1>6. ListedInv'
  <2>1. \A q \in Address' : state'[q] = "up" \/ q \in lost' \/ q = waiting'
    <3> SUFFICES ASSUME NEW q \in Address, q # p PROVE state'[q] = "up" \/ q \in lost'
      BY <1>1
    <3>1. q \in Procs /\ q # None
      BY AddressType DEF MasterInv, Address
    <3> QED
      BY <1>1, <1>5, <3>1 DEF MasterInv, ListedInv
  <2>2. \A q \in Procs : state'[q] = "unborn" <=> role'[q] = "none"
    BY <1>5 DEF MasterInv, ListedInv
  <2> QED
    BY <1>1, <1>5, <2>1, <2>2 DEF ListedInv
<1> QED
  BY <1>2, <1>3, <1>4, <1>5, <1>6

LEMMA JoinServerKeeps ==
  ASSUME MasterInv, NEW i \in Ids, NEW p \in Procs, JoinServer(i, p)
  PROVE  MasterInv'
<1>1. /\ Idle /\ Spawn(p, i, "server")
      /\ serverNodeMap' = [serverNodeMap EXCEPT ![i] = p] /\ clientNodeMap' = clientNodeMap
      /\ calls' = calls /\ panicked' = panicked /\ blacklist' = blacklist
      /\ serv_map' = serv_map
  BY DEF JoinServer, ends
<1>2. /\ serverNodeMap' \in [Ids -> Procs \cup {None}] /\ serverNodeMap'[i] = p
      /\ \A j \in Ids \ {i} : serverNodeMap'[j] = serverNodeMap[j]
  BY <1>1 DEF MasterInv, TypeOK
<1>3. Address' \subseteq Address \cup {p}
  BY <1>1, <1>2 DEF Address, Listed
<1>4. /\ ListedInv' /\ PendingInv' /\ EndsInv' /\ PanicsOnlyOnLost'
      /\ id' \in [Procs -> Ids \cup {None}]
      /\ role' \in [Procs -> {"none", "server", "client"}]
      /\ state' \in [Procs -> {"unborn", "starting", "up", "down"}]
      /\ waiting' \in Procs \cup {None} /\ lost' \in SUBSET Procs
      /\ id'[p] = i /\ role'[p] = "server"
      /\ \A q \in Procs : role[q] # "none" => id'[q] = id[q] /\ role'[q] = role[q]
  BY <1>1, <1>3, SpawnKeeps
<1>5. TypeOK'
  BY <1>1, <1>2, <1>4 DEF MasterInv, TypeOK
<1>6. AddressesMatch'
  <2>1. \A j \in Ids : IsServer(j)' =>
           id'[serverNodeMap'[j]] = j /\ role'[serverNodeMap'[j]] = "server"
    BY <1>2, <1>4 DEF MasterInv, TypeOK, AddressesMatch, IsServer
  <2>2. \A j \in Ids : IsClient(j)' =>
           id'[clientNodeMap'[j]] = j /\ role'[clientNodeMap'[j]] = "client"
    BY <1>1, <1>4 DEF MasterInv, TypeOK, AddressesMatch, IsClient
  <2>3. \A q \in Procs, j \in Ids : serv_map'[q][j] # None =>
           id'[serv_map'[q][j]] = j /\ role'[serv_map'[q][j]] = "server"
    BY <1>1, <1>4 DEF MasterInv, TypeOK, AddressesMatch
  <2> QED
    BY <2>1, <2>2, <2>3 DEF AddressesMatch
<1> QED
  BY <1>4, <1>5, <1>6 DEF MasterInv

LEMMA JoinClientKeeps ==
  ASSUME MasterInv, NEW i \in Ids, NEW s \in Ids, NEW p \in Procs, JoinClient(i, s, p)
  PROVE  MasterInv'
<1>1. /\ Idle /\ Spawn(p, i, "client") /\ IsServer(s)
      /\ clientNodeMap' = [clientNodeMap EXCEPT ![i] = p] /\ serverNodeMap' = serverNodeMap
      /\ serv_map' = [serv_map EXCEPT ![p][s] = serverNodeMap[s]]
      /\ calls' = calls /\ panicked' = panicked /\ blacklist' = blacklist
  BY DEF JoinClient
<1>2. /\ clientNodeMap' \in [Ids -> Procs \cup {None}] /\ clientNodeMap'[i] = p
      /\ \A j \in Ids \ {i} : clientNodeMap'[j] = clientNodeMap[j]
  BY <1>1 DEF MasterInv, TypeOK
<1>3. Address' \subseteq Address \cup {p}
  BY <1>1, <1>2 DEF Address, Listed
<1>4. /\ ListedInv' /\ PendingInv' /\ EndsInv' /\ PanicsOnlyOnLost'
      /\ id' \in [Procs -> Ids \cup {None}]
      /\ role' \in [Procs -> {"none", "server", "client"}]
      /\ state' \in [Procs -> {"unborn", "starting", "up", "down"}]
      /\ waiting' \in Procs \cup {None} /\ lost' \in SUBSET Procs
      /\ id'[p] = i /\ role'[p] = "client"
      /\ \A q \in Procs : role[q] # "none" => id'[q] = id[q] /\ role'[q] = role[q]
  BY <1>1, <1>3, SpawnKeeps
<1>5. serverNodeMap[s] \in Procs
  BY <1>1 DEF MasterInv, TypeOK, IsServer
<1>6. /\ serv_map' \in [Procs -> [Ids -> Procs \cup {None}]]
      /\ \A q \in Procs, j \in Ids :
           serv_map'[q][j] = serv_map[q][j] \/ (j = s /\ serv_map'[q][j] = serverNodeMap[s])
  <2>1. serv_map \in [Procs -> [Ids -> Procs \cup {None}]]
    BY DEF MasterInv, TypeOK
  <2>2. serv_map' = [serv_map EXCEPT ![p] = [serv_map[p] EXCEPT ![s] = serverNodeMap[s]]]
    BY <1>1
  <2> DEFINE new == [serv_map[p] EXCEPT ![s] = serverNodeMap[s]]
  <2>3. /\ new \in [Ids -> Procs \cup {None}] /\ new[s] = serverNodeMap[s]
        /\ \A j \in Ids \ {s} : new[j] = serv_map[p][j]
        /\ serv_map' = [serv_map EXCEPT ![p] = new]
    BY <2>1, <2>2, <1>5
  <2> HIDE DEF new
  <2>4. serv_map' \in [Procs -> [Ids -> Procs \cup {None}]]
    BY <2>1, <2>3
  <2>5. serv_map'[p] = new /\ \A q \in Procs \ {p} : serv_map'[q] = serv_map[q]
    BY <2>1, <2>3
  <2> QED
    <3>1. ASSUME NEW q \in Procs, NEW j \in Ids
          PROVE  serv_map'[q][j] = serv_map[q][j] \/ (j = s /\ serv_map'[q][j] = serverNodeMap[s])
      <4>1. CASE q # p
        BY <2>5, <4>1
      <4>2. CASE q = p /\ j = s
        BY <2>3, <2>5, <4>2
      <4>3. CASE q = p /\ j # s
        <5>1. new[j] = serv_map[p][j]
          BY <2>3, <4>3
        <5> QED
          BY <2>5, <4>3, <5>1
      <4> QED
        BY <4>1, <4>2, <4>3
    <3> QED
      BY <2>4, <3>1
<1>7. TypeOK'
  BY <1>1, <1>2, <1>4, <1>6 DEF MasterInv, TypeOK
<1>8. AddressesMatch'
  <2>1. \A j \in Ids : IsServer(j)' =>
           id'[serverNodeMap'[j]] = j /\ role'[serverNodeMap'[j]] = "server"
    BY <1>1, <1>4 DEF MasterInv, TypeOK, AddressesMatch, IsServer
  <2>2. \A j \in Ids : IsClient(j)' =>
           id'[clientNodeMap'[j]] = j /\ role'[clientNodeMap'[j]] = "client"
    BY <1>2, <1>4 DEF MasterInv, TypeOK, AddressesMatch, IsClient
  <2>3. \A q \in Procs, j \in Ids : serv_map'[q][j] # None =>
           id'[serv_map'[q][j]] = j /\ role'[serv_map'[q][j]] = "server"
    <3>1. id'[serverNodeMap[s]] = s /\ role'[serverNodeMap[s]] = "server"
      BY <1>1, <1>4, <1>5 DEF MasterInv, AddressesMatch
    <3> SUFFICES ASSUME NEW q \in Procs, NEW j \in Ids, serv_map'[q][j] # None
                 PROVE  id'[serv_map'[q][j]] = j /\ role'[serv_map'[q][j]] = "server"
      OBVIOUS
    <3>2. CASE j = s /\ serv_map'[q][j] = serverNodeMap[s]
      BY <3>1, <3>2
    <3>3. CASE serv_map'[q][j] = serv_map[q][j]
      <4>1. /\ serv_map[q][j] \in Procs
            /\ id[serv_map[q][j]] = j /\ role[serv_map[q][j]] = "server"
        BY <3>3 DEF MasterInv, TypeOK, AddressesMatch
      <4> QED
        BY <1>4, <3>3, <4>1
    <3> QED
      BY <1>6, <3>2, <3>3
  <2> QED
    BY <2>1, <2>2, <2>3 DEF AddressesMatch
<1> QED
  BY <1>4, <1>7, <1>8 DEF MasterInv

\* What does not change the maps nor the roles.
LEMMA MatchUnchanged ==
  ASSUME AddressesMatch, UNCHANGED <<serverNodeMap, clientNodeMap, id, role, serv_map>>
  PROVE  AddressesMatch'
BY DEF AddressesMatch, IsServer, IsClient

LEMMA AddressUnchanged ==
  ASSUME UNCHANGED <<serverNodeMap, clientNodeMap>>
  PROVE  Address' = Address
BY DEF Address, Listed

LEMMA CallsUnchanged ==
  ASSUME UNCHANGED <<serverNodeMap, clientNodeMap, id, role, calls, blacklist>>
  PROVE  (PendingInv' <=> PendingInv) /\ (EndsInv' <=> EndsInv)
<1>1. Address' = Address
  BY AddressUnchanged
<1> QED
  BY <1>1 DEF PendingInv, EndsInv, AtServerNext, Symmetric

LEMMA ComesUpKeeps ==
  ASSUME MasterInv, NEW p \in Procs, ComesUp(p)
  PROVE  MasterInv'
<1>1. /\ state[p] = "starting" /\ state' = [state EXCEPT ![p] = "up"]
      /\ UNCHANGED <<serverNodeMap, clientNodeMap, id, role, lost, waiting, calls,
                     panicked, blacklist, serv_map>>
  BY DEF ComesUp, maps, ends
<1>2. TypeOK'
  BY <1>1 DEF MasterInv, TypeOK
<1>3. Address' = Address /\ Address \subseteq Procs
  BY <1>1, AddressUnchanged, AddressType DEF MasterInv
<1>4. ListedInv'
  BY <1>1, <1>3 DEF MasterInv, ListedInv, TypeOK
<1>5. AddressesMatch' /\ PendingInv' /\ EndsInv'
  BY <1>1, MatchUnchanged, CallsUnchanged DEF MasterInv
<1>6. PanicsOnlyOnLost'
  BY <1>1 DEF MasterInv, PanicsOnlyOnLost, Listed
<1> QED
  BY <1>2, <1>4, <1>5, <1>6 DEF MasterInv

LEMMA CrashKeeps ==
  ASSUME MasterInv, NEW p \in Procs, Crash(p)
  PROVE  MasterInv'
<1>1. /\ state[p] \in {"starting", "up"} /\ state' = [state EXCEPT ![p] = "down"]
      /\ lost' = lost \cup {p}
      /\ UNCHANGED <<serverNodeMap, clientNodeMap, id, role, waiting, calls,
                     panicked, blacklist, serv_map>>
  BY DEF Crash, maps, ends
<1>2. TypeOK'
  BY <1>1 DEF MasterInv, TypeOK
<1>3. Address' = Address /\ Address \subseteq Procs
  BY <1>1, AddressUnchanged, AddressType DEF MasterInv
<1>4. ListedInv'
  BY <1>1, <1>3 DEF MasterInv, ListedInv, TypeOK
<1>5. AddressesMatch' /\ PendingInv' /\ EndsInv'
  BY <1>1, MatchUnchanged, CallsUnchanged DEF MasterInv
<1>6. PanicsOnlyOnLost'
  BY <1>1 DEF MasterInv, PanicsOnlyOnLost, Listed
<1> QED
  BY <1>2, <1>4, <1>5, <1>6 DEF MasterInv

LEMMA PingedKeeps ==
  ASSUME MasterInv, Pinged
  PROVE  MasterInv'
<1>1. /\ waiting # None /\ state[waiting] = "up" /\ waiting' = None
      /\ UNCHANGED <<serverNodeMap, clientNodeMap, id, role, state, lost, calls,
                     panicked, blacklist, serv_map>>
  BY DEF Pinged, maps, ends, procs
<1>2. TypeOK'
  BY <1>1 DEF MasterInv, TypeOK
<1>3. Address' = Address
  BY <1>1, AddressUnchanged
<1>4. ListedInv'
  BY <1>1, <1>3 DEF MasterInv, ListedInv
<1>5. AddressesMatch' /\ PendingInv' /\ EndsInv'
  BY <1>1, MatchUnchanged, CallsUnchanged DEF MasterInv
<1>6. PanicsOnlyOnLost'
  BY <1>1 DEF MasterInv, PanicsOnlyOnLost, Listed
<1> QED
  BY <1>2, <1>4, <1>5, <1>6 DEF MasterInv

LEMMA GiveUpKeeps ==
  ASSUME MasterInv, GiveUp
  PROVE  MasterInv'
<1>1. /\ waiting # None /\ waiting' = None /\ lost' = lost \cup {waiting}
      /\ UNCHANGED <<serverNodeMap, clientNodeMap, id, role, state, calls,
                     panicked, blacklist, serv_map>>
  BY DEF GiveUp, maps, ends
<1>2. TypeOK'
  BY <1>1 DEF MasterInv, TypeOK
<1>3. Address' = Address
  BY <1>1, AddressUnchanged
<1>4. ListedInv'
  BY <1>1, <1>3 DEF MasterInv, ListedInv
<1>5. AddressesMatch' /\ PendingInv' /\ EndsInv'
  BY <1>1, MatchUnchanged, CallsUnchanged DEF MasterInv
<1>6. PanicsOnlyOnLost'
  BY <1>1 DEF MasterInv, PanicsOnlyOnLost, Listed
<1> QED
  BY <1>2, <1>4, <1>5, <1>6 DEF MasterInv

LEMMA KillServerKeeps ==
  ASSUME MasterInv, NEW i \in Ids, KillServer(i)
  PROVE  MasterInv'
<1>1. /\ Idle /\ serverNodeMap' = [serverNodeMap EXCEPT ![i] = None]
      /\ UNCHANGED <<clientNodeMap, id, role, state, lost, waiting, calls,
                     panicked, blacklist, serv_map>>
  BY DEF KillServer, procs, ends
<1>2. serverNodeMap' \in [Ids -> Procs \cup {None}]
      /\ \A j \in Ids : serverNodeMap'[j] = None \/ serverNodeMap'[j] = serverNodeMap[j]
  BY <1>1 DEF MasterInv, TypeOK
<1>3. TypeOK'
  BY <1>1, <1>2 DEF MasterInv, TypeOK
<1>4. Address' \subseteq Address
  BY <1>1, <1>2 DEF Address, Listed
<1>5. ListedInv'
  BY <1>1, <1>4 DEF MasterInv, ListedInv
<1>6. PendingInv' /\ EndsInv'
  BY <1>1, NothingPending DEF MasterInv, Idle
<1>7. AddressesMatch'
  BY <1>1, <1>2 DEF MasterInv, AddressesMatch, IsServer, IsClient
<1>8. PanicsOnlyOnLost'
  BY <1>1 DEF PanicsOnlyOnLost, Idle
<1> QED
  BY <1>3, <1>5, <1>6, <1>7, <1>8 DEF MasterInv

LEMMA CallOnNilKeeps ==
  ASSUME MasterInv, CallOnNil
  PROVE  MasterInv'
<1>1. /\ calls # << >> /\ state[Head(calls).at] # "up" /\ panicked' = TRUE
      /\ UNCHANGED <<serverNodeMap, clientNodeMap, id, role, state, lost, waiting, calls,
                     blacklist, serv_map>>
  BY DEF CallOnNil, maps, procs, ends
<1>2. TypeOK'
  BY <1>1 DEF MasterInv, TypeOK
<1>3. Address' = Address
  BY <1>1, AddressUnchanged
<1>4. ListedInv'
  BY <1>1, <1>3 DEF MasterInv, ListedInv
<1>5. AddressesMatch' /\ PendingInv' /\ EndsInv'
  BY <1>1, MatchUnchanged, CallsUnchanged DEF MasterInv
<1>6. PanicsOnlyOnLost'
  <2>1. calls \in Seq(Call) /\ Len(calls) >= 1 /\ Head(calls) = calls[1]
    BY <1>1 DEF MasterInv, TypeOK
  <2>2. calls[1].at \in Address
    BY <2>1 DEF MasterInv, PendingInv
  <2>3. calls[1].at # None /\ waiting = None
    BY <1>1, <2>2 DEF Address, MasterInv, ListedInv
  <2>4. calls[1].at \in lost
    BY <1>1, <2>1, <2>2, <2>3 DEF MasterInv, ListedInv
  <2> QED
    BY <1>1, <2>1, <2>2, <2>4 DEF PanicsOnlyOnLost, Address, Listed
<1> QED
  BY <1>2, <1>4, <1>5, <1>6 DEF MasterInv

----------------------------------------------------------------------------
(* The calls of breakConnection and createConnection.                      *)

LEMMA ChangeConnectionKeeps ==
  ASSUME MasterInv, NEW op \in {"break", "create"}, NEW i \in Ids, NEW j \in Ids,
         ChangeConnection(op, i, j)
  PROVE  MasterInv'
<1>1. /\ waiting = None /\ calls = << >> /\ ~panicked /\ panicked' = panicked
      /\ UNCHANGED <<serverNodeMap, clientNodeMap, id, role, state, lost, waiting,
                     blacklist, serv_map>>
  BY DEF ChangeConnection, Idle, maps, procs, ends
<1>2. Address' = Address
  BY <1>1, AddressUnchanged
<1>3. \A p, q \in Procs : Symmetric(p, q)
  <2>1. Len(calls) = 0
    BY <1>1
  <2> QED
    BY <2>1 DEF MasterInv, EndsInv, AtServerNext
<1>4. AddressesMatch' /\ PanicsOnlyOnLost'
  BY <1>1, MatchUnchanged DEF MasterInv, PanicsOnlyOnLost
<1>5. ListedInv'
  BY <1>1, <1>2 DEF MasterInv, ListedInv
<1>6. ASSUME calls' \in Seq(Call), Len(calls') # 1 \/ role[calls'[1].at] # "server"
      PROVE  TypeOK' /\ EndsInv'
  <2>1. TypeOK'
    BY <1>1, <1>6 DEF MasterInv, TypeOK
  <2>2. EndsInv'
    BY <1>1, <1>3, <1>6 DEF EndsInv, AtServerNext, Symmetric
  <2> QED
    BY <2>1, <2>2
<1>7. CASE IsServer(i) /\ IsServer(j) /\ calls' = BothEnds(op, i, j)
  <2> DEFINE p == serverNodeMap[i]  q == serverNodeMap[j]
  <2>1. /\ p \in Procs /\ q \in Procs /\ p \in Address /\ q \in Address
        /\ id[p] = i /\ id[q] = j /\ role[p] = "server" /\ role[q] = "server"
    BY <1>7, NoneAssumption DEF MasterInv, TypeOK, AddressesMatch, IsServer, Address, Listed
  <2>2. /\ CallTo(p, op, j, q) \in Call /\ CallTo(q, op, i, p) \in Call
        /\ calls' = << CallTo(p, op, j, q), CallTo(q, op, i, p) >>
    BY <1>7, <2>1 DEF BothEnds, CallTo, Call
  <2>3. /\ calls' \in Seq(Call) /\ Len(calls') = 2
        /\ calls'[1] = CallTo(p, op, j, q) /\ calls'[2] = CallTo(q, op, i, p)
    BY <2>2
  <2>4. /\ calls'[1].at = p /\ calls'[1].Address = q /\ calls'[1].Id = j
        /\ calls'[2].at = q /\ calls'[2].Address = p /\ calls'[2].Id = i
        /\ calls'[1].op = op /\ calls'[2].op = op
    BY <2>3 DEF CallTo
  <2>5. PendingInv'
    <3>1. \A k \in 1 .. Len(calls') :
            /\ calls'[k].at \in Address'
            /\ id'[calls'[k].Address] = calls'[k].Id /\ role'[calls'[k].Address] = "server"
      <4>1. \A k \in 1 .. Len(calls') : k = 1 \/ k = 2
        BY <2>3
      <4> QED
        BY <1>1, <1>2, <2>1, <2>4, <4>1
    <3> QED
      BY <1>1, <2>1, <2>3, <2>4, <3>1 DEF PendingInv
  <2> QED
    BY <1>4, <1>5, <1>6, <2>3, <2>5 DEF MasterInv
<1>8. ASSUME NEW s \in Ids, NEW c \in Ids, IsServer(s), IsClient(c),
             calls' = ClientEnd(op, s, c)
      PROVE  MasterInv'
  <2> DEFINE p == clientNodeMap[c]  q == serverNodeMap[s]
  <2>1. /\ p \in Procs /\ q \in Procs /\ p \in Address
        /\ id[q] = s /\ role[q] = "server" /\ role[p] = "client"
    BY <1>8, NoneAssumption DEF MasterInv, TypeOK, AddressesMatch, IsServer, IsClient,
       Address, Listed
  <2>2. CallTo(p, op, s, q) \in Call /\ calls' = << CallTo(p, op, s, q) >>
    BY <1>8, <2>1 DEF ClientEnd, CallTo, Call
  <2>3. calls' \in Seq(Call) /\ Len(calls') = 1 /\ calls'[1] = CallTo(p, op, s, q)
    BY <2>2
  <2>4. calls'[1].at = p /\ calls'[1].Address = q /\ calls'[1].Id = s
    BY <2>3 DEF CallTo
  <2>5. PendingInv'
    BY <1>1, <1>2, <2>1, <2>3, <2>4 DEF PendingInv
  <2> QED
    BY <1>4, <1>5, <1>6, <2>1, <2>3, <2>4, <2>5 DEF MasterInv
<1> QED
  BY <1>7, <1>8 DEF ChangeConnection

\* The first of two calls makes the second its counterpart; the last one evens out
\* both ends; a client's changes no blacklist.
LEMMA MakeCallKeeps ==
  ASSUME MasterInv, MakeCall
  PROVE  MasterInv'
<1> DEFINE c == Head(calls)
<1>1. /\ calls # << >> /\ ~panicked /\ panicked' = panicked /\ calls' = Tail(calls)
      /\ UNCHANGED <<serverNodeMap, clientNodeMap, id, role, state, lost, waiting>>
      /\ IF role[c.at] = "server" THEN AtServer(c) ELSE AtClient(c)
  BY DEF MakeCall, maps, procs
<1>2. /\ calls \in Seq(Call) /\ Len(calls) \in 1 .. 2 /\ c = calls[1]
      /\ Len(calls') = Len(calls) - 1 /\ calls' \in Seq(Call)
      /\ \A k \in 1 .. Len(calls') : calls'[k] = calls[k + 1]
  BY <1>1 DEF MasterInv, TypeOK, PendingInv
<1>3. c \in Call
  BY <1>2
<1>4. /\ c.at \in Procs /\ c.op \in {"break", "create"} /\ c.Id \in Ids /\ c.Address \in Procs
      /\ id[c.Address] = c.Id /\ role[c.Address] = "server"
  BY <1>2, <1>3 DEF Call, MasterInv, PendingInv
<1> HIDE DEF c
<1>5. Address' = Address
  BY <1>1, AddressUnchanged
<1>6. ListedInv' /\ PanicsOnlyOnLost'
  BY <1>1, <1>5 DEF MasterInv, ListedInv, PanicsOnlyOnLost
<1>7. PendingInv'
  BY <1>1, <1>2, <1>5 DEF MasterInv, PendingInv
<1>8. CASE role[c.at] = "server"
  <2>1. /\ blacklist' = [blacklist EXCEPT ![c.at] =
                           IF c.op = "break" THEN @ \cup {c.Address} ELSE @ \ {c.Address}]
        /\ serv_map' = serv_map
    BY <1>1, <1>8 DEF AtServer
  <2>2. /\ blacklist' \in [Procs -> SUBSET Procs]
        /\ c.Address \in blacklist'[c.at] <=> c.op = "break"
        /\ \A p, q \in Procs : <<p, q>> # <<c.at, c.Address>> =>
             (q \in blacklist'[p] <=> q \in blacklist[p])
    BY <1>4, <2>1 DEF MasterInv, TypeOK
  <2>3. TypeOK' /\ AddressesMatch'
    <3>1. TypeOK'
      BY <1>1, <1>2, <2>1, <2>2 DEF MasterInv, TypeOK
    <3>2. AddressesMatch'
      BY <1>1, <2>1, MatchUnchanged DEF MasterInv
    <3> QED
      BY <3>1, <3>2
  <2>4. \A p, q \in Procs : {p, q} # {c.at, c.Address} => Symmetric(p, q)'
    BY <1>2, <2>2 DEF MasterInv, EndsInv, Symmetric, AtServerNext
  <2>5. CASE Len(calls) = 1
    <3>1. c.at \in blacklist[c.Address] <=> c.op = "break"
      BY <1>2, <1>8, <2>5 DEF MasterInv, EndsInv, AtServerNext
    <3>2. c.at \in blacklist'[c.Address] <=> c.Address \in blacklist'[c.at]
      <4>1. CASE c.at = c.Address
        BY <4>1
      <4>2. CASE c.at # c.Address
        <5>1. c.at \in blacklist'[c.Address] <=> c.at \in blacklist[c.Address]
          BY <1>4, <2>2, <4>2
        <5> QED
          BY <2>2, <3>1, <5>1
      <4> QED
        BY <4>1, <4>2
    <3>3. ASSUME NEW p \in Procs, NEW q \in Procs PROVE Symmetric(p, q)'
      <4>1. CASE {p, q} = {c.at, c.Address}
        <5>1. p \in {c.at, c.Address} /\ q \in {c.at, c.Address}
              /\ c.at \in {p, q} /\ c.Address \in {p, q}
          BY <4>1
        <5>2. (p = c.at /\ q = c.Address) \/ (p = c.Address /\ q = c.at)
          BY <5>1
        <5> QED
          BY <3>2, <5>2 DEF Symmetric
      <4> QED
        BY <2>4, <4>1
    <3> QED
      BY <1>2, <1>6, <1>7, <2>3, <2>5, <3>3 DEF MasterInv, EndsInv, AtServerNext
  <2>6. CASE Len(calls) = 2
    <3>1. /\ calls'[1] = calls[2] /\ Len(calls') = 1
          /\ calls[2].at = c.Address /\ calls[2].Address = c.at /\ calls[2].op = c.op
      BY <1>2, <2>6 DEF MasterInv, PendingInv
    <3>2. AtServerNext' => (calls'[1].at \in blacklist'[calls'[1].Address]
                             <=> calls'[1].op = "break")
      BY <2>2, <3>1
    <3>3. AtServerNext'
      BY <1>1, <1>4, <3>1 DEF AtServerNext
    <3>4. {calls'[1].at, calls'[1].Address} = {c.at, c.Address}
      BY <3>1
    <3>5. EndsInv'
      BY <2>4, <3>2, <3>3, <3>4 DEF EndsInv
    <3> QED
      BY <1>6, <1>7, <2>3, <3>5 DEF MasterInv
  <2> QED
    BY <1>2, <2>5, <2>6
<1>9. CASE role[c.at] # "server"
  <2> DEFINE new == [serv_map[c.at] EXCEPT ![c.Id] =
                      IF c.op = "break" THEN None ELSE IF @ = None THEN c.Address ELSE @]
  <2>1. serv_map' = [serv_map EXCEPT ![c.at] = new] /\ blacklist' = blacklist
    BY <1>1, <1>9 DEF AtClient
  <2>2. serv_map \in [Procs -> [Ids -> Procs \cup {None}]]
    BY DEF MasterInv, TypeOK
  <2>3. /\ new \in [Ids -> Procs \cup {None}]
        /\ new[c.Id] \in {None, c.Address, serv_map[c.at][c.Id]}
        /\ \A j \in Ids \ {c.Id} : new[j] = serv_map[c.at][j]
    BY <1>4, <2>2
  <2> HIDE DEF new
  <2>4. serv_map' \in [Procs -> [Ids -> Procs \cup {None}]]
    BY <2>1, <2>2, <2>3
  <2>5. serv_map'[c.at] = new /\ \A p \in Procs \ {c.at} : serv_map'[p] = serv_map[p]
    BY <1>4, <2>1, <2>2
  <2>6. TypeOK'
    BY <1>1, <1>2, <2>1, <2>4 DEF MasterInv, TypeOK
  <2>7. AddressesMatch'
    <3>1. \A p \in Procs, j \in Ids : serv_map'[p][j] # None =>
            id[serv_map'[p][j]] = j /\ role[serv_map'[p][j]] = "server"
      BY <1>4, <2>3, <2>5 DEF MasterInv, AddressesMatch
    <3> QED
      BY <1>1, <3>1 DEF MasterInv, AddressesMatch, IsServer, IsClient
  <2>8. Len(calls) = 1
    BY <1>2, <1>9 DEF MasterInv, PendingInv
  <2>9. EndsInv'
    BY <1>2, <1>9, <2>1, <2>8 DEF MasterInv, EndsInv, AtServerNext, Symmetric
  <2> QED
    BY <1>6, <1>7, <2>6, <2>7, <2>9 DEF MasterInv
<1> QED
  BY <1>8, <1>9

----------------------------------------------------------------------------
\* The inductive invariant holds: of main's loop (master.go:38-350) with processes
\* that end, or do not come up, at any moment.
THEOREM MasterHolds == Spec => []MasterInv
<1>1. MasterInv /\ [Next]_vars => MasterInv'
  <2> SUFFICES ASSUME MasterInv, [Next]_vars PROVE MasterInv'
    OBVIOUS
  <2>1. CASE UNCHANGED vars
    <3>1. UNCHANGED <<serverNodeMap, clientNodeMap, id, role, state, lost, waiting, calls,
                     panicked, blacklist, serv_map>>
      BY <2>1 DEF vars, maps, procs, ends
    <3>2. Address' = Address
      BY <3>1, AddressUnchanged
    <3>3. TypeOK' /\ ListedInv' /\ PanicsOnlyOnLost'
      BY <3>1, <3>2 DEF MasterInv, TypeOK, ListedInv, PanicsOnlyOnLost, Listed
    <3> QED
      BY <3>1, <3>3, MatchUnchanged, CallsUnchanged DEF MasterInv
  <2>2. CASE Next
    BY <2>2, JoinServerKeeps, JoinClientKeeps, ComesUpKeeps, CrashKeeps, PingedKeeps,
       GiveUpKeeps, KillServerKeeps, ChangeConnectionKeeps, MakeCallKeeps, CallOnNilKeeps
       DEF Next
  <2> QED
    BY <2>1, <2>2
<1> QED
  BY <1>1, InitHolds, PTL DEF Spec

\* The types: among them, that every call has an address the master lists.
THEOREM TypeCorrect == Spec => []TypeOK
<1>1. MasterInv => TypeOK
  BY DEF MasterInv
<1> QED
  BY <1>1, MasterHolds, PTL

\* The two calls of a command (master.go:235-250 and 313-328) leave no connection
\* half broken, for any processes, restarts of ids and losses.
THEOREM NoHalfBroken == Spec => []BrokenAtBothEnds
<1>1. MasterInv => BrokenAtBothEnds
  <2> SUFFICES ASSUME MasterInv, Idle, NEW i \in Ids, NEW j \in Ids,
                      IsServer(i), IsServer(j)
               PROVE  Symmetric(serverNodeMap[j], serverNodeMap[i])
    BY DEF BrokenAtBothEnds, Symmetric
  <2>1. serverNodeMap[i] \in Procs /\ serverNodeMap[j] \in Procs
    BY DEF MasterInv, TypeOK, IsServer
  <2>2. Len(calls) = 0
    BY DEF Idle
  <2> QED
    BY <2>1, <2>2 DEF MasterInv, EndsInv, AtServerNext
<1> QED
  BY <1>1, MasterHolds, PTL

\* A nil connection is called (master.go:236) only after a listed process was lost.
THEOREM PanicMeansLost == Spec => []PanicsOnlyOnLost
<1>1. MasterInv => PanicsOnlyOnLost
  BY DEF MasterInv
<1> QED
  BY <1>1, MasterHolds, PTL

\* The master's maps and the clients' name only processes of the right id and kind.
THEOREM AddressesAlwaysMatch == Spec => []AddressesMatch
<1>1. MasterInv => AddressesMatch
  BY DEF MasterInv
<1> QED
  BY <1>1, MasterHolds, PTL
=============================================================================
