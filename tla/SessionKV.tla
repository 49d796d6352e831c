----------------------------- MODULE SessionKV -----------------------------
(***************************************************************************)
(* The replicated key-value store of pskDB: the servers' data path         *)
(* (server/rpc.go, server/server.go) together with the clients' session    *)
(* state (client/client.go).                                               *)
(*                                                                         *)
(* A client's put or get is a synchronous call of one server it is         *)
(* connected to; the server answers under mutex_key_value_map, so call,    *)
(* handler and the client's bookkeeping are one step.  A put is then sent  *)
(* to the other servers without waiting (net/rpc Go): the calls in flight  *)
(* are a set, delivered in any order.  Heartbeats carry the Lamport clocks *)
(* between servers; Stabilize copies a whole store to another server.      *)
(*                                                                         *)
(* The value of the i-th accepted put is the number i; 0 is "no value".    *)
(* hist, own and got are history variables: no step's outcome depends on   *)
(* them.  Membership is fixed here: every server lists every other one.    *)
(***************************************************************************)
EXTENDS LamportTime, FiniteSets, FiniteSetsExt, SequencesExt

CONSTANTS
  Servers, Clients, Keys,
  Pid,            \* Pid[s]: rank of the fraction of s among the fractions
  Recorded,       \* Recorded[s][t]: clock of t in s's entry for t; set when
                  \* the entry is made, and never refreshed by heartbeats
  GOSSIP_HEARTBEAT_FANOUT,
  Links,          \* bound: the pairs <<node, server>> whose connection the
                  \* master breaks or creates, at the node's end
  MaxPuts,        \* bound: puts accepted in a behaviour
  MaxClock,       \* bound: the largest Lamport time of a version, a tick and a
                  \* merge; a put that takes it leaves the clock one past it
  MaxBeats,       \* bound: heartbeats in flight
  MaxSnapshots    \* bound: SendKVData calls in flight

ASSUME ServersAssumption == IsFiniteSet(Servers)
ASSUME PidAssumption == Pid \in [Servers -> Nat]
ASSUME RecordedAssumption == Recorded \in [Servers -> [Servers -> Int]]
ASSUME BoundsAssumption ==
  /\ GOSSIP_HEARTBEAT_FANOUT \in Nat
  /\ {MaxPuts, MaxClock, MaxBeats, MaxSnapshots} \subseteq Nat

VARIABLES
  clock,      \* clock[s]: whole part of currServerInfo.Lamport_Timestamp
  store,      \* store[s][k]: keyValueMap of s, NoEntry where absent
  blacklist,  \* blacklist[s]: the servers in s's blacklistMap
  ticked,     \* servers between a heartbeat's clock tick and its sending
  msgs,       \* ProcessRemoteWrite and SendKVData calls in flight
  beats,      \* HeartbeatNotification calls in flight
  conn,       \* conn[c]: the servers in the serv_map of client c
  seen,       \* seen[c][k]: keyVersionInfo of c, NoVersion where absent
  hist,       \* the accepted puts, in the order their servers took them
  own,        \* own[c][k]: the last put of k by c, 0 for none
  got         \* got[c][k]: the last value of k read by c since, 0 for none

serverVars == <<clock, store, blacklist, ticked>>
netVars    == <<msgs, beats>>
clientVars == <<conn, seen>>
histVars   == <<hist, own, got>>
vars       == <<serverVars, netVars, clientVars, histVars>>

Peers(s)     == Servers \ {s}
Reachable(s) == Peers(s) \ blacklist[s]

Entry   == [val : Nat, ver : Timestamp]
NoEntry == [val |-> 0, ver |-> NoVersion]
Held(s, k) == store[s][k].val # 0

Message == [type : {"ProcessRemoteWrite", "SendKVData"},
            from : Servers, to : Servers, data : [Keys -> Entry]]
Heartbeat == [to : Servers, clocks : Seq(Int)]
Write == [key : Keys, by : Servers, ver : Timestamp,
          past : SUBSET Nat, sent : SUBSET Servers]

\* s is inside Stabilize, waiting for the answer to a SendKVData with
\* mutex_server_map held.
Stabilizing(s) == \E m \in msgs : m.type = "SendKVData" /\ m.from = s

TypeOK ==
  /\ clock \in [Servers -> Int]
  /\ store \in [Servers -> [Keys -> Entry]]
  /\ blacklist \in [Servers -> SUBSET Servers]
  /\ ticked \in SUBSET Servers
  /\ msgs \in SUBSET Message
  /\ beats \in SUBSET Heartbeat
  /\ conn \in [Clients -> SUBSET Servers]
  /\ seen \in [Clients -> [Keys -> Timestamp]]
  /\ hist \in Seq(Write)
  /\ own \in [Clients -> [Keys -> Nat]]
  /\ got \in [Clients -> [Keys -> Nat]]

Init ==
  /\ clock = [s \in Servers |-> 1]
  /\ store = [s \in Servers |-> [k \in Keys |-> NoEntry]]
  /\ blacklist = [s \in Servers |-> {}]
  /\ ticked = {}
  /\ msgs = {}
  /\ beats = {}
  /\ conn \in [Clients -> {{s} : s \in Servers}]
  /\ seen = [c \in Clients |-> [k \in Keys |-> NoVersion]]
  /\ hist = << >>
  /\ own = [c \in Clients |-> [k \in Keys |-> 0]]
  /\ got = [c \in Clients |-> [k \in Keys |-> 0]]

----------------------------------------------------------------------------
(* put *)

\* The time of s after a put of k that carries version req.  Without a
\* version and without an entry it is GetAndIncrementLamportTimestamp, which
\* returns the time before the increment.
PutClock(s, k, req) ==
  IF ~Held(s, k) /\ req = NoVersion
  THEN clock[s] + 1
  ELSE ConditionalIncrement(clock[s], Pid[s],
                            IF req = NoVersion THEN store[s][k].ver ELSE req)

\* Plausible bug: the put is given the present time, whatever it follows.
UnpivotedVersion(s, k, req) == <<clock[s], Pid[s]>>

PutVersion(s, k, req) ==
  IF ~Held(s, k) /\ req = NoVersion
  THEN <<clock[s], Pid[s]>>
  ELSE <<PutClock(s, k, req), Pid[s]>>

RemoteWrite(s, t, k, info) ==
  [type |-> "ProcessRemoteWrite", from |-> s, to |-> t,
   data |-> [j \in Keys |-> IF j = k THEN info ELSE NoEntry]]

\* PutKVServer: the value is stored whatever version it replaces, and sent to
\* every server with a usable connection.
PutKVServer(s, k, req) ==
  LET info == [val |-> Len(hist) + 1, ver |-> PutVersion(s, k, req)]
  IN  /\ clock' = [clock EXCEPT ![s] = PutClock(s, k, req)]
      /\ store' = [store EXCEPT ![s][k] = info]
      /\ msgs' = msgs \cup {RemoteWrite(s, t, k, info) : t \in Reachable(s)}

\* The values a put of k by c at s comes after: the one it overwrites, and the
\* ones c wrote and read.  Past adds what those came after.
Past(i) == IF i = 0 THEN {} ELSE hist[i].past
Causes(c, s, k) == {store[s][k].val, own[c][k], got[c][k]} \ {0}

PutKVClient(c, s, k) ==
  /\ s \in conn[c]
  /\ Len(hist) < MaxPuts
  /\ PutVersion(s, k, seen[c][k])[1] <= MaxClock
  /\ PutKVServer(s, k, seen[c][k])
  /\ seen' = [seen EXCEPT ![c][k] = PutVersion(s, k, seen[c][k])]
  /\ hist' = Append(hist,
       [key  |-> k, by |-> s, ver |-> PutVersion(s, k, seen[c][k]),
        past |-> Causes(c, s, k) \cup UNION {Past(i) : i \in Causes(c, s, k)},
        sent |-> Reachable(s)])
  /\ own' = [own EXCEPT ![c][k] = Len(hist) + 1]
  /\ got' = [got EXCEPT ![c][k] = 0]
  /\ UNCHANGED <<blacklist, ticked, beats, conn>>

\* The Lamport clock of s has passed the versions this put would follow.  The
\* code never checks it; see CaughtUpSpec.
CaughtUp(c, s, k) ==
  /\ Less(seen[c][k], <<clock[s] + 1, Pid[s]>>)
  /\ Less(store[s][k].ver, <<clock[s] + 1, Pid[s]>>)

----------------------------------------------------------------------------
(* get *)

\* Plausible bug: the version check is dropped.
ServedAnyway(s, k, req) == Held(s, k)

\* GetKVServer answers with a value, rather than ERR_KEY or ERR_DEP.
Served(s, k, req) == Held(s, k) /\ ~Less(store[s][k].ver, req)

GetKVClient(c, s, k) ==
  /\ s \in conn[c]
  /\ clock[s] < MaxClock
  /\ clock' = [clock EXCEPT ![s] = @ + 1]
  /\ IF Served(s, k, seen[c][k])
     THEN /\ seen' = [seen EXCEPT ![c][k] = store[s][k].ver]
          /\ got' = [got EXCEPT ![c][k] = store[s][k].val]
     ELSE UNCHANGED <<seen, got>>
  /\ UNCHANGED <<store, blacklist, ticked, msgs, beats, conn, hist, own>>

----------------------------------------------------------------------------
(* replication *)

\* Plausible bugs: the last writer to arrive wins; an absent key is ignored.
LastArrival(local, incoming) == incoming.val # 0
OnlyHeldKeys(local, incoming) ==
  incoming.val # 0 /\ local.val # 0 /\ Less(local.ver, incoming.ver)

\* An incoming entry replaces the local one.
Replaces(local, incoming) ==
  incoming.val # 0 /\ (local.val = 0 \/ Less(local.ver, incoming.ver))

\* Plausible bugs: the received map takes the place of the store; a newer
\* version is taken over without its value.
ReplacedStore(s, data) ==
  store' = [store EXCEPT ![s] = [k \in {j \in Keys : data[j].val # 0} |-> data[k]]]
VersionsOnly(s, data) ==
  store' = [store EXCEPT ![s] = [k \in Keys |->
              IF Replaces(store[s][k], data[k])
              THEN [store[s][k] EXCEPT !.ver = data[k].ver] ELSE store[s][k]]]

Merge(s, data) ==
  store' = [store EXCEPT ![s] = [k \in Keys |->
              IF Replaces(store[s][k], data[k]) THEN data[k] ELSE store[s][k]]]

ProcessRemoteWrite(m) ==
  /\ m.type = "ProcessRemoteWrite"
  /\ Merge(m.to, m.data)
  /\ msgs' = msgs \ {m}
  /\ UNCHANGED <<clock, blacklist, ticked, beats, clientVars, histVars>>

\* One turn of the loop of Stabilize: the store of s, copied under
\* mutex_key_value_map, goes to t, and s waits for the answer.
Stabilize(s, t) ==
  /\ t \in Reachable(s)
  /\ ~Stabilizing(s)
  /\ Cardinality({m \in msgs : m.type = "SendKVData"}) < MaxSnapshots
  /\ msgs' = msgs \cup {[type |-> "SendKVData", from |-> s, to |-> t,
                         data |-> store[s]]}
  /\ UNCHANGED <<serverVars, beats, clientVars, histVars>>

SendKVData(m) ==
  /\ m.type = "SendKVData"
  /\ Merge(m.to, m.data)
  /\ msgs' = msgs \ {m}
  /\ UNCHANGED <<clock, blacklist, ticked, beats, clientVars, histVars>>

----------------------------------------------------------------------------
(* heartbeats: what they do to the clocks *)

HeartbeatTick(s) ==
  /\ s \notin ticked
  /\ clock[s] < MaxClock
  /\ ticked' = ticked \cup {s}
  /\ clock' = [clock EXCEPT ![s] = @ + 1]
  /\ UNCHANGED <<store, blacklist, netVars, clientVars, histVars>>

\* The list starts with the server's own entry; the others follow in Go's
\* map order.  A chosen server without a connection is skipped.
SendHeartbeat(s) ==
  /\ s \in ticked
  /\ ~Stabilizing(s)
  /\ ticked' = ticked \ {s}
  /\ \E order \in SetToSeqs(Peers(s)),
        chosen \in kSubset(Min({GOSSIP_HEARTBEAT_FANOUT, Cardinality(Peers(s))}),
                           Peers(s)) :
       LET clocks == <<clock[s]>> \o [i \in 1 .. Len(order) |-> Recorded[s][order[i]]]
       IN  beats' = beats \cup {[to |-> t, clocks |-> clocks] :
                                  t \in chosen \ blacklist[s]}
  /\ Cardinality(beats') <= MaxBeats
  /\ UNCHANGED <<clock, store, blacklist, msgs, clientVars, histVars>>

HeartbeatNotification(b) ==
  /\ ~Stabilizing(b.to)
  /\ \E new \in MergeCandidates(clock[b.to], b.clocks) :
       /\ IsMergedTime(new, clock[b.to], b.clocks)
       /\ new <= MaxClock
       /\ clock' = [clock EXCEPT ![b.to] = new]
  /\ beats' = beats \ {b}
  /\ UNCHANGED <<store, blacklist, ticked, msgs, clientVars, histVars>>

----------------------------------------------------------------------------
(* connections: the master calls the two ends of a link one after the other *)

ServerBreakConnection(s, t) ==
  /\ <<s, t>> \in Links /\ t \in Reachable(s)
  /\ blacklist' = [blacklist EXCEPT ![s] = @ \cup {t}]
  /\ UNCHANGED <<clock, store, ticked, netVars, clientVars, histVars>>

ServerCreateConnection(s, t) ==
  /\ <<s, t>> \in Links /\ t \in blacklist[s]
  /\ blacklist' = [blacklist EXCEPT ![s] = @ \ {t}]
  /\ UNCHANGED <<clock, store, ticked, netVars, clientVars, histVars>>

ClientBreakConnection(c, s) ==
  /\ <<c, s>> \in Links /\ s \in conn[c]
  /\ conn' = [conn EXCEPT ![c] = @ \ {s}]
  /\ UNCHANGED <<serverVars, netVars, seen, histVars>>

\* Adds s to serv_map; the servers already there stay.
ClientCreateConnection(c, s) ==
  /\ <<c, s>> \in Links /\ s \notin conn[c]
  /\ conn' = [conn EXCEPT ![c] = @ \cup {s}]
  /\ UNCHANGED <<serverVars, netVars, seen, histVars>>

----------------------------------------------------------------------------
Other ==
  \/ \E c \in Clients, s \in Servers, k \in Keys : GetKVClient(c, s, k)
  \/ \E m \in msgs : ProcessRemoteWrite(m)
  \/ \E m \in msgs : SendKVData(m)
  \/ \E s \in Servers, t \in Servers : Stabilize(s, t)
  \/ \E s \in Servers : HeartbeatTick(s)
  \/ \E s \in Servers : SendHeartbeat(s)
  \/ \E b \in beats : HeartbeatNotification(b)
  \/ \E s \in Servers, t \in Servers : ServerBreakConnection(s, t)
  \/ \E s \in Servers, t \in Servers : ServerCreateConnection(s, t)
  \/ \E c \in Clients, s \in Servers : ClientBreakConnection(c, s)
  \/ \E c \in Clients, s \in Servers : ClientCreateConnection(c, s)

Next ==
  \/ \E c \in Clients, s \in Servers, k \in Keys : PutKVClient(c, s, k)
  \/ Other

\* The code as it is.
Spec == Init /\ [][Next]_vars

CaughtUpNext ==
  \/ \E c \in Clients, s \in Servers, k \in Keys :
       CaughtUp(c, s, k) /\ PutKVClient(c, s, k)
  \/ Other

\* The code under the timing its heartbeats are there to give: by the time a
\* client puts a key, the clock of the server it calls has passed the versions
\* the put follows.
CaughtUpSpec == Init /\ [][CaughtUpNext]_vars

\* net/rpc runs each call that arrives in a goroutine of its own, so every
\* replicated write is processed in the end.  Nothing else is promised: the
\* master need never ask for anything, and no property rests on heartbeats.
FairCaughtUpSpec ==
  CaughtUpSpec /\ WF_vars(\E m \in msgs : ProcessRemoteWrite(m))
============================================================================
