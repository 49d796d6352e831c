-------------------------- MODULE StabilizeRounds --------------------------
(***************************************************************************)
(* The rounds of Stabilize (server/rpc.go): each server sends its whole    *)
(* store to the servers it can reach, one after the other, waits for its   *)
(* own ticker, and does so n - 1 times, n being the number of servers the  *)
(* master knows.                                                           *)
(*                                                                         *)
(* Of a stored entry only the version is kept: the value goes with it      *)
(* (NoThinAir of SessionKV).  The master waits, so no client puts; but     *)
(* replicated writes sent before may still arrive.                         *)
(***************************************************************************)
EXTENDS Naturals, FiniteSets

CONSTANTS
  Servers, Keys,
  Networks,       \* the possible values of peers
  Stores,         \* the possible values of start
  LateWrites,     \* the possible values of writes
  MaxCrashes,     \* bound: servers that crash
  None

Versions == Nat     \* 0 where the key is absent
Write == [to : Servers, key : Keys, ver : Versions]

ASSUME ServersFinite == IsFiniteSet(Servers)
ASSUME NetworksAssumption == Networks \subseteq [Servers -> SUBSET Servers]
ASSUME StoresAssumption == Stores \subseteq [Servers -> [Keys -> Versions]]
ASSUME WritesAssumption == LateWrites \subseteq SUBSET Write
ASSUME MaxCrashesAssumption == MaxCrashes \in Nat

VARIABLES
  peers,      \* peers[s]: the servers s lists and can dial; fixed here
  start,      \* the stores when the command starts; history only
  writes,     \* the ProcessRemoteWrite calls in flight when it starts
  up,         \* the servers whose process runs
  store,      \* store[s][k]: the version in keyValueMap of s
  round,      \* round[s]: 0 before Stabilize is called, then i of its loop
  todo,       \* todo[s]: the servers s has yet to call in this round
  sending     \* sending[s]: the SendKVData call s waits for, or None

inputs     == <<peers, start, writes>>
roundVars  == <<up, store, round, todo, sending>>
roundsVars == <<inputs, roundVars>>

Call == [to : Servers, data : [Keys -> Versions]]
ASSUME NoneAssumption == None \notin Call \cup Servers

\* Plausible bug: as many rounds as there are servers between two others.
TooFewRounds == Cardinality(Servers) - 2

\* req.Rounds, set by the master.
Rounds == Cardinality(Servers) - 1

Returned(s) == round[s] > Rounds

RoundsTypeOK ==
  /\ peers \in Networks /\ start \in Stores /\ writes \in LateWrites
  /\ up \subseteq Servers
  /\ store \in [Servers -> [Keys -> Versions]]
  /\ round \in [Servers -> Nat]
  /\ todo \in [Servers -> SUBSET Servers]
  /\ sending \in [Servers -> Call \cup {None}]

RoundsInit ==
  /\ peers \in Networks /\ start \in Stores /\ writes \in LateWrites
  /\ up = Servers
  /\ store = start
  /\ round = [s \in Servers |-> 0]
  /\ todo = [s \in Servers |-> {}]
  /\ sending = [s \in Servers |-> None]

----------------------------------------------------------------------------
\* Plausible bug: the received map takes the place of the store.
ReceivedOnly(have, data) == [k \in {j \in Keys : data[j] > 0} |-> data[k]]

\* What becomes of a store that receives data: an absent key is added, a
\* stored one replaced by a greater version.
Merged(have, data) ==
  [k \in Keys |-> IF data[k] > have[k] THEN data[k] ELSE have[k]]

\* Plausible bug: every server is called, blacklisted or not.
ToEveryone(s, i) ==
  /\ round' = [round EXCEPT ![s] = i]
  /\ todo' = [todo EXCEPT ![s] = IF i <= Rounds THEN Servers \ {s} ELSE {}]

\* s comes to the i-th turn of its loop over rounds, or past the last.
EnterRound(s, i) ==
  /\ round' = [round EXCEPT ![s] = i]
  /\ todo' = [todo EXCEPT ![s] = IF i <= Rounds THEN peers[s] ELSE {}]

\* The handler starts.
Begin(s) ==
  /\ s \in up /\ round[s] = 0
  /\ EnterRound(s, 1)
  /\ UNCHANGED <<inputs, up, store, sending>>

\* The store is copied under mutex_key_value_map, released before the call.
SendTo(s, t) ==
  /\ s \in up /\ t \in todo[s] /\ sending[s] = None
  /\ todo' = [todo EXCEPT ![s] = @ \ {t}]
  /\ sending' = [sending EXCEPT ![s] = [to |-> t, data |-> store[s]]]
  /\ UNCHANGED <<inputs, up, store, round>>

\* The handler at the other server, and its answer.
SendKVData(s) ==
  /\ sending[s] # None /\ sending[s].to \in up
  /\ store' = [store EXCEPT ![sending[s].to] =
                 Merged(store[sending[s].to], sending[s].data)]
  /\ sending' = [sending EXCEPT ![s] = None]
  /\ UNCHANGED <<inputs, up, round, todo>>

\* Plausible bug: a server that does not answer is called once more.
CallsAgain(s) ==
  /\ sending[s] # None /\ sending[s].to \notin up
  /\ sending' = [sending EXCEPT ![s] = None]
  /\ todo' = [todo EXCEPT ![s] = @ \cup {sending[s].to}]
  /\ UNCHANGED <<inputs, up, store, round>>

\* A call that cannot be answered is passed over.
SendFails(s) ==
  /\ sending[s] # None /\ sending[s].to \notin up
  /\ sending' = [sending EXCEPT ![s] = None]
  /\ UNCHANGED <<inputs, up, store, round, todo>>

\* The ticker of s ticks after its calls of the round are answered.
Tick(s) ==
  /\ s \in up /\ round[s] \in 1 .. Rounds /\ todo[s] = {} /\ sending[s] = None
  /\ EnterRound(s, round[s] + 1)
  /\ UNCHANGED <<inputs, up, store, sending>>

\* A replicated write sent before the command arrives, or arrives again.
ProcessRemoteWrite(w) ==
  /\ w \in writes /\ w.to \in up /\ w.ver > store[w.to][w.key]
  /\ store' = [store EXCEPT ![w.to][w.key] = w.ver]
  /\ UNCHANGED <<inputs, up, round, todo, sending>>

\* The process of s ends.  The call it waits for is lost with it, or has been
\* sent and is handled all the same.
Crash(s) ==
  /\ s \in up /\ Cardinality(Servers \ up) < MaxCrashes
  /\ up' = up \ {s}
  /\ sending' \in {sending, [sending EXCEPT ![s] = None]}
  /\ UNCHANGED <<inputs, store, round, todo>>

\* The calls of s in round i are over.
Sent(s, i) ==
  \/ round[s] > i
  \/ round[s] = i /\ todo[s] = {} /\ sending[s] = None

\* A step of the code.
RoundsNext ==
  \E s \in Servers :
    \/ Begin(s)
    \/ \E t \in Servers : SendTo(s, t)
    \/ SendKVData(s)
    \/ SendFails(s)
    \/ Tick(s)
    \/ \E w \in writes : ProcessRemoteWrite(w)
    \/ Crash(s)

RoundsSpec == RoundsInit /\ [][RoundsNext]_roundsVars

\* No server enters a round before those it hears from have made their calls
\* of the round before.  The code does not check it: every server starts a
\* ticker of its own when the master's call arrives.
InStep ==
  \A s \in Servers : round'[s] > round[s] /\ round[s] >= 1 =>
    \A t \in up : s \in peers[t] => Sent(t, round[s])

InStepSpec == RoundsInit /\ [][RoundsNext /\ InStep]_roundsVars

----------------------------------------------------------------------------
\* The data of t gets to s along j connections.
Reaches(t, s, j) ==
  \E path \in [0 .. j -> Servers] :
    /\ path[0] = t /\ path[j] = s
    /\ \A i \in 0 .. j - 1 : path[i + 1] \in peers[path[i]]

AtLeast(have, data) == \A k \in Keys : data[k] <= have[k]

\* Each server holds what any server it hears from, over however many others,
\* had at the start, or something newer.
Flooded ==
  \A s, t \in Servers : \A j \in 0 .. Cardinality(Servers) - 1 :
    Reaches(t, s, j) => AtLeast(store[s], start[t])

\* README, "Stabilize Mechanism": n - 1 rounds are enough.
FloodComplete ==
  up = Servers /\ (\A s \in Servers : Returned(s)) => Flooded

\* README, test cases, "stabilize operation occurs only within the partition":
\* where no server outside P has a connection into P, every entry in P was in
\* P at the start, or was on its way there.
Closed(P) == \A s \in P, t \in Servers \ P : s \notin peers[t]

StaysInPartition ==
  \A P \in SUBSET Servers : Closed(P) =>
    \A s \in P, k \in Keys :
      \/ \E t \in P : store[s][k] = start[t][k]
      \/ \E w \in writes : w.to \in P /\ w.key = k /\ w.ver = store[s][k]
============================================================================
