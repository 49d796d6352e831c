----------------------------- MODULE Membership -----------------------------
(***************************************************************************)
(* Who belongs to the cluster: joining, gossip, suspicion and removal      *)
(* (server/rpc.go, startHeartbeats and main of server/server.go), under    *)
(* the commands of the master that start and kill servers.                 *)
(*                                                                         *)
(* A server process stands for the address it listens on: the master gives *)
(* each process a port of its own, also when it starts an id again.        *)
(* Timeouts fire at any time here; MembershipTimed says when.              *)
(***************************************************************************)
EXTENDS Naturals, FiniteSets, FiniteSetsExt

CONSTANTS
  Procs,          \* the server processes
  Ids,
  Id,             \* Id[p]: the server id p is started with
  Absent,         \* stands for a key the serverMap does not have
  GOSSIP_HEARTBEAT_FANOUT,
  Links,          \* bound: the pairs <<p, q>> whose connection the master
                  \* breaks or creates, at p's end
  MaxSeq,         \* bound: heartbeat sequence number
  MaxCalls        \* bound: calls in flight when a heartbeat is sent

ASSUME IdAssumption == Id \in [Procs -> Ids]
ASSUME FanoutAssumption == GOSSIP_HEARTBEAT_FANOUT \in Nat

VARIABLES
  phase,      \* phase[p]: "unborn", "joining", "up", "killed" or "crashed"
  nodes,      \* the processes in the master's serverNodeMap
  asks,       \* asks[p]: the processes p has yet to ask while joining
  list,       \* list[p][i]: serverMap of p
  seq,        \* seq[p]: Heartbeat_seqnum of p
  blacklist,  \* blacklist[p]: the processes in p's blacklistMap
  calls       \* the calls between servers in flight

vars == <<phase, nodes, asks, list, seq, blacklist, calls>>

\* The code keeps Alive = ~Suspicion in every entry.
Entry == [addr : Procs, seq : Nat, suspected : BOOLEAN]
ASSUME AbsentAssumption == Absent \notin Entry
EntryMap == [Ids -> Entry \cup {Absent}]
Call == [type : {"Heartbeat", "NewServer", "KillServer"},
         from : Procs, to : Procs, data : EntryMap]

Listed(p) == {i \in Ids : list[p][i] # Absent}

\* A killed server still listens: nothing ends its process.
Answers(p) == phase[p] \in {"up", "killed"}

\* The servers that p lists and can dial.
Reachable(p) == {q \in {list[p][i].addr : i \in Listed(p)} \ blacklist[p] : Answers(q)}

\* The master runs one command at a time.
Idle == \A p \in Procs : phase[p] # "joining"

\* Plausible bug: a server introduces itself with its next number.
NextEntry(p)    == [addr |-> p, seq |-> seq[p] + 1, suspected |-> FALSE]

NoEntries       == [i \in Ids |-> Absent]
OwnEntry(p)     == [addr |-> p, seq |-> seq[p], suspected |-> FALSE]
Newcomer(p)     == [addr |-> p, seq |-> 1, suspected |-> FALSE]
Notice(p, q, e) == [type |-> "NewServer", from |-> p, to |-> q,
                    data |-> [NoEntries EXCEPT ![Id[e.addr]] = e]]

Init ==
  /\ phase = [p \in Procs |-> "unborn"]
  /\ nodes = {}
  /\ asks = [p \in Procs |-> {}]
  /\ list = [p \in Procs |-> NoEntries]
  /\ seq = [p \in Procs |-> 1]
  /\ blacklist = [p \in Procs |-> {}]
  /\ calls = {}

----------------------------------------------------------------------------
(* joining *)

\* The master starts p with the ports of the servers it knows, a process with
\* the id of p among them; p takes that one's place in serverNodeMap, though
\* nothing ends it.
Start(p) ==
  /\ Idle /\ phase[p] = "unborn"
  /\ phase' = [phase EXCEPT ![p] = "joining"]
  /\ asks' = [asks EXCEPT ![p] = nodes]
  /\ nodes' = {q \in nodes : Id[q] # Id[p]} \cup {p}
  /\ UNCHANGED <<list, seq, blacklist, calls>>

\* p asks q.  If q lists the id already, under whatever address, it answers
\* with an empty list; if q has the id itself, with an error, and p passes on
\* when its counted retries are used up; otherwise with itself and its list, and
\* it tells them of p.  p takes from the answer the ids it does not have.  A p
\* that cannot dial q dials again, without end.
JoinClusterAsServer(p, q) ==
  /\ phase[p] = "joining" /\ q \in asks[p] /\ Answers(q)
  /\ asks' = [asks EXCEPT ![p] = @ \ {q}]
  /\ \/ /\ list[q][Id[p]] # Absent \/ Id[q] = Id[p]
        /\ UNCHANGED <<list, calls>>
     \/ /\ list[q][Id[p]] = Absent /\ Id[q] # Id[p]
        /\ LET answer == [list[q] EXCEPT ![Id[q]] = OwnEntry(q)]
           IN  list' = [list EXCEPT
                 ![q][Id[p]] = Newcomer(p),
                 ![p] = [i \in Ids |-> IF @[i] = Absent THEN answer[i] ELSE @[i]]]
        /\ calls' = calls \cup {Notice(q, r, Newcomer(p)) : r \in Reachable(q)}
  /\ UNCHANGED <<phase, nodes, seq, blacklist>>

\* All have been asked: p listens, and starts its heartbeats.
Listen(p) ==
  /\ phase[p] = "joining" /\ asks[p] = {}
  /\ phase' = [phase EXCEPT ![p] = "up"]
  /\ UNCHANGED <<nodes, asks, list, seq, blacklist, calls>>

\* The master stops pinging a server that hangs on dialling, and kills its
\* process; the port stays in serverNodeMap.
GiveUp(p) ==
  /\ phase[p] = "joining" /\ \E q \in asks[p] : ~Answers(q)
  /\ phase' = [phase EXCEPT ![p] = "crashed"]
  /\ UNCHANGED <<nodes, asks, list, seq, blacklist, calls>>

NewServerNotification(m) ==
  /\ m.type = "NewServer"
  /\ list' = [list EXCEPT ![m.to] = [i \in Ids |->
       IF @[i] = Absent /\ i # Id[m.to] THEN m.data[i] ELSE @[i]]]
  /\ calls' = calls \ {m}
  /\ UNCHANGED <<phase, nodes, asks, seq, blacklist>>

----------------------------------------------------------------------------
(* heartbeats *)

\* An entry when it is put under suspicion, and when number n is heard.
Suspect(e)      == [addr |-> e.addr, seq |-> e.seq, suspected |-> TRUE]
Refreshed(e, n) == [addr |-> e.addr, seq |-> n, suspected |-> FALSE]

\* Plausible bug: no state of suspicion, an entry is dropped at its timeout.
DroppedAtOnce(p, late) ==
  [i \in Ids |-> IF i \in late THEN Absent ELSE list[p][i]]

\* The list of p after the timeouts of late: a member is suspected first, and
\* dropped if it times out again.
AfterTimeouts(p, late) ==
  [i \in Ids |-> IF i \notin late THEN list[p][i]
                 ELSE IF list[p][i].suspected THEN Absent
                 ELSE Suspect(list[p][i])]

\* One turn of startHeartbeats.
Heartbeat(p, late) ==
  /\ phase[p] = "up" /\ seq[p] < MaxSeq
  /\ late \subseteq Listed(p)
  /\ seq' = [seq EXCEPT ![p] = @ + 1]
  /\ list' = [list EXCEPT ![p] = AfterTimeouts(p, late)]
  /\ LET beat  == [list'[p] EXCEPT ![Id[p]] = Refreshed(OwnEntry(p), seq'[p])]
         kept  == {i \in Ids : list'[p][i] # Absent}
     IN  \E chosen \in kSubset(Min({GOSSIP_HEARTBEAT_FANOUT, Cardinality(kept)}), kept) :
           calls' = calls \cup
             {[type |-> "Heartbeat", from |-> p, to |-> q, data |-> beat] :
                q \in {list[p][i].addr : i \in chosen} \cap Reachable(p)}
  /\ Cardinality(calls') <= MaxCalls
  /\ UNCHANGED <<phase, nodes, asks, blacklist>>

\* Plausible bugs: a server takes in its own id; a suspect is added again; only
\* what is new is taken in.
HeardWithSelf(p, i, new) ==
  LET old == list[p][i]
  IN  IF new = Absent THEN old
      ELSE IF old = Absent THEN (IF new.suspected THEN Absent ELSE new)
      ELSE IF old.seq >= new.seq THEN old ELSE Refreshed(old, new.seq)
HeardSuspects(p, i, new) ==
  LET old == list[p][i]
  IN  IF i = Id[p] \/ new = Absent THEN old
      ELSE IF old = Absent THEN new
      ELSE IF old.seq >= new.seq THEN old ELSE Refreshed(old, new.seq)
HeardOnce(p, i, new) ==
  IF i # Id[p] /\ new # Absent /\ list[p][i] = Absent /\ ~new.suspected
  THEN new ELSE list[p][i]

\* The entry of p for i after hearing new: the address is never updated.
Heard(p, i, new) ==
  LET old == list[p][i]
  IN  IF i = Id[p] \/ new = Absent THEN old
      ELSE IF old = Absent THEN (IF new.suspected THEN Absent ELSE new)
      ELSE IF old.seq >= new.seq THEN old ELSE Refreshed(old, new.seq)

HeartbeatNotification(m) ==
  /\ m.type = "Heartbeat"
  /\ list' = [list EXCEPT ![m.to] = [i \in Ids |-> Heard(m.to, i, m.data[i])]]
  /\ calls' = calls \ {m}
  /\ UNCHANGED <<phase, nodes, asks, seq, blacklist>>

----------------------------------------------------------------------------
(* killing, crashing *)

KillServer(p) ==
  /\ Idle /\ p \in nodes /\ phase[p] = "up"
  /\ phase' = [phase EXCEPT ![p] = "killed"]
  /\ nodes' = nodes \ {p}
  /\ calls' = calls \cup {[type |-> "KillServer", from |-> p, to |-> q,
                           data |-> NoEntries] : q \in Reachable(p)}
  /\ UNCHANGED <<asks, list, seq, blacklist>>

\* The entry goes by id, whichever process it stands for by then.
KillServerNotification(m) ==
  /\ m.type = "KillServer"
  /\ list' = [list EXCEPT ![m.to][Id[m.from]] = Absent]
  /\ calls' = calls \ {m}
  /\ UNCHANGED <<phase, nodes, asks, seq, blacklist>>

\* The process of p ends; the master does not notice.
Crash(p) ==
  /\ phase[p] = "up"
  /\ phase' = [phase EXCEPT ![p] = "crashed"]
  /\ calls' = {m \in calls : m.to # p}
  /\ UNCHANGED <<nodes, asks, list, seq, blacklist>>

----------------------------------------------------------------------------
(* connections, at the end of p *)

\* Both ids are known to the master, which calls p about q.
Commanded(p, q) ==
  Idle /\ <<p, q>> \in Links /\ {p, q} \subseteq nodes /\ phase[p] = "up"

BreakConnection(p, q) ==
  /\ Commanded(p, q)
  /\ blacklist' = [blacklist EXCEPT ![p] = @ \cup {q}]
  /\ UNCHANGED <<phase, nodes, asks, list, seq, calls>>

\* p tells q of itself; it learns of q by the call at q's end.
CreateConnection(p, q) ==
  /\ Commanded(p, q)
  /\ blacklist' = [blacklist EXCEPT ![p] = @ \ {q}]
  /\ calls' = calls \cup {Notice(p, r, OwnEntry(p)) : r \in {x \in {q} : Answers(x)}}
  /\ UNCHANGED <<phase, nodes, asks, list, seq>>

----------------------------------------------------------------------------
Received ==
  \E m \in calls : \/ NewServerNotification(m)
                   \/ HeartbeatNotification(m)
                   \/ KillServerNotification(m)

Joins == \E p \in Procs : \/ \E q \in Procs : JoinClusterAsServer(p, q)
                          \/ Listen(p)
                          \/ GiveUp(p)

Commands ==
  \/ \E p \in Procs : Start(p) \/ KillServer(p) \/ Crash(p)
  \/ \E p, q \in Procs : BreakConnection(p, q) \/ CreateConnection(p, q)

Next ==
  \/ Received
  \/ Joins
  \/ Commands
  \/ \E p \in Procs : \E late \in SUBSET Listed(p) : Heartbeat(p, late)

Spec == Init /\ [][Next]_vars

\* The main thread of a joining server runs on, and the master pings it a
\* limited number of times.
FairSpec == Spec /\ WF_vars(Joins)
=============================================================================
