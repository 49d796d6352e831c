-------------------------- MODULE MembershipTimed --------------------------
(***************************************************************************)
(* Membership with the timing of its heartbeats: turns of startHeartbeats  *)
(* at one rate, calls handled within a turn, timeouts by the local clock.  *)
(* Time is counted in turns (HEARTBEAT_TIME_INTERVAL), so that the code's  *)
(* GOSSIP_HEARTBEAT_TIMEOUT of 1000 ms is 10.  All servers have joined;     *)
(* then some stop.                                                         *)
(***************************************************************************)
EXTENDS Membership

CONSTANTS
  GOSSIP_HEARTBEAT_TIMEOUT,  \* in turns
  Deadline,                  \* intervals by which a stopped server is forgotten
  MaxStops,                  \* bound: servers that stop
  LastStop                   \* bound: turns by which one of them has stopped

ASSUME TimeoutAssumption == GOSSIP_HEARTBEAT_TIMEOUT \in Nat \ {0}

\* All have joined, each under an id of its own.
ASSUME JoinedAssumption ==
  /\ IsFiniteSet(Ids)
  /\ \A p, q \in Procs : Id[p] = Id[q] => p = q
  /\ \A i \in Ids : \E p \in Procs : Id[p] = i

VARIABLES
  turn,    \* the servers that have had their turn in the present interval
  age,     \* age[p][i]: turns of p since it last set the Timestamp of i
  since    \* since[q]: intervals that have ended since q stopped (history)

timedVars == <<vars, turn, age, since>>

Stopped == {p \in Procs : phase[p] \in {"killed", "crashed"}}
Up      == {p \in Procs : phase[p] = "up"}

\* All servers have joined, before the first heartbeat.
Joined ==
  /\ phase = [p \in Procs |-> "up"]
  /\ nodes = Procs
  /\ asks = [p \in Procs |-> {}]
  /\ seq = [p \in Procs |-> 1]
  /\ list = [p \in Procs |-> [i \in Ids |->
       IF i = Id[p] THEN Absent ELSE Newcomer(CHOOSE q \in Procs : Id[q] = i)]]
  /\ blacklist = [p \in Procs |-> {}]
  /\ calls = {}

TimedInit ==
  /\ Joined
  /\ turn = {}
  /\ age = [p \in Procs |-> [i \in Ids |-> 0]]
  /\ since = [q \in Procs |-> 0]

\* A Timestamp set between two turns is up to one interval old at the second:
\* on reaching the timeout the elapsed time is either side of it.
MustBeLate(p) == {i \in Listed(p) : age[p][i] >= GOSSIP_HEARTBEAT_TIMEOUT}
MayBeLate(p)  == {i \in Listed(p) : age[p][i] + 1 >= GOSSIP_HEARTBEAT_TIMEOUT}

\* A call takes less than an interval, the last calls of a stopped server too.
NothingOverdue(p) ==
  \A m \in calls : m.from # p /\ (m.to = p => m.from \in Up)

Turn(p, late) ==
  /\ p \notin turn
  /\ NothingOverdue(p)
  /\ MustBeLate(p) \subseteq late /\ late \subseteq MayBeLate(p)
  /\ seq[p] <= LastStop \/ Stopped # {}
  /\ Heartbeat(p, late)

\* An interval ends when every server in service has had its turn.  Every
\* change of an entry sets its Timestamp.
Timing ==
  LET had   == turn \cup {p \in Procs : seq'[p] # seq[p]}
      ended == Up' \subseteq had
  IN  /\ turn' = IF ended THEN {} ELSE had \cap Up'
      /\ age' = [p \in Procs |-> [i \in Ids |->
           IF list'[p][i] # list[p][i] \/ list[p][i] = Absent THEN 0
           ELSE age[p][i] + (seq'[p] - seq[p])]]
      /\ since' = [q \in Procs |->
           IF q \notin Stopped' THEN 0
           ELSE since[q] + (IF ended THEN 1 ELSE 0)]

Stop(p) ==
  /\ KillServer(p) \/ Crash(p)
  /\ Cardinality(Stopped') <= MaxStops

TimedNext ==
  /\ \/ Received
     \/ \E p \in Procs : Stop(p)
     \/ \E p \in Procs : \E late \in SUBSET MayBeLate(p) : Turn(p, late)
  /\ Timing

TimedSpec == TimedInit /\ [][TimedNext]_timedVars

=============================================================================
