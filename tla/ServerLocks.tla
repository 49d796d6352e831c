---------------------------- MODULE ServerLocks ----------------------------
(***************************************************************************)
(* The threads of the servers and the mutexes they share (server.go,       *)
(* rpc.go).  A handler is the sequence of its lock operations, of the      *)
(* shared variables it touches between them, and of the calls it waits     *)
(* for; a call to another server is the callee's sequence, played "there".   *)
(***************************************************************************)
EXTENDS Naturals, Sequences, FiniteSets

CONSTANTS
  Servers,    \* a server also names its heartbeat thread
  Workers,    \* the goroutines that net/rpc starts, one for each request
  Requests,   \* the handlers that are called
  None

Threads == Servers \cup Workers

ASSUME ThreadsAssumption == Servers \cap Workers = {} /\ None \notin Threads

----------------------------------------------------------------------------
(* What handlers do.  "map" is mutex_server_map and serverMap with its     *)
(* entries, "self" currServerInfo (but not its Id, which never changes),   *)
(* "store" keyValueMap, "log" writeLog, "black" blacklistMap.              *)

Mutexes == {"black", "map", "store", "self", "log"}

Instr(op, m, place, reads, writes, to) ==
  [op |-> op, m |-> m, place |-> place, reads |-> reads, writes |-> writes, to |-> to]

\* "to" holds where the thread may go on; {} stands for the next instruction.
Lock(m)            == Instr("lock", m, "here", {}, {}, {})
Unlock(m)          == Instr("unlock", m, "here", {}, {}, {})
UnlockTo(m, to)    == Instr("unlock", m, "here", {}, {}, to)
Use(reads, writes) == Instr("use", "map", "here", reads, writes, {})
UseTo(reads, writes, to) == Instr("use", "map", "here", reads, writes, to)
There(i, to) == Instr(i.op, i.m, "there", i.reads, i.writes, to)
\* the head of a loop over serverMap: the next instruction and the one after it
EachMember(to) == Instr("each", "map", "here", {}, {}, to)
\* the two ends of the channel doneHeartbeat
Send      == Instr("send", "map", "here", {}, {}, {})
Select    == Instr("select", "map", "here", {}, {}, {})

JoinClusterAsServer ==
  << Lock("map"), Lock("self"), Use({"self", "black"}, {"map"}),
     Unlock("self"), Unlock("map") >>

NewServerNotification  == << Lock("map"), Use({}, {"map"}), Unlock("map") >>
KillServerNotification == << Lock("map"), Use({}, {"map"}), Unlock("map") >>

GetServerInfo == << Lock("self"), Use({"self"}, {}), Unlock("self") >>

\* Plausible bug: the two mutexes in the other order.
SelfBeforeMap ==
  << Lock("self"), Lock("map"), Use({}, {"map", "self"}), Unlock("map"), Unlock("self") >>

HeartbeatNotification ==
  << Lock("map"), Lock("self"), Use({}, {"map", "self"}), Unlock("self"), Unlock("map") >>

PrintMembershipList ==
  << Lock("map"), Lock("self"), Use({"map", "self"}, {}), Unlock("self"), Unlock("map") >>

\* The dial may fail: then nothing is called.
CreateConnection ==
  << Lock("self"), Use({"self"}, {}), Unlock("self"),
     Lock("black"), UseTo({}, {"black"}, {6, 9}),
     There(NewServerNotification[1], {}), There(NewServerNotification[2], {}),
     There(NewServerNotification[3], {}),
     Unlock("black") >>

\* mutex_server_map is released at once, and serverMap used all the same.
BreakConnection ==
  << Lock("map"), Unlock("map"), Lock("black"), Use({}, {"black", "map"}), Unlock("black") >>

KillServer == << Lock("map"), Use({"black"}, {"map"}), Send, Unlock("map") >>

\* A key that is there already has the clock read once more, for the log.
PutKVServer ==
  << Lock("map"), Unlock("map"),
     Lock("store"), UseTo({}, {"store"}, {5, 8}),
     Lock("self"), Use({"self"}, {}), Unlock("self"),
     Lock("self"), Use({}, {"self"}), Unlock("self"),
     Lock("log"), Use({}, {"log"}), Unlock("log"),
     Use({"store", "black"}, {"map"}), Unlock("store") >>

\* Plausible bug: a get does not take the mutex of the store.
UnlockedGet ==
  << Use({"store"}, {}), Lock("self"), Use({}, {"self"}), Unlock("self") >>

GetKVServer ==
  << Lock("store"), Use({"store"}, {}), Lock("self"), Use({}, {"self"}),
     Unlock("self"), Unlock("store") >>

\* An older version changes nothing.
ProcessRemoteWrite ==
  << Lock("store"), UseTo({}, {"store"}, {3, 6}),
     Lock("log"), Use({}, {"log"}), Unlock("log"), Unlock("store") >>

SendKVData == << Lock("store"), Use({}, {"store"}), Unlock("store") >>

\* Plausible bug: the unlock after the loop is forgotten.
NeverUnlocked ==
  << Lock("self"), Use({"self"}, {}), Unlock("self"), Lock("store"), Use({"store"}, {}) >>

PrintStore ==
  << Lock("self"), Use({"self"}, {}), Unlock("self"),
     Lock("store"), Use({"store"}, {}), Unlock("store") >>

\* Plausible bug: the store stays locked until the member has answered.
SendsUnderStoreLock ==
  << Lock("map"), EachMember({3, 10}), UseTo({"black"}, {"map"}, {2, 4}),
     Lock("store"), Use({"store"}, {}),
     There(SendKVData[1], {}), There(SendKVData[2], {}), There(SendKVData[3], {}),
     UnlockTo("store", {2}), UnlockTo("map", {1, 11}) >>

\* One round after the other; in each, mutex_server_map is held while every
\* member is sent the store and has answered, unless it is not connected
\* (from 3 back to 2) or the call fails (from 6).
Stabilize ==
  << Lock("map"), EachMember({3, 10}), UseTo({"black"}, {"map"}, {2, 4}),
     Lock("store"), Use({"store"}, {}), UnlockTo("store", {2, 7}),
     There(SendKVData[1], {}), There(SendKVData[2], {}), There(SendKVData[3], {2}),
     UnlockTo("map", {1, 11}) >>

startHeartbeats ==
  << Select, Lock("self"), Use({}, {"self"}), Unlock("self"),
     Lock("map"), Use({}, {"map"}),
     Lock("self"), Use({"self"}, {}), Unlock("self"),
     Use({"black"}, {"map"}), UnlockTo("map", {1}) >>

Script ==
  [JoinClusterAsServer |-> JoinClusterAsServer,
   NewServerNotification |-> NewServerNotification,
   KillServerNotification |-> KillServerNotification,
   GetServerInfo |-> GetServerInfo, HeartbeatNotification |-> HeartbeatNotification,
   PrintMembershipList |-> PrintMembershipList, CreateConnection |-> CreateConnection,
   BreakConnection |-> BreakConnection, KillServer |-> KillServer,
   PutKVServer |-> PutKVServer, GetKVServer |-> GetKVServer,
   ProcessRemoteWrite |-> ProcessRemoteWrite, SendKVData |-> SendKVData,
   PrintStore |-> PrintStore, Stabilize |-> Stabilize, startHeartbeats |-> startHeartbeats]

Handlers == DOMAIN Script

ASSUME RequestsAssumption ==
  Requests \subseteq Handlers \ {"startHeartbeats"} /\ None \notin Handlers

\* What the master asks for, one command at a time (master.go, main); of
\* these only stabilize is asked of every server at once.
Commands == {"PrintMembershipList", "CreateConnection", "BreakConnection", "KillServer",
             "PutKVServer", "GetKVServer", "PrintStore", "Stabilize"}

----------------------------------------------------------------------------
VARIABLES
  runs,     \* runs[t]: the handler that thread t is in, or None
  pc,       \* pc[t]: its next instruction
  at,       \* at[t]: the server that thread t runs on
  peer,     \* peer[t]: the server that thread t calls
  todo,     \* todo[t]: the members that its loop has not come to
  holder,   \* holder[s][m]: the thread that holds mutex m of server s, or None
  killed    \* the servers that were asked to stop

vars == <<runs, pc, at, peer, todo, holder, killed>>

Busy == {t \in Threads : runs[t] # None}

Now(t) == Script[runs[t]][pc[t]]

Does(t, op) == t \in Busy /\ Now(t).op = op

\* The server that the next instruction of t is about.
Place(t) == IF Now(t).place = "there" THEN peer[t] ELSE at[t]

Init ==
  /\ runs = [t \in Threads |-> IF t \in Servers THEN "startHeartbeats" ELSE None]
  /\ pc = [t \in Threads |-> 1]
  /\ at = [t \in Threads |-> IF t \in Servers THEN t ELSE None]
  /\ peer = at
  /\ todo = [t \in Threads |-> {}]
  /\ holder = [s \in Servers |-> [m \in Mutexes |-> None]]
  /\ killed = {}

MayAsk(r, s) ==
  /\ r = "KillServer" => s \notin killed
  /\ r \in Commands => \A u \in Busy \cap Workers :
       runs[u] \in Commands => r = "Stabilize" /\ runs[u] = "Stabilize" /\ at[u] # s

\* A request comes in for server s.
Begin(t, r, s, p) ==
  /\ runs[t] = None /\ MayAsk(r, s) /\ p # s
  /\ runs' = [runs EXCEPT ![t] = r]
  /\ at' = [at EXCEPT ![t] = s]
  /\ peer' = [peer EXCEPT ![t] = p]
  /\ todo' = [todo EXCEPT ![t] = Servers \ {s}]
  /\ killed' = IF r = "KillServer" THEN killed \cup {s} ELSE killed
  /\ UNCHANGED <<pc, holder>>

Onward(r, i) == IF Script[r][i].to = {} THEN {i + 1} ELSE Script[r][i].to

\* Thread t goes on at instruction i, or ends.
GoTo(t, i) ==
  IF i \in DOMAIN Script[runs[t]]
    THEN pc' = [pc EXCEPT ![t] = i] /\ UNCHANGED runs
    ELSE pc' = [pc EXCEPT ![t] = 1] /\ runs' = [runs EXCEPT ![t] = None]

Acquire(t) ==
  /\ Does(t, "lock")
  /\ holder[Place(t)][Now(t).m] = None
  /\ holder' = [holder EXCEPT ![Place(t)][Now(t).m] = t]
  /\ \E i \in Onward(runs[t], pc[t]) : GoTo(t, i)
  /\ UNCHANGED <<at, peer, todo, killed>>

Release(t) ==
  /\ Does(t, "unlock")
  /\ holder' = [holder EXCEPT ![Place(t)][Now(t).m] = None]
  /\ \E i \in Onward(runs[t], pc[t]) : GoTo(t, i)
  /\ UNCHANGED <<at, peer, todo, killed>>

Touch(t) ==
  /\ Does(t, "use")
  /\ \E i \in Onward(runs[t], pc[t]) : GoTo(t, i)
  /\ UNCHANGED <<at, peer, todo, holder, killed>>

\* range serverMap
NextMember(t) ==
  /\ Does(t, "each")
  /\ \/ \E p \in todo[t] :
          /\ peer' = [peer EXCEPT ![t] = p]
          /\ todo' = [todo EXCEPT ![t] = todo[t] \ {p}]
          /\ GoTo(t, pc[t] + 1)
     \/ /\ todo[t] = {}
        /\ todo' = [todo EXCEPT ![t] = Servers \ {at[t]}]
        /\ \E i \in Now(t).to \ {pc[t] + 1} : GoTo(t, i)
        /\ UNCHANGED peer
  /\ UNCHANGED <<at, holder, killed>>

\* The heartbeat thread ends when it receives from doneHeartbeat, which has no
\* buffer: the sender goes on at that moment.  Its sleep is part of "select".
SendDone(t) ==
  /\ Does(t, "send") /\ Does(at[t], "select")
  /\ runs' = [runs EXCEPT ![at[t]] = None]
  /\ pc' = [pc EXCEPT ![t] = pc[t] + 1]
  /\ UNCHANGED <<at, peer, todo, holder, killed>>

\* The default case, taken when nothing can be received.
SelectDefault(t) ==
  /\ Does(t, "select")
  /\ \A u \in Workers : ~(Does(u, "send") /\ at[u] = t)
  /\ \E i \in Onward(runs[t], pc[t]) : GoTo(t, i)
  /\ UNCHANGED <<at, peer, todo, holder, killed>>

Step(t) ==
  \/ Acquire(t) \/ Release(t) \/ Touch(t)
  \/ NextMember(t) \/ SendDone(t) \/ SelectDefault(t)

Next ==
  \/ \E t \in Threads : Step(t)
  \/ \E t \in Workers, r \in Requests, s, p \in Servers : Begin(t, r, s, p)

Spec == Init /\ [][Next]_vars

\* Go's scheduler runs every goroutine, and sync.Mutex hands itself over to a
\* goroutine that has waited for long.
FairSpec == Spec /\ \A t \in Threads : SF_vars(Step(t))

----------------------------------------------------------------------------
\* The types; and a thread that has ended holds no mutex.
TypeOK ==
  /\ runs \in [Threads -> Handlers \cup {None}]
  /\ pc \in [Threads -> Nat] /\ \A t \in Busy : pc[t] \in DOMAIN Script[runs[t]]
  /\ at \in [Threads -> Servers \cup {None}] /\ peer \in [Threads -> Servers \cup {None}]
  /\ todo \in [Threads -> SUBSET Servers]
  /\ holder \in [Servers -> [Mutexes -> Busy \cup {None}]]
  /\ killed \in SUBSET Servers

\* Both are about to use variable x of one server, one of them to write it.
Race(t, u, x) ==
  /\ t # u /\ Place(t) = Place(u)
  /\ x \in Now(t).writes /\ x \in Now(u).reads \cup Now(u).writes

\* The handlers that use serverMap after they have released its mutex.
Careless == {"PutKVServer", "BreakConnection"}

\* Of the five variables above (the replies that calls of one loop share are not
\* among them): the store, the write log and the clock are never used by two
\* threads at once when one writes; serverMap is only when PutKVServer or BreakConnection
\* uses it unlocked, blacklistMap only when getRPCConnection reads it without
\* its mutex while a connection is broken or created.
RacesKnown ==
  \A t, u \in {v \in Threads : Does(v, "use")}, x \in Mutexes : Race(t, u, x) =>
    \/ x = "map" /\ {runs[t], runs[u]} \cap Careless # {}
    \/ x = "black" /\ runs[t] \in {"BreakConnection", "CreateConnection"}

\* Whom t waits for, when it cannot move.
WaitsFor(t) ==
  IF Does(t, "lock") THEN {holder[Place(t)][Now(t).m]} \ {None}
  ELSE IF Does(t, "send") /\ ~Does(at[t], "select") THEN {at[t]} \cap Busy
  ELSE {}

Blocked(t) == \/ Does(t, "lock") /\ holder[Place(t)][Now(t).m] # None
              \/ Does(t, "send") /\ ~Does(at[t], "select")

\* KillServer and the heartbeat thread of its server wait for each other.
KillStuck(t) ==
  /\ Does(t, "send") /\ Does(at[t], "lock") /\ Now(at[t]).m = "map"
  /\ holder[at[t]]["map"] = t

\* Threads wait for each other without end only where KillServer waits for the
\* heartbeat thread, which waits for the mutex that KillServer holds: no other
\* order of locks, calls between servers and sends makes a deadlock.
OnlyKillDeadlocks ==
  \A S \in (SUBSET {t \in Busy : Blocked(t)}) \ {{}} :
    (\A t \in S : WaitsFor(t) \subseteq S) => \E t \in S : KillStuck(t)

\* Nobody waits for a mutex for ever, whoever else keeps taking it, but for
\* that deadlock.
WaitingEnds ==
  \A t \in Threads :
    Does(t, "lock") ~> ~Does(t, "lock") \/ \E u \in Workers : KillStuck(u)

\* README, killServer: "It blocks until the server is stopped."
KillEnds ==
  \A t \in Workers : (t \in Busy /\ runs[t] = "KillServer") ~> t \notin Busy
=============================================================================
