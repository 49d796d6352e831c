# A TLA+ verification of pskDB

pskDB is an eventually consistent key-value store in Go: server processes that
replicate a map, client processes that put and get on behalf of a user, and a
master that reads commands and calls the others one command at a time. It
promises eventual consistency and, to each client, Read Your Writes and
Monotonic Reads (`README.md:11-14` of the repository). This directory models
the program in TLA+, checks small instances with TLC, and proves the central
claims with TLAPS for any number of servers, clients, keys and writes.

All calls are `net/rpc`: each one that arrives is run in a goroutine of its own.

## Inventory

| component | state | operations | made correct by |
|---|---|---|---|
| server data path (`server/rpc.go`) | `keyValueMap` under `mutex_key_value_map` | PutKVServer, GetKVServer, ProcessRemoteWrite, SendKVData | a replica only moves forward under replication; no write is lost on the way; replicas that received the same writes agree; values are never mixed |
| Lamport timestamps (`server/server.go`) | `currServerInfo.Lamport_Timestamp` under `mutex_curr_server_info` | GetAndIncrement, ConditionalIncrement, heartbeat tick, heartbeat merge | clocks advance; versions of a key are unique; a put's version passes what it follows |
| client session (`client/client.go`) | `keyVersionInfo`, `serv_map` and the connection of each entry | PutKVClient, GetKVClient, CreateConnection, BreakConnection | the two session guarantees; a put reported done is stored; a call ends, and fails only when no server is left |
| connections (`server/rpc.go`, `server.go`, `client.go`) | `blacklistMap`, `rpcClient`, `serv_map` | BreakConnection, CreateConnection at each end | a broken link carries nothing new; a restored one works in both directions |
| membership (`server/rpc.go`, `server.go`) | `serverMap`: sequence number, time, alive, suspicion of each member | JoinClusterAsServer, NewServerNotification, HeartbeatNotification, timeouts, KillServer, KillServerNotification | no server lists itself; live servers come to list each other; dead ones are dropped, and not added again for ever |
| stabilize (`server/rpc.go`, `master.go`) | the round of each server | Stabilize, SendKVData; the master's collector | after n-1 rounds a connected partition agrees, and learns nothing from another one; success is reported only of servers that finished; the command ends |
| locks of a server | `mutex_server_map`, `mutex_blacklist_map`, `doneHeartbeat` | every handler, the heartbeat thread | no deadlock; no unprotected access |
| master (`master.go`) | `serverNodeMap`, `clientNodeMap`, next ports | one per command | a connection is the same at both ends; calls go to the address and kind of process they are for; it panics on a nil connection only after a listed process was lost |
| logging, printing | none | PrintStore, PrintMembershipList, Logger | - |

How they interact. The master calls a client's PutKVClient or GetKVClient and
waits. The client picks a server of its `serv_map` that it can dial, sends it
the key and the version it last knew of the key (-1 if none), and keeps the
version in the answer. The server gives a put a version from its Lamport clock
and sends the put to each server it lists, without waiting and without sending
it again. Every 100 ms a server sends its list, clocks included, to two members
chosen at random; that is the only thing that carries clocks: replicated writes
do not advance them. `stabilize` makes each server send its whole store to its
neighbours in n-1 rounds.

The hard behaviours are the order in which replicated writes, snapshots and
heartbeats of several servers arrive, clients that change servers, clocks that
lag, links broken at one end first, the arithmetic of versions, the timeouts of
membership, and the locks held over calls. `PROJECT.json` lists them as
`hazards`, each at its line.

## Modules

| module | what it is |
|---|---|
| `LamportTime` | the arithmetic on timestamps, as operators |
| `LamportChecks` | the code's own form of that arithmetic, to compare with |
| `Lamport_proofs` | theorems and proofs that the two are the same |
| `SessionKV` | servers' data path, clocks, connections and clients' sessions: state, `Init`, one action per operation, `Next`, the specifications |
| `SessionStore` | the abstract specification: what the client sessions are promised, with no servers |
| `SessionProps` | the properties of `SessionKV`, the refinement mapping, the inductive invariant |
| `MCSessionKV` | constants for TLC |
| `SessionKV_proofs` | theorems and proofs |
| `Membership` | who is in the cluster: joining, gossip, suspicion, removal, kill, crash, with timeouts at any moment |
| `MembershipProps` | its properties |
| `Membership_proofs` | theorems and proofs about `Membership` |
| `MembershipTimed` | `Membership` with heartbeats in time and timeouts by the local clock |
| `MembershipTimedProps` | what only holds then, and the invariant behind it |
| `MembershipTimed_proofs` | theorems and proofs about it |
| `MCMembership`, `MCMembershipTimed` | constants for TLC |
| `StabilizeRounds` | the servers' side of stabilize: rounds, transfers, late writes, crashes; the specification that `MasterStabilize` implements |
| `MasterStabilize` | the command: `StabilizeRounds` with the master's goroutines, channels, timer and collector |
| `Stabilize_proofs` | theorems and proofs about both |
| `ServerLocks` | every thread of the servers as a sequence of lock operations, accesses and calls |
| `ServerLocks_proofs` | theorems and proofs about it |
| `ClientCalls` | a client's put and get loops when servers stop |
| `ClientCalls_proofs` | theorems and proofs about it |
| `Master` | the commands that start, kill and connect processes, with what they set at both ends |
| `Master_proofs` | theorems and proofs about it |
| `MCMasterStabilize`, `MCServerLocks`, `MCClientCalls`, `MCMaster` | constants for TLC |

### LamportTime

The code keeps a timestamp `time.pid` in one float64: the whole ticks, plus the
server's id divided by ten to the number of its digits. All updates add whole
numbers (the heartbeat merge puts the receiver's own fraction back), so a
server's fraction never changes, and a timestamp is the pair of its floor and
the rank of its fraction. `ConditionalIncrement` is
`ConditionalIncrementLamportTimestamp`; `IsMergedTime` is the loop of
`HeartbeatNotification` in closed form. `LamportChecks` has both as the code writes
them, one number (in fixed point, fractions being multiples of `1 / Width`) and a
loop, and `Lamport_proofs` shows that they agree for every clock, version and
fraction, and for lists of any length. These are facts about the translation, not
properties of the system, and no run checks them.

### SessionKV

| model | code |
|---|---|
| `clock[s]`, `Pid[s]` | the two parts of `currServerInfo.Lamport_Timestamp` |
| `store[s][k]` | `keyValueMap`; `NoEntry` where the key is absent |
| `blacklist[s]` | `blacklistMap`; a blacklisted server has no `rpcClient` |
| `ticked` | heartbeat threads between the tick of the clock and the sending |
| `msgs`, `beats` | calls in flight, delivered in any order |
| `conn[c]`, `seen[c]` | `serv_map`, `keyVersionInfo` |
| `hist`, `own`, `got` | history only: the accepted puts; each client's last put of a key and its last read since |

A value is the number of the put that wrote it. A put or get is one action,
call, handler and the client's bookkeeping together: the client waits for the
answer, the master calls one client at a time, and the handler works under
`mutex_key_value_map`; other handlers interleave between actions. The tick
and the sending of a heartbeat are two actions, as the code releases the
clock's mutex between them. `Stabilize` sends a copy of the store to one server,
and until the answer comes the sender's heartbeat handlers wait for
`mutex_server_map`; that the mutex is also held from one turn of the loop to the
next is left out, so a heartbeat may come in between. A put only passes through
the mutex (it is locked and unlocked at once), so it does not wait.

`Past(i)`, the values put i came after, is what "older" means in the two
guarantees: the value the put overwrote, the ones its client had written and
read, and what those came after. It is a fact about the run, not about versions,
so a wrong version cannot hide in it.

Three specifications have the same `Init`:

- `Spec` is the code as it is. What the guarantees come to without any assumption
  is stated of it: a put *goes back* (`PutBack`) if its version is not above that of
  a value it came after. A clock or a put goes back only in a put at a server whose
  clock is behind a value the put comes after (`BackOnlyBehind`); a client reads a
  value its last put came after only if that put went back (`ReadsOwnUnlessBack`); and
  the servers agree on each key of which no put went back (`AgreesUnlessBack`).
- `CaughtUpSpec` lets a client put a key only at a server whose clock is past
  the version the client sends and the one the server stores. **The code does
  not check this.** It is what the heartbeats are there to give: every clock
  reaches the other servers within some 100 ms, and puts typed into the master
  are usually slower. It fails when links are broken for a time, right after
  `stabilize` (which copies versions and no clocks), and when puts are faster
  than heartbeats. The run `stale_write` shows what then happens. Since it keeps
  every put from going back, and with it the branch of `server.go:131` from running,
  what is proved of it says nothing about that branch; `BackOnlyBehind` does.
- `FairCaughtUpSpec` adds weak fairness of the processing of replicated
  writes: the connection delivers the call and a goroutine runs it. Nothing is
  assumed about heartbeats, stabilize, puts or gets.

### SessionStore

Versions issued per key, and the version each client knows. A write issues a
version that is new and above the one its client knows; a read returns an issued
version that is not below it. `AbstractSpec` states that `SessionKV` implements
it with `view <- seen` and `issued` the versions of `hist`.

### Membership

| model | code |
|---|---|
| `Procs`, `Id[p]` | a process is its address: the master gives each a port of its own; `Id[p]` is the id it is started with, so two processes may be starts of one id |
| `phase[p]` | how far `main` has got; "killed" after KillServer, "crashed" when the process ends |
| `nodes` | the master's `serverNodeMap` |
| `asks[p]` | the ports of `os.Args` not asked yet |
| `list[p][i]` | `serverMap`: address, `Heartbeat_seqnum`, `Suspicion` (`Alive` is always its negation) |
| `seq[p]`, `blacklist[p]` | `currServerInfo.Heartbeat_seqnum`, `blacklistMap` |
| `calls` | NewServerNotification, HeartbeatNotification and KillServerNotification in flight, handled in any order |

Each handler works under `mutex_server_map` from its start to its end and is one
action. One turn of `startHeartbeats` is too: it holds that mutex from the
timeouts to the sending, and only the handlers of the Lamport clock see the
number in between. A join is one action with the handler and the joiner's
update: the joiner does not listen yet, so nobody else can touch its list. The
master waits for a server to come up before its next command (`Idle`). It may start
an id that is in the cluster, as its code does not ask: the new process takes the
other's place in `nodes`, asks it among the rest, and is answered with an error, which
it passes over after its retries (300 ms, while the master pings for seconds); the other
runs on. A killed
process still answers calls, as in the code, where KillServer stops the
heartbeats only. That KillServer may never return is the subject of `ServerLocks`. A call to a process
that has ended is lost.

`Spec` lets any timeouts expire at any turn, so what holds there depends on no
clock. `MembershipTimed` adds time, counted in turns: in each interval every
server has one turn, in any order; a call is handled before its sender's next turn,
and the last calls of a server that stopped before the receiver's next turn; a
timeout expires at the first turn that finds
`GOSSIP_HEARTBEAT_TIMEOUT` passed, or one turn before, as a time stamp set
between two turns may be either side of it. `startHeartbeats` sleeps a fixed
time and calls on one machine take far less than that, which justifies it as long
as no handler holds `mutex_server_map` for long. `since[q]` counts the intervals that
ended since q stopped. All have joined at the start, and no server joins later.

### StabilizeRounds and MasterStabilize

| model | code |
|---|---|
| `peers[s]` | the servers in `serverMap` of s that it can dial, which stay the same during the command |
| `store[s][k]` | the version in `keyValueMap`; its value goes with it (`NoThinAir`) |
| `round[s]`, `todo[s]`, `sending[s]` | `i` of the loop of Stabilize, the members the inner loop has not come to, the SendKVData call it waits for |
| `writes` | ProcessRemoteWrite calls sent before the command; they arrive at any time, more than once or never |
| `call[s]` | the goroutine that the master starts for s: dialling, calling, at `errChan` and then `replyChan` with an answer or after a failure, ended |
| `taken`, `reports`, `acksRecv`, `timer`, `done` | the collector: the error it has taken, if it waits for the id; the pairs it logs; its count, `stabilizeTimer`, its loop condition |

The id the collector logs is that of the reply, which only the server's handler sets
(`rpc.go:390`): after a failed call it is empty (`ReplyId`), and the failure is logged
under no id. A server that crashes may have sent its last call, which is then handled.

The copy of the store and the call are two steps (`SendTo`, `SendKVData`): the
store's mutex is released in between. The rounds run on a ticker of each server,
started when the master's call arrives. That they keep in step (`InStep`: nobody
begins a round before those it hears from have sent theirs of the round before)
is an **assumption**; the code does not check it. The master's goroutines start
together and calls on one machine take far less than `STABILIZE_ROUND_INTERVAL`,
100 ms. `RoundsSpec` is the same without it: there
`FloodComplete` fails, as the ticker says how short a round may be
and not how long. `StaysInPartition` needs no such assumption.

When the timer fires, `break` leaves the `select` only: the collector waits on, and
the timer changes nothing but the log. A server that could not be dialled
is waited for, without end; so `EndsUnlessUndialled` says that the command ends or
such a server exists. With no server at all the collector waits as well (the count
is compared only after an answer); the instances have servers.

### ServerLocks

A thread runs a script: `Lock`, `Unlock`, `Use` of shared variables, the head of a
loop over members, `Send` and `Select` for the two ends of `doneHeartbeat`. An
instruction that is played `There` belongs to a handler of another server that
the thread waits for; which goroutine runs it there does not matter to locks. The
scripts are the handlers of `rpc.go` and `startHeartbeats`, one instruction for each
lock operation, the accesses between two of them taken together; branches are
the sets of places an instruction goes on to. The asynchronous calls (`Go`) wait
for nothing and are requests of their own. `AsyncCallHandler` would lock
`mutex_server_map`, but only for an error equal to `ErrShutdown` of `server.go:55`, a
new value that no call returns, so it never does. `MayAsk` keeps the master to one
command at a time. No process ends in this module.

What races and what deadlocks follow from the code, and the properties say it
exactly: `serverMap` is used with its mutex released in PutKVServer
(`rpc.go:270`, under the comment "acquire lock on serverMap") and BreakConnection
(`rpc.go:209`); `blacklistMap` is read in getRPCConnection without its mutex;
`keyValueMap`, `writeLog` and `currServerInfo` are never raced for. That is a statement
about these five variables: the reply that the calls of one heartbeat, or of one
KillServer, all decode into (`server.go:174`, `rpc.go:248`) is not one of them. The only deadlock is
KillServer with the heartbeat thread.

Fairness: `SF_vars(Step(t))` for each thread. Go's scheduler runs each goroutine,
and a `sync.Mutex` hands itself to a goroutine that has waited for a millisecond,
so a waiting thread does not lose every race. (The 1.6.2 the repository names has
no such mode; its sleeping heartbeat thread, however, leaves 100 ms in which
others take the mutex.)

### ClientCalls

| model | code |
|---|---|
| `up` | the server processes that run; each has an address of its own |
| `serv_map[id]` | the client's entry: address, and whether `rpcClient` is nil, open, or shut by the other end |
| `command` | the loop of PutKVClient or GetKVClient: the ids not tried, the one waited for, its answer |
| `accepted` | the puts that servers stored; a version is an index into it |

A server stops before it acts on a call, after it, or with the answer on its way.
The error a call then returns is compared with `ErrShutdown` of `client.go:21`, which
no call returns, so the branch at `client.go:85` is never taken: a connection once
shut stays shut, and the loop goes on to the next server. The branch is in the model
(`AfterError`) as the code has it. If it were taken, the code after it would use the
empty reply and report the put as done (the mutant of `DoneIsStored`). A retry at
the next server may store the put twice, though only when the first one stopped.
That servers run concurrently, their stores and versions, is `SessionKV`'s part: here
a get returns any put. Fairness: `WF_vars(LoopStep)`: calls to running servers are
answered, and broken connections are noticed.

### Master

| model | code |
|---|---|
| `serverNodeMap`, `clientNodeMap` | the same, with a process in place of its port |
| `id[p]`, `role[p]`, `state[p]` | the arguments a process was started with, and whether it listens |
| `waiting` | the process pinged by joinServer or joinClient |
| `calls` | the calls a breakConnection or createConnection has yet to make |
| `blacklist[p]`, `serv_map[p]` | what those calls set at a server and at a client |

One command runs at a time, but processes end, or come up late, at any moment in
between. Ports are never used twice (`serverNextPort++`); that server ports would
reach the client ports after a thousand starts is left out. joinServer takes any
id: that of a client, or that of a server it lists, whose process then runs on
unlisted. Nothing a server does on its own is here; `Membership` has that. killServer is taken to return, which `ServerLocks`
shows it may not.

## Runs

| run | shows |
|---|---|
| `code` | under `Spec`, on an instance where puts and clocks do go back: they do so only in a put at a server whose clock is behind a value the put comes after, and a client reads a value its last put came after only if that put went back; values and versions stay together; replication and snapshots, late or out of order, never take a replica back; only a put lowers a client's version; over a link broken at one end, servers that received the same puts of a key agree unless one of them went back |
| `sessions` | under `FairCaughtUpSpec`, two clients of two servers, one of which moves between them, with heartbeats: the inductive invariant, Read Your Writes, Monotonic Reads, agreement of replicas that received the same writes, the refinement of `SessionStore`, each put arrives, the stores become equal for good |
| `restart` | servers start, gossip, time out, are killed and crash, an id is started again while its first process still runs, or calls of it are in flight, and a connection is broken and created: `MembersInv` (no server lists itself, entries name a process of their id, no number ahead of its owner's) and `EntriesChangeByNews` (numbers only grow; a suspicion is lifted by a newer number; a member is removed only as a suspect or by a kill notice) |
| `stop` | with heartbeats in time: a killed or crashed server is forgotten for good, no server in service is suspected, and the inductive invariant behind both (`DetectionInv`) |
| `stabilize` | on a line of three, whose last server has dropped the one before from its list, so that the first two are a partition nothing may come into, with up to two crashes: when the command ends with all servers up, every entry is with every server it can reach; data stays in its partition; success is logged only under the id of a server that finished, and of every server in service, and a failure under no id (`ReportsAreTrue`); the command ends unless a server could not be dialled, for two reasons that are checked (and proved) on their own: until then somebody can go on (`NeverStuck`), and each step lowers a measure of what is left (`CommandAdvances`) |
| `locks` | every handler, two at a time, with both heartbeat threads: types (no mutex is left locked), the races for the five variables and the deadlocks are the ones above |
| `waits` | with kills, stabilizes and puts: who waits for a mutex gets it, but for that deadlock |
| `calls` | a client of up to three servers, one of which is started again: a put that is done is stored under the version the client keeps; a call fails only when all the client lists have stopped; a put is stored twice only if the first server stopped; each step of a call lowers the number it has left (`LoopAdvances`), and every call ends |
| `master` | three processes, three ids: between two commands a connection is broken at both ends or at none; a nil connection is called only for a process that is listed and was lost; maps name processes of the right id and kind |

Bounds. Two puts give the overwritten value, the overwriting one and both orders
of arrival; `stale_write` has three, as a client must then read between them. Versions
up to 4 leave room for a clock behind, equal to and ahead of a pivot, which are the
branches of `ConditionalIncrement`; in `code`, at a server of time 1, a put that follows
version 3 leaves the clock where it is, and one that follows version 4 sets it back to 0.
They also let the two entries of a heartbeat's list raise a clock past the sender's. One heartbeat in
flight at a time, one snapshot (in `code`), one key: handlers treat keys
independently (the loop of SendKVData included), and the theorems hold for any
number of all of these. Links between servers change in `code` only: with caught-up
clocks they, snapshots, and more than two servers, are left to the theorems. A
bound appears only in guards. Membership is fixed, and each heartbeat
entry of another server carries the clock recorded when that server was first
listed: `HeartbeatNotification` never refreshes it. In-flight heartbeats that
are equal count as one.

For membership: three processes are an id's two starts, the first of which may have
stopped or not, and a witness that tells or is told of it, with a fanout of two. A heartbeat is sent when no other call is in flight; joins, kills and restarts
then overtake it, and their notices are not bounded. `stop` starts with all three listed, has one stop in the first
interval (which server, how, and between which steps is open), the code's timeout
of 10 turns, and runs past the deadline of 26 = 2 * 10 + 6 intervals; numbers go up to
31 and at most four calls are in flight. The theorems have no such bounds; they need a
timeout of at least 8, which is where the argument stops working, not the property:
the same instance keeps the promise with a timeout of 6 or 7. With 4 or 5
it fails: a server that removed a killed one on its notice is told of it again by a
heartbeat already sent, the removals drift apart by turns, and each brings the
dead server back to the other.

For the rest: `stabilize` has one key with two versions and one late write, as keys
do not meet and a third version adds nothing to an order. Three servers need two
rounds, the least number in which one round's result must reach the next; two crashes
leave one server whose calls all fail. The theorems hold of any network. `locks` has two goroutines
and a heartbeat thread on each of two servers, so any two handlers meet, at one
server or across the call between two; cycles of more threads are excluded by the
theorem. `calls` has two puts or gets and four processes: one to be lost with its
answer, one to retry at, one out of reach, one started again. `master` has three
processes, the two ends and a third that takes over an id; four processes on two
ids pass as well (851,991 states).

All runs but `code` and `sessions` have behaviours that stop, at a bound, in the
deadlock shown or with all processes ended; deadlock is not checked in those.

Runs that end in a violation, each a difference between the repository's words
and its code:

| run | what happens |
|---|---|
| `stale_write` | `server.go:131` adds `1 + ceil(difference)` with a difference that is zero or negative: a put whose version is far ahead sets the clock back and gets a version not above the client's; the client then reads, from another server, the value it overwrote. Monotonic Reads breaks the same way |
| `hang` | `server.go:248` does not count a port it cannot dial as a retry, and the master keeps the ports of crashed servers: later servers never come up. Fairness: the joining thread runs (`WF_vars(Joins)`) |
| `kill_hangs` | KillServer sends on the unbuffered `doneHeartbeat` with `mutex_server_map` held; the heartbeat thread, past its `select`, waits for that mutex: neither goes on, although every thread gets its turns (`FairSpec`), and the master, which waits for the answer, reads no further command |

More differences are part of the models and have no run of their own:

- `rpc.go:290` passes the version the client sent and not the one it overwrites: a
  client that knows an older version can have a newer entry replaced by one with a
  version below it, which the other servers refuse. The stores then differ though every
  write was received. For `AgreesUnlessBack` such a put is one that went back.
- `server.go:94` scales an id by its own length, so the servers `1` and `10` have one
  fraction: two puts can get one version, and each is ignored by the other server. The
  runs give fractions that differ, and `DistinctPids` in the theorems says so.
- A server killed and started again before its kill notice is handled is answered with an
  empty list (`rpc.go:26`) by a peer that then removes the id (`rpc.go:234`): neither
  lists the other, until a connection is created or a third server's gossip brings it.
  The steps are in `restart`; no property claims that all servers come to list each other.
- Nothing holds the rounds of stabilize together: a server in the middle that has made
  its n - 1 rounds before the data of one end arrives does not pass it on. `InStep`
  excludes it.
- PutKVServer unlocks `mutex_server_map` on the line after it locks it
  (`rpc.go:268-269`), and goes through `serverMap` while the heartbeat thread may change
  it. `RacesKnown` names it.
- A new connection of a client is added to those it has, where the comment at
  `client.go:37` says it replaces them; and one to an id that it lists changes
  nothing, though the id may have been started on another port.
- A killed server still handles calls, where `README.md:26` of the repository says it
  is stopped.
- joinServer of an id that still runs leaves two processes of that id, which the comment
  at `rpc.go:15` admits.

## Proofs

`SessionKV_proofs` proves, for every value of the constants that satisfies the
assumptions of `SessionKV` (finite `Servers`; types of the others):

- under `Spec`: `TypeCorrect`, `NothingFromThinAir`,
  `ReplicationNeverRegresses`, `TokenRegress`;
- under `Spec`, on what going back does: `OwnReadsHold`; `BackMeansBehind` (no fraction
  zero); `KeyWritesNotLost`; with fractions that differ (`DistinctPids`),
  `AgreementUnlessBack`;
- under `CaughtUpSpec`: `ReadYourWritesHolds`, `MonotonicReadsHold`, `WritesNotLost`;
- under `CaughtUpSpec` with `DistinctPids`: `ReplicasInvariant`,
  `QuiescentReplicasAgree`, `ImplementsSessions`.

The argument. `CodeInv` (types, NoThinAir, histories refer to accepted puts) is
inductive for the code as it is. So is `TokenInv`, which adds that the version a
client keeps is that of its last read and not below its last put's, and gives
`OwnReadsHold`: what the client was served had a version not below its put's, so if the
put came after it, the put went back. For the caught-up guarantees it is strengthened
to `SessionInv`:

- `IssuerHolds`: each put's version carries the fraction of the server that
  took it and a time no later than that server's clock, and the server still
  holds the key. With caught-up clocks the next put there gets a later time.
- `PastOlder`: what a put came after has a lower version. A caught-up put
  passes the stored version and the one the client sent, and those cover
  everything in its past.
- `SeenCovers`: the version a client keeps is that of its last read, and is not
  below its last put's.

Read Your Writes then follows: what the client reads has a version not below its
own put's, and everything in the past of that put is below it. For the replicas,
`KeyInv` says, for each key of which no put went back, that each put is covered at each
server it was addressed to or is in flight, and `VersionsInv` that versions identify
puts, which needs distinct fractions. Two servers that received every write of such a
key each hold one of them and cover the other's, so they hold the same version
and, by `VersionsInv`, the same entry: `AgreementUnlessBack`. Under `CaughtUpSpec` no
put goes back (`PastOlder`), so `WritesNotLost` and `QuiescentReplicasAgree` are what
this comes to there. `IInv` is the conjunction; TLC checks it as an invariant of
`sessions`.

`Lamport_proofs` proves `LoopIsMerge`, for lists of any length: after each prefix of
the list the loop's clock is the greatest of the candidates of that prefix. It is an
induction over the length. The library's induction theorems take an operator as a
parameter, which the provers cannot instantiate; so the induction is done on the *set*
of lengths for which it holds (`SetInduction`, from the well-foundedness of `<`).
`IncrementIsFixed` splits the ceiling by whether the server's fraction is above the
pivot's; what it needs of the fractions is that they are below one.

`Membership_proofs` proves, for any set of processes, any assignment of ids and any
fanout and bounds, with timeouts at any moment: `MembersInvariant` and
`ChangesAreNews`. `MembersInv` is inductive because it holds of calls in flight as
well as of lists: whatever is late or repeated was a number its owner had reached
under an address of that id. In a join, where a server puts the joiner in its list and the
joiner takes that list, one would list itself if their ids were equal; the error of
`rpc.go:29` keeps that out. The proof works entry by entry (`Good`), so that each action has
to account only for the entries it makes.

`MembershipTimed_proofs` proves `SuspectsTheorem`, `DetectionInvariant` and
`ForgottenTheorem` for any number of processes, calls, stops and turns, from these
hypotheses:

- `EveryoneIsTold`: the fanout covers all the others. With the code's fanout of 2
  that is a cluster of up to three servers. In a larger one a heartbeat goes to members
  chosen at random, and no bound on the turns holds for certain.
- a timeout of at least 4 turns for the suspicions, and at least 8 for
  the deadline, which is any number from 2 * timeout + 6 on. The code has 10.

A live server's number is known to all others, or on its way to them (`KnownTo`); so
its entries never age past a few turns, none is suspected, and no call says so. Once q
has stopped, entries of it age by the turns of their holder, and are suspected one
timeout and removed two timeouts after the last news of q. News is a number greater than
the holder's; the question is for how long there can be some, as servers that
have dropped q take it up again from those that have not. `NoLateNews` answers it:
whatever is known of q after four turns has reached everybody, or will by a call that
was sent in the first of these turns; so nothing is news after some six turns, whatever
the order. `Rumour` gives the rest: calls without suspicion were sent before their
sender suspected q, and those with it tell nobody to list q. By the time
the first server drops q for its silence (`Gone`, 2 * timeout - 1 turns), no
call without suspicion is left that could bring q back.

`Stabilize_proofs` proves, for any servers, keys, networks, stores and late writes:
`PartitionKept` (of `RoundsSpec`), `FloodIsComplete` (of `InStepSpec`),
`CommandImplementsRounds`, that `MasterStabilize` implements `InStepSpec`, and from
these `EndIsPropagated`; `ReportsHold` and `TypeCorrect`. The invariant of the
flood, `FloodInv`, says that in round r a server covers what servers at distance
below r had at the start; so does the copy it is sending; and so does each server it
has already sent to in the round, at one connection more. A round is entered only
when those before are through with theirs (`InStep`), which gives the next distance.
That n - 1 rounds are enough needs no argument on shortest paths: `Flooded` is about
paths of up to n - 1 connections, which are all that matter in a graph of n nodes. It
is proved with no server crashed (`up = Servers`), as stated in `FloodComplete`.

That the command ends is liveness, but for the fairness both halves of the argument are
proved. `CommandNeverStuck` (for at least one server): if all goroutines wait for
answers and all calls between servers are over, take a server in the lowest round: those
it hears from are through with that round, so it is not held up; in particular `InStep`, an
assumption, never blocks the rounds. `CommandAlwaysAdvances`: `Left(s)`, the steps that s
and its goroutine have left, is a natural number that no step raises and each step of
`Progress` lowers for somebody; a round is worth more than all the calls of the next.
The provers do not know `ENABLED`, so `CanProgress` writes the guards out; TLC confirms
on the instance that the two are the same.

`ServerLocks_proofs` proves `LocksHold`, `TypeCorrect`, `NoOtherRaces` and
`DeadlockIsKill` for any servers, goroutines and requests. A table (`Here`, `Away`)
gives the mutexes held at each instruction; each script is shown, instruction by
instruction, to be consistent with it, to access variables under their mutexes, and
to take mutexes in the order `black < map < store < self = log`, at its own server
or another's. `LocksInv` says that `holder` is what the table says of the threads that
run. A race outside the known ones would have two threads hold one mutex. In a
closed set of waiting threads, one that waits for a mutex of the highest rank has a
holder that waits for a higher one, or for the heartbeat thread, which is KillServer.

`ClientCalls_proofs` proves `TypeCorrect`, `DoneMeansStored`, `FailedMeansNoneUp` and
`StoredAgainMeansLost`, for any finite set of ids, from `CallsInv`: the loop has passed over stopped servers only
(`PassedInv`), an answer names the last stored put (`ReplyInv`), and every put stored
before is of an earlier command or at a server that has stopped (`StoredInv`).
`LoopAlwaysAdvances` and `LoopNeverStuck` are the two halves of `CommandsEnd`: the steps
left only get fewer, and a loop that waits at a server has an answer, an error, or a
connection that is open; one that is shut has lost its server (`ShutIsDown`).

`Master_proofs` proves `TypeCorrect`, `NoHalfBroken`, `PanicMeansLost` and
`AddressesAlwaysMatch` from `MasterInv`: a listed process is up, lost, or the one the
master waits for (`ListedInv`); pending calls go to listed processes, and of two each
is the other's counterpart (`PendingInv`); all connections are even but the one
whose second call is pending, whose first end is set as the second will be
(`EndsInv`).

Only model-checked: liveness under fairness (`WritesArrive`, `Converges`,
`EndsUnlessUndialled`, `WaitingEnds`, `CommandsEnd`), which TLAPS does not prove. What can
be said of each without fairness is a theorem: `WritesNotLost` and `QuiescentReplicasAgree`
for the first two, `DeadlockIsKill` for `WaitingEnds`, and the pairs above for the others.
Every invariant and action property of a passing run, and the refinements, are stated
by a theorem.

## Not modelled

- Rounding of float64: a fraction keeps its order until clocks near 2^52 divided
  by the id's scale.
- Membership changes and failures in `SessionKV`: there the member list is fixed
  and every server answers. Puts taken by a killed server, which reach nobody, are
  therefore not in it.
- Sequence numbers wrap at 2^63, which no run reaches; a connection closed by the
  peer is not dialled again to the same port, which no process reuses.
- Locks in other modules than `ServerLocks`, but for the atomicity of their steps and
  `Stabilizing`; what a data race on a Go map does (the runtime may end the process).
- Processes that end while `ServerLocks` runs, and changes of the member list during a
  stabilize.
- The state of a server's own connections (`rpcClient`); a stopped or killed server
  is one that does not answer.
- User values equal to `ERR_DEP` or `ERR_KEY`, which a client does not record.
- `writeLog`, which nothing reads; printing and logging.

## Plan

Written, in this order: `LamportTime`, `SessionKV`, `SessionStore`; `Membership` and
`MembershipTimed`; `StabilizeRounds` and `MasterStabilize`; `ServerLocks`; `ClientCalls`;
`Master`; each with its theorems where it has any.

Left: a composition of `Membership` with the data path, where the list a put is sent
to changes and a killed server still takes puts; the promise it would be checked
against is that of `Converges` for the servers that stay.
