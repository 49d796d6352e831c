------------------------------- MODULE Master -------------------------------
(***************************************************************************)
(* The master's commands (master.go): it starts servers and clients, each  *)
(* on a port of its own, keeps the ports by id, and calls the processes it *)
(* has listed, one command at a time.  Of a server, the blacklist is kept  *)
(* here, and of a client, the addresses in its serv_map: what a command    *)
(* about a connection sets at both ends, by one call after the other.      *)
(* put, get and the prints change nothing of this; stabilize is            *)
(* MasterStabilize.                                                        *)
(***************************************************************************)
EXTENDS Naturals, Sequences

CONSTANTS
  Procs,   \* the processes, and their addresses
  Ids,
  None

ASSUME NoneAssumption == None \notin Procs \cup Ids

VARIABLES
  serverNodeMap,   \* the address by id, None where absent
  clientNodeMap,
  id,              \* id[p]: the id that p was started under
  role,            \* role[p]: "server" or "client", "none" before p is started
  state,           \* state[p]: "unborn", "starting", "up" or "down"
  waiting,         \* the process that the command waits for, or None
  calls,           \* the calls that the command has yet to make
  panicked,        \* the master has ended with a nil pointer
  blacklist,       \* blacklist[p]: blacklistMap of server p
  serv_map,        \* serv_map[p][i]: the address in serv_map of client p
  lost             \* the processes that crashed or did not come up; history only

maps  == <<serverNodeMap, clientNodeMap>>
procs == <<id, role, state, lost>>
ends  == <<blacklist, serv_map>>
vars  == <<maps, procs, waiting, calls, panicked, ends>>

Call == [at : Procs, op : {"break", "create"}, Id : Ids, Address : Procs]

Init ==
  /\ serverNodeMap = [i \in Ids |-> None] /\ clientNodeMap = [i \in Ids |-> None]
  /\ id = [p \in Procs |-> None] /\ role = [p \in Procs |-> "none"]
  /\ state = [p \in Procs |-> "unborn"] /\ lost = {}
  /\ waiting = None /\ calls = << >> /\ panicked = FALSE
  /\ blacklist = [p \in Procs |-> {}]
  /\ serv_map = [p \in Procs |-> [i \in Ids |-> None]]

\* Between two commands.
Idle == waiting = None /\ calls = << >> /\ ~panicked

IsServer(i) == serverNodeMap[i] # None
IsClient(i) == clientNodeMap[i] # None

----------------------------------------------------------------------------
(* joinServer and joinClient *)

\* Plausible bug: the next command is read before the process answers.
NotAwaited(p, i, kind) ==
  /\ state[p] = "unborn"
  /\ id' = [id EXCEPT ![p] = i] /\ role' = [role EXCEPT ![p] = kind]
  /\ state' = [state EXCEPT ![p] = "starting"]
  /\ UNCHANGED <<waiting, lost>>

\* The process is started, and pinged until it answers.
Spawn(p, i, kind) ==
  /\ state[p] = "unborn"
  /\ id' = [id EXCEPT ![p] = i] /\ role' = [role EXCEPT ![p] = kind]
  /\ state' = [state EXCEPT ![p] = "starting"] /\ waiting' = p
  /\ UNCHANGED lost

\* Any id is taken, also that of a server or client there is.
JoinServer(i, p) ==
  /\ Idle /\ Spawn(p, i, "server")
  /\ serverNodeMap' = [serverNodeMap EXCEPT ![i] = p]
  /\ UNCHANGED <<clientNodeMap, calls, panicked, ends>>

JoinClient(i, s, p) ==
  /\ Idle /\ ~IsServer(i) /\ ~IsClient(s) /\ ~IsClient(i) /\ IsServer(s)
  /\ Spawn(p, i, "client")
  /\ clientNodeMap' = [clientNodeMap EXCEPT ![i] = p]
  /\ serv_map' = [serv_map EXCEPT ![p][s] = serverNodeMap[s]]
  /\ UNCHANGED <<serverNodeMap, calls, panicked, blacklist>>

ComesUp(p) ==
  /\ state[p] = "starting"
  /\ state' = [state EXCEPT ![p] = "up"]
  /\ UNCHANGED <<maps, id, role, lost, waiting, calls, panicked, ends>>

Pinged ==
  /\ waiting # None /\ state[waiting] = "up"
  /\ waiting' = None
  /\ UNCHANGED <<maps, procs, calls, panicked, ends>>

\* After the last retry the process is told to end, but stays in the map; until
\* the signal comes, which is not waited for, it may still come up.
GiveUp ==
  /\ waiting # None /\ state[waiting] # "up"
  /\ waiting' = None /\ lost' = lost \cup {waiting}
  /\ UNCHANGED <<maps, id, role, state, calls, panicked, ends>>

----------------------------------------------------------------------------
(* killServer *)

\* The process goes on answering calls.  Where it cannot be dialled the
\* command changes nothing.
KillServer(i) ==
  /\ Idle /\ IsServer(i) /\ state[serverNodeMap[i]] = "up"
  /\ serverNodeMap' = [serverNodeMap EXCEPT ![i] = None]
  /\ UNCHANGED <<clientNodeMap, procs, waiting, calls, panicked, ends>>

----------------------------------------------------------------------------
(* breakConnection and createConnection *)

CallTo(p, op, i, a) == [at |-> p, op |-> op, Id |-> i, Address |-> a]

\* Plausible bug: both calls to the first server.
OneEndTwice(op, i, j) ==
  << CallTo(serverNodeMap[i], op, j, serverNodeMap[j]),
     CallTo(serverNodeMap[i], op, j, serverNodeMap[j]) >>

\* The second call is made when the first has returned.
BothEnds(op, i, j) ==
  << CallTo(serverNodeMap[i], op, j, serverNodeMap[j]),
     CallTo(serverNodeMap[j], op, i, serverNodeMap[i]) >>

\* Plausible bug: the address of the client is sent in place of the server's.
OwnAddress(op, s, c) ==
  << CallTo(clientNodeMap[c], op, s, clientNodeMap[c]) >>

\* Plausible bug: the ids are not swapped where the client is named first.
Unswapped(op, s, c) ==
  << CallTo(clientNodeMap[c], op, c, serverNodeMap[c]) >>

ClientEnd(op, s, c) ==
  << CallTo(clientNodeMap[c], op, s, serverNodeMap[s]) >>

\* The ids may be given in either order.
ChangeConnection(op, i, j) ==
  /\ Idle
  /\ \/ IsServer(i) /\ IsServer(j) /\ ~(IsClient(i) /\ IsClient(j))
        /\ calls' = BothEnds(op, i, j)
     \/ IsServer(i) /\ ~IsServer(j) /\ IsClient(j) /\ ~IsClient(i)
        /\ calls' = ClientEnd(op, i, j)
     \/ IsClient(i) /\ ~IsServer(i) /\ IsServer(j) /\ ~IsClient(j)
        /\ calls' = ClientEnd(op, j, i)
  /\ UNCHANGED <<maps, procs, waiting, panicked, ends>>

\* The handlers: a server's are about an address, a client's about an id, and a
\* client keeps the entry that it has.
AtServer(c) ==
  /\ blacklist' = [blacklist EXCEPT ![c.at] =
                     IF c.op = "break" THEN @ \cup {c.Address} ELSE @ \ {c.Address}]
  /\ UNCHANGED serv_map

AtClient(c) ==
  /\ serv_map' = [serv_map EXCEPT ![c.at][c.Id] =
                    IF c.op = "break" THEN None ELSE IF @ = None THEN c.Address ELSE @]
  /\ UNCHANGED blacklist

\* The next call of the command.  That the process ends in the call, which is
\* then only reported, is the same as that it ends after it.
MakeCall ==
  /\ calls # << >> /\ ~panicked /\ state[Head(calls).at] = "up"
  /\ IF role[Head(calls).at] = "server" THEN AtServer(Head(calls)) ELSE AtClient(Head(calls))
  /\ calls' = Tail(calls)
  /\ UNCHANGED <<maps, procs, waiting, panicked>>

\* The result of a dial that failed is used all the same.
CallOnNil ==
  /\ calls # << >> /\ ~panicked /\ state[Head(calls).at] # "up"
  /\ panicked' = TRUE
  /\ UNCHANGED <<maps, procs, waiting, calls, ends>>

----------------------------------------------------------------------------
\* A process ends.
Crash(p) ==
  /\ state[p] \in {"starting", "up"}
  /\ state' = [state EXCEPT ![p] = "down"] /\ lost' = lost \cup {p}
  /\ UNCHANGED <<maps, id, role, waiting, calls, panicked, ends>>

Next ==
  \/ \E i \in Ids, p \in Procs :
       \/ JoinServer(i, p)
       \/ \E s \in Ids : JoinClient(i, s, p)
  \/ \E p \in Procs : ComesUp(p) \/ Crash(p)
  \/ Pinged \/ GiveUp
  \/ \E i \in Ids : KillServer(i)
  \/ \E op \in {"break", "create"}, i, j \in Ids : ChangeConnection(op, i, j)
  \/ MakeCall \/ CallOnNil

Spec == Init /\ [][Next]_vars

----------------------------------------------------------------------------
\* The types; among them, a call has an address that the master lists.
TypeOK ==
  /\ serverNodeMap \in [Ids -> Procs \cup {None}]
  /\ clientNodeMap \in [Ids -> Procs \cup {None}]
  /\ id \in [Procs -> Ids \cup {None}]
  /\ role \in [Procs -> {"none", "server", "client"}]
  /\ state \in [Procs -> {"unborn", "starting", "up", "down"}]
  /\ waiting \in Procs \cup {None} /\ calls \in Seq(Call) /\ panicked \in BOOLEAN
  /\ blacklist \in [Procs -> SUBSET Procs]
  /\ serv_map \in [Procs -> [Ids -> Procs \cup {None}]]
  /\ lost \in SUBSET Procs

Listed == {serverNodeMap[i] : i \in Ids} \cup {clientNodeMap[i] : i \in Ids}

\* When the master reads its next command, a connection between two servers that
\* it lists is broken at both ends or at none, however often ids were started
\* again and whichever processes have ended meanwhile.
BrokenAtBothEnds ==
  Idle => \A i, j \in Ids :
    IsServer(i) /\ IsServer(j) =>
      LET p == serverNodeMap[i] q == serverNodeMap[j] IN
        state[p] = "up" /\ state[q] = "up" => (p \in blacklist[q] <=> q \in blacklist[p])

\* The master goes down with a nil connection only after a process it still lists
\* was lost: killed servers and restarted ids never lead to it.
PanicsOnlyOnLost == panicked => Head(calls).at \in Listed \cap lost

\* Wherever the master's and the clients' maps have an address under an id, it is
\* that of a server, or of the client, that was started under the id.
AddressesMatch ==
  /\ \A i \in Ids :
       /\ IsServer(i) => id[serverNodeMap[i]] = i /\ role[serverNodeMap[i]] = "server"
       /\ IsClient(i) => id[clientNodeMap[i]] = i /\ role[clientNodeMap[i]] = "client"
  /\ \A p \in Procs, i \in Ids :
       serv_map[p][i] # None => id[serv_map[p][i]] = i /\ role[serv_map[p][i]] = "server"
=============================================================================
