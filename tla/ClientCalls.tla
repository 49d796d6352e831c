---------------------------- MODULE ClientCalls ----------------------------
(***************************************************************************)
(* A client's calls when servers fail (client/client.go): one put or get   *)
(* tries the servers of serv_map, in the order of a Go map, until one      *)
(* answers.  A server is a process: the master gives every process a port  *)
(* of its own (serverNextPort++), so its address is never used again, and  *)
(* one that is started again under the id of another is another process.   *)
(* One key: puts and gets of others change nothing of it.                  *)
(***************************************************************************)
EXTENDS Naturals, Sequences, FiniteSets

CONSTANTS
  Processes,     \* the server processes, and their addresses
  Ids,
  IdOf,          \* IdOf[p]: the id that p was started under
  MaxCommands,   \* bound: puts and gets in a behaviour
  None

ASSUME IdOfAssumption == IdOf \in [Processes -> Ids] /\ None \notin Ids
ASSUME BoundAssumption == MaxCommands \in Nat
ASSUME FiniteAssumption == IsFiniteSet(Ids)

VARIABLES
  up,              \* the processes that have not stopped
  serv_map,        \* serv_map[id]: the client's entry for id, None where absent
  keyVersionInfo,  \* the version the client keeps, 0 for none
  command,         \* the put or get that runs
  accepted,        \* the puts that servers stored; a put's version is its index
  outcome          \* "running" in a put or get, then "done" or "failed", or "none"

vars == <<up, serv_map, keyVersionInfo, command, accepted, outcome>>

Entry == [Address : Processes, rpcClient : {"nil", "open", "shut"}]

ASSUME NoneAssumption == None \notin Entry

Command ==
  [op : {"put", "get"}, n : 0 .. MaxCommands, todo : SUBSET Ids,
   at : Ids \cup {None}, replied : BOOLEAN, version : Nat]

StoredPut == [put : 1 .. MaxCommands, by : Processes]

NewServerInfo(p) == [Address |-> p, rpcClient |-> "nil"]

\* The loop of put or get number n.  todo: the ids that the loop has not come to; at: the
\* one whose answer it waits for; replied: whether that server has answered, and
\* with which version, 0 for ERR_KEY and ERR_DEP.
Loop(op, n, todo, at) ==
  [op |-> op, n |-> n, todo |-> todo, at |-> at, replied |-> FALSE, version |-> 0]

Idle == outcome # "running"

Listed == {id \in Ids : serv_map[id] # None}

\* The client is started with the id and the address of one server.
Init ==
  /\ up = Processes
  /\ \E p \in Processes :
       serv_map = [id \in Ids |-> IF id = IdOf[p] THEN NewServerInfo(p) ELSE None]
  /\ keyVersionInfo = 0
  /\ command = Loop("get", 0, {}, None)
  /\ accepted = << >>
  /\ outcome = "none"

----------------------------------------------------------------------------
(* The master's commands, one at a time.                                   *)

\* An id that is listed keeps its entry.
CreateConnection(p) ==
  /\ Idle /\ serv_map[IdOf[p]] = None
  /\ serv_map' = [serv_map EXCEPT ![IdOf[p]] = NewServerInfo(p)]
  /\ outcome' = "none"
  /\ UNCHANGED <<up, keyVersionInfo, command, accepted>>

BreakConnection(id) ==
  /\ Idle /\ id \in Listed
  /\ serv_map' = [serv_map EXCEPT ![id] = None]
  /\ outcome' = "none"
  /\ UNCHANGED <<up, keyVersionInfo, command, accepted>>

\* The master calls PutKVClient or GetKVClient, which begins its loop.
Begin(op) ==
  /\ Idle /\ command.n < MaxCommands
  /\ command' = Loop(op, command.n + 1, Listed, None)
  /\ outcome' = "running"
  /\ UNCHANGED <<up, serv_map, keyVersionInfo, accepted>>

----------------------------------------------------------------------------
(* The loop of PutKVClient and of GetKVClient.                             *)

\* getRPCConnection dials when there is no connection yet.
Connection(e) ==
  IF e.rpcClient = "nil" /\ e.Address \in up THEN "open" ELSE e.rpcClient

\* Plausible bug: an entry that cannot be dialled is tried again at once.
TryForEver(id) ==
  /\ ~Idle /\ command.at = None /\ id \in command.todo
  /\ LET c == Connection(serv_map[id]) IN
       /\ serv_map' = [serv_map EXCEPT ![id].rpcClient = c]
       /\ command' = Loop(command.op, command.n,
                          IF c = "nil" THEN command.todo ELSE command.todo \ {id},
                          IF c = "nil" THEN None ELSE id)
  /\ UNCHANGED <<up, keyVersionInfo, accepted, outcome>>

\* Plausible bug: only an answer takes a server off those to be tried.
TryAgain(id) ==
  /\ ~Idle /\ command.at = None /\ id \in command.todo
  /\ LET c == Connection(serv_map[id]) IN
       /\ serv_map' = [serv_map EXCEPT ![id].rpcClient = c]
       /\ command' = IF c = "nil"
            THEN Loop(command.op, command.n, command.todo \ {id}, None)
            ELSE Loop(command.op, command.n, command.todo, id)
  /\ UNCHANGED <<up, keyVersionInfo, accepted, outcome>>

\* Plausible bug: the connection is used without asking whether the dial failed.
TryUndialled(id) ==
  /\ ~Idle /\ command.at = None /\ id \in command.todo
  /\ serv_map' = [serv_map EXCEPT ![id].rpcClient = Connection(serv_map[id])]
  /\ command' = Loop(command.op, command.n, command.todo \ {id}, id)
  /\ UNCHANGED <<up, keyVersionInfo, accepted, outcome>>

Try(id) ==
  /\ ~Idle /\ command.at = None /\ id \in command.todo
  /\ LET c == Connection(serv_map[id]) IN
       /\ serv_map' = [serv_map EXCEPT ![id].rpcClient = c]
       /\ command' = Loop(command.op, command.n, command.todo \ {id},
                          IF c = "nil" THEN None ELSE id)
  /\ UNCHANGED <<up, keyVersionInfo, accepted, outcome>>

\* The server stores the put, or looks the key up: what it knows of it came
\* from any of the puts.
Serve ==
  /\ command.at # None /\ ~command.replied
  /\ serv_map[command.at].rpcClient = "open" /\ serv_map[command.at].Address \in up
  /\ \/ /\ command.op = "put"
        /\ accepted' = Append(accepted,
             [put |-> command.n, by |-> serv_map[command.at].Address])
        /\ command' = [command EXCEPT !.replied = TRUE, !.version = Len(accepted) + 1]
     \/ /\ command.op = "get"
        /\ \E v \in 0 .. Len(accepted) :
             command' = [command EXCEPT !.replied = TRUE, !.version = v]
        /\ UNCHANGED accepted
  /\ UNCHANGED <<up, serv_map, keyVersionInfo, outcome>>

\* Where the loop is left.
Return(o) ==
  /\ command' = Loop(command.op, command.n, {}, None)
  /\ outcome' = o

\* Plausible bug: after an answer the loop goes on to the next server.
GoesOn ==
  /\ command.replied
  /\ keyVersionInfo' = IF command.version # 0 THEN command.version ELSE keyVersionInfo
  /\ command' = Loop(command.op, command.n, command.todo, None)
  /\ UNCHANGED <<up, serv_map, accepted, outcome>>

\* The answer arrives, perhaps after the server has stopped.
Answered ==
  /\ command.replied
  /\ keyVersionInfo' = IF command.version # 0 THEN command.version ELSE keyVersionInfo
  /\ Return("done")
  /\ UNCHANGED <<up, serv_map, accepted>>

\* Plausible bug: the error that net/rpc returns, which the code below takes for
\* an answer.
RpcErrShutdown == "rpc.ErrShutdown"

\* The errors that a call of net/rpc returns, and the variable of main that it
\* is compared with, which is none of them.
Errors      == {"rpc.ErrShutdown", "lost"}
ErrShutdown == "main.ErrShutdown"

\* Plausible bug: the first server that cannot be reached ends the loop.
GiveUp(err) == Return("failed") /\ UNCHANGED <<serv_map, keyVersionInfo>>

\* "if err == ErrShutdown": the connection is closed, and the reply, which is
\* empty, is used; it names no key, so that the key's version stays.
AfterError(err) ==
  IF err = ErrShutdown
    THEN /\ serv_map' = [serv_map EXCEPT ![command.at].rpcClient = "nil"]
         /\ Return("done")
         /\ UNCHANGED keyVersionInfo
    ELSE /\ command' = Loop(command.op, command.n, command.todo, None)
         /\ serv_map' = [serv_map EXCEPT ![command.at].rpcClient = "shut"]
         /\ UNCHANGED <<keyVersionInfo, outcome>>

\* A call on a connection that is known to be shut fails at once; one whose
\* server stops meanwhile is lost, before or after the server has acted on it.
CallFails(err) ==
  /\ command.at # None /\ serv_map[command.at].Address \notin up
  /\ err = "rpc.ErrShutdown" <=> serv_map[command.at].rpcClient = "shut"
  /\ AfterError(err)
  /\ UNCHANGED <<up, accepted>>

\* "Unable to RPC dial server."
NoneLeft ==
  /\ ~Idle /\ command.at = None /\ command.todo = {}
  /\ Return("failed")
  /\ UNCHANGED <<up, serv_map, keyVersionInfo, accepted>>

----------------------------------------------------------------------------
Crash(p) ==
  /\ p \in up
  /\ up' = up \ {p}
  /\ UNCHANGED <<serv_map, keyVersionInfo, command, accepted, outcome>>

\* net/rpc sees that an idle connection was closed by the other end.
Notice(id) ==
  /\ id \in Listed /\ command.at # id
  /\ serv_map[id].rpcClient = "open" /\ serv_map[id].Address \notin up
  /\ serv_map' = [serv_map EXCEPT ![id].rpcClient = "shut"]
  /\ UNCHANGED <<up, keyVersionInfo, command, accepted, outcome>>

LoopStep ==
  \/ \E id \in Ids : Try(id)
  \/ Serve \/ Answered \/ NoneLeft
  \/ \E err \in Errors : CallFails(err)

Next ==
  \/ \E p \in Processes : CreateConnection(p) \/ Crash(p)
  \/ \E id \in Ids : BreakConnection(id) \/ Notice(id)
  \/ \E op \in {"put", "get"} : Begin(op)
  \/ LoopStep

Spec == Init /\ [][Next]_vars

\* A server that runs answers, and a broken connection is noticed.
FairSpec == Spec /\ WF_vars(LoopStep)

----------------------------------------------------------------------------
\* The types; the loop is about entries of the map, and a connection was dialled.
TypeOK ==
  /\ up \in SUBSET Processes
  /\ serv_map \in [Ids -> Entry \cup {None}]
  /\ \A id \in Listed : IdOf[serv_map[id].Address] = id
  /\ command \in Command
  /\ command.todo \subseteq Listed /\ command.at \in Listed \cup {None}
  /\ command.at # None => serv_map[command.at].rpcClient # "nil"
  /\ command.version \in 0 .. Len(accepted)
  /\ accepted \in Seq(StoredPut)
  /\ keyVersionInfo \in 0 .. Len(accepted)
  /\ outcome \in {"none", "running", "done", "failed"}

Stored == 1 .. Len(accepted)

\* A put that is reported done was stored by a server, and the client keeps the
\* version that server gave it.  This rests on the error of a shut connection
\* not being recognised: the code that would handle it takes it for an answer.
DoneIsStored ==
  outcome = "done" /\ command.op = "put" =>
    keyVersionInfo \in Stored /\ accepted[keyVersionInfo].put = command.n

\* A put or get is reported to have failed only when every server that the
\* client lists has stopped.
FailedReachesNone ==
  outcome = "failed" => \A id \in Listed : serv_map[id].Address \notin up

\* A put is stored by a second server only after the first one has stopped with
\* its answer lost.
StoredAgainOnlyIfLost ==
  \A i, j \in Stored :
    i < j /\ accepted[i].put = accepted[j].put => accepted[i].by \notin up

\* The steps that a put or get has left at most: a call, its answer or its error
\* for the server it is at and for each that it has not come to, and the end.
Left ==
  IF Idle THEN 0
  ELSE 1 + 3 * Cardinality(command.todo)
         + (IF command.at = None THEN 0 ELSE IF command.replied THEN 1 ELSE 2)

\* Each step of the loop brings its end nearer, and nothing that servers and
\* connections do meanwhile puts it off.
LoopAdvances ==
  [][~Idle => Left' <= Left /\ (Left' < Left \/ ~LoopStep)]_vars

\* Every put and get ends.
CommandsEnd == outcome = "running" ~> outcome # "running"
=============================================================================
