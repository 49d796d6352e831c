------------------------- MODULE ClientCalls_proofs -------------------------
(***************************************************************************)
(* Proofs about ClientCalls, for any processes, ids and number of calls:   *)
(* what a client's "done" and "failed" mean when servers stop at any time. *)
(***************************************************************************)
EXTENDS ClientCalls, FiniteSetTheorems, TLAPS

\* A loop that is not running is left, and only the server it asks replies.
LoopInv ==
  /\ ~Idle \/ (command.todo = {} /\ command.at = None)
  /\ command.replied => command.at # None

\* What the loop is past has stopped.
PassedInv ==
  outcome \in {"running", "failed"} =>
    \A id \in Listed \ (command.todo \cup {command.at}) : serv_map[id].Address \notin up

\* The puts and gets are numbered from 1.
RunningInv == ~Idle => command.n >= 1

\* A reply to a put is the version under which the server that is asked stored it.
ReplyInv ==
  command.replied /\ command.op = "put" =>
    /\ command.version = Len(accepted) /\ command.version \in Stored
    /\ accepted[command.version] =
         [put |-> command.n, by |-> serv_map[command.at].Address]

\* The puts stored are not later ones; whoever stored this one has stopped, but
\* for the server whose reply is under way.
StoredInv ==
  \A i \in Stored :
    /\ accepted[i].put <= command.n
    /\ ~Idle /\ accepted[i].put = command.n =>
         \/ accepted[i].by \notin up
         \/ command.replied /\ command.op = "put" /\ i = command.version

CallsInv ==
  /\ TypeOK /\ LoopInv /\ RunningInv /\ PassedInv /\ ReplyInv /\ StoredInv
  /\ DoneIsStored /\ StoredAgainOnlyIfLost

----------------------------------------------------------------------------
(* What the steps have in common.                                          *)

\* Changing an entry's connection changes no address and lists the same ids.
LEMMA ConnectionChanged ==
  ASSUME TypeOK, NEW id \in Listed, NEW c \in {"nil", "open", "shut"},
         serv_map' = [serv_map EXCEPT ![id].rpcClient = c]
  PROVE  /\ serv_map' \in [Ids -> Entry \cup {None}]
         /\ Listed' = Listed
         /\ \A j \in Listed : serv_map'[j].Address = serv_map[j].Address
         /\ \A j \in Ids \ {id} : serv_map'[j] = serv_map[j]
         /\ serv_map'[id].rpcClient = c
<1>1. serv_map[id] \in Entry /\ id \in Ids
  BY DEF TypeOK, Listed
<1>2. serv_map'[id] = [serv_map[id] EXCEPT !.rpcClient = c]
  BY <1>1 DEF TypeOK
<1>3. serv_map'[id] \in Entry /\ serv_map'[id].Address = serv_map[id].Address
      /\ serv_map'[id].rpcClient = c
  BY <1>1, <1>2 DEF Entry
<1>4. \A j \in Ids \ {id} : serv_map'[j] = serv_map[j]
  BY <1>1 DEF TypeOK
<1>5. serv_map' \in [Ids -> Entry \cup {None}]
  BY <1>3, <1>4 DEF TypeOK
<1>6. Listed' = Listed
  BY <1>1, <1>3, <1>4, NoneAssumption DEF Listed
<1> QED
  BY <1>3, <1>4, <1>5, <1>6

LEMMA StoredType ==
  ASSUME TypeOK, NEW i \in Stored
  PROVE  /\ accepted[i] \in StoredPut
         /\ accepted[i].put \in Nat /\ accepted[i].by \in Processes
<1>1. accepted \in Seq(StoredPut) /\ i \in 1 .. Len(accepted)
  BY DEF TypeOK, Stored
<1>2. accepted[i] \in StoredPut
  BY <1>1
<1> QED
  BY <1>2, BoundAssumption DEF StoredPut

LEMMA CommandType ==
  ASSUME TypeOK
  PROVE  /\ command.op \in {"put", "get"} /\ command.n \in 0 .. MaxCommands
         /\ command.todo \in SUBSET Ids /\ command.at \in Ids \cup {None}
         /\ command.replied \in BOOLEAN /\ command.version \in Nat
         /\ Len(accepted) \in Nat
BY DEF TypeOK, Command

\* What a reply changes of the loop.
LEMMA ReplyType ==
  ASSUME TypeOK, NEW v \in Nat,
         command' = [command EXCEPT !.replied = TRUE, !.version = v]
  PROVE  /\ command' \in Command
         /\ command'.todo = command.todo /\ command'.at = command.at /\ command'.replied
         /\ command'.version = v /\ command'.n = command.n /\ command'.op = command.op
BY DEF TypeOK, Command

\* A loop as it is begun, and as it goes on.
LEMMA LoopType ==
  ASSUME NEW op \in {"put", "get"}, NEW n \in 0 .. MaxCommands,
         NEW todo \in SUBSET Ids, NEW at \in Ids \cup {None}
  PROVE  Loop(op, n, todo, at) \in
           Command
BY DEF Loop, Command

----------------------------------------------------------------------------
LEMMA InitHolds == Init => CallsInv
<1> SUFFICES ASSUME Init PROVE CallsInv
  OBVIOUS
<1> USE IdOfAssumption, BoundAssumption, NoneAssumption
<1>1. PICK p \in Processes :
        serv_map = [id \in Ids |-> IF id = IdOf[p] THEN NewServerInfo(p) ELSE None]
  BY DEF Init
<1>2. NewServerInfo(p) \in Entry /\ NewServerInfo(p).Address = p
  BY DEF NewServerInfo, Entry
<1>3. \A id \in Ids : serv_map[id] = IF id = IdOf[p] THEN NewServerInfo(p) ELSE None
  BY <1>1
<1>4. serv_map \in [Ids -> Entry \cup {None}]
  BY <1>1, <1>2
<1>5. \A id \in Listed : IdOf[serv_map[id].Address] = id
  BY <1>2, <1>3 DEF Listed
<1>6. command = Loop("get", 0, {}, None) /\ up = Processes /\ keyVersionInfo = 0
      /\ accepted = << >> /\ outcome = "none"
  BY DEF Init
<1>7. TypeOK
  BY <1>4, <1>5, <1>6 DEF TypeOK, Loop, Command
<1> QED
  BY <1>6, <1>7 DEF CallsInv, LoopInv, RunningInv, PassedInv, ReplyInv, StoredInv,
     DoneIsStored, StoredAgainOnlyIfLost, Stored, Loop, Idle

\* The master changes the map between two commands.
LEMMA CreateConnectionKeeps ==
  ASSUME CallsInv, NEW p \in Processes, CreateConnection(p)
  PROVE  CallsInv'
<1> USE IdOfAssumption, NoneAssumption DEF CreateConnection
<1> DEFINE id == IdOf[p]
<1>1. id \in Ids /\ serv_map \in [Ids -> Entry \cup {None}]
  BY DEF CallsInv, TypeOK
<1>2. NewServerInfo(p) \in Entry /\ NewServerInfo(p).Address = p
  BY DEF NewServerInfo, Entry
<1>3. serv_map' \in [Ids -> Entry \cup {None}] /\ serv_map'[id] = NewServerInfo(p)
      /\ \A j \in Ids \ {id} : serv_map'[j] = serv_map[j]
  BY <1>1, <1>2
<1>4. \A j \in Listed' : IdOf[serv_map'[j].Address] = j
  BY <1>2, <1>3 DEF Listed, CallsInv, TypeOK
<1>5. command.todo = {} /\ command.at = None /\ ~command.replied
  BY DEF CallsInv, LoopInv
<1>6. TypeOK'
  BY <1>3, <1>4, <1>5 DEF CallsInv, TypeOK
<1> QED
  BY <1>5, <1>6 DEF CallsInv, LoopInv, RunningInv, PassedInv, ReplyInv, StoredInv,
     DoneIsStored, StoredAgainOnlyIfLost, Stored, Idle

LEMMA BreakConnectionKeeps ==
  ASSUME CallsInv, NEW id \in Ids, BreakConnection(id)
  PROVE  CallsInv'
<1> USE DEF BreakConnection
<1>1. serv_map' \in [Ids -> Entry \cup {None}] /\ serv_map'[id] = None
      /\ \A j \in Ids \ {id} : serv_map'[j] = serv_map[j]
  BY DEF CallsInv, TypeOK
<1>2. \A j \in Listed' : IdOf[serv_map'[j].Address] = j
  BY <1>1 DEF Listed, CallsInv, TypeOK
<1>3. command.todo = {} /\ command.at = None /\ ~command.replied
  BY DEF CallsInv, LoopInv
<1>4. TypeOK'
  BY <1>1, <1>2, <1>3 DEF CallsInv, TypeOK
<1> QED
  BY <1>3, <1>4 DEF CallsInv, LoopInv, RunningInv, PassedInv, ReplyInv, StoredInv,
     DoneIsStored, StoredAgainOnlyIfLost, Stored, Idle

\* The put or get is new, and every id that is listed is before it.
LEMMA BeginKeeps ==
  ASSUME CallsInv, NEW op \in {"put", "get"}, Begin(op)
  PROVE  CallsInv'
<1> USE BoundAssumption DEF Begin
<1>1. command.n \in 0 .. MaxCommands /\ Listed \in SUBSET Ids
  BY CommandType DEF CallsInv, Listed
<1>2. command.n + 1 \in 0 .. MaxCommands
  BY <1>1
<1>3. command' \in Command
  BY <1>1, <1>2, LoopType
<1>4. command'.todo = Listed /\ command'.at = None /\ command'.replied = FALSE
      /\ command'.version = 0 /\ command'.n = command.n + 1
  BY DEF Loop
<1>5. Listed' = Listed
  BY DEF Listed
<1>6. TypeOK'
  BY <1>3, <1>4, <1>5 DEF CallsInv, TypeOK
<1>7. LoopInv' /\ RunningInv' /\ PassedInv' /\ ReplyInv' /\ DoneIsStored' /\ StoredAgainOnlyIfLost'
  BY <1>1, <1>4, <1>5 DEF CallsInv, LoopInv, RunningInv, PassedInv, ReplyInv, DoneIsStored,
     StoredAgainOnlyIfLost, Stored, Idle
<1>8. \A i \in Stored : accepted[i].put \in Nat /\ accepted[i].put <= command.n
  BY StoredType DEF CallsInv, StoredInv
<1>9. StoredInv'
  BY <1>1, <1>4, <1>8 DEF StoredInv, Stored
<1> QED
  BY <1>6, <1>7, <1>9 DEF CallsInv

----------------------------------------------------------------------------
(* The loop.                                                               *)

\* An id that is passed over could not be dialled: its server has stopped.
LEMMA TryKeeps ==
  ASSUME CallsInv, NEW id \in Ids, Try(id)
  PROVE  CallsInv'
<1> DEFINE c == Connection(serv_map[id])
<1>0. /\ ~Idle /\ command.at = None /\ id \in command.todo
      /\ serv_map' = [serv_map EXCEPT ![id].rpcClient = c]
      /\ command' = Loop(command.op, command.n, command.todo \ {id},
                         IF c = "nil" THEN None ELSE id)
      /\ up' = up /\ keyVersionInfo' = keyVersionInfo /\ accepted' = accepted
      /\ outcome' = outcome
  BY DEF Try
<1> HIDE DEF c
<1>1. id \in Listed /\ serv_map[id] \in Entry /\ ~Idle /\ command.at = None
      /\ id \in command.todo
  BY <1>0 DEF CallsInv, TypeOK, Listed
<1>2. c \in {"nil", "open", "shut"} /\ (c = "nil" => serv_map[id].Address \notin up)
  BY <1>1 DEF c, Connection, Entry
<1>3. /\ serv_map' \in [Ids -> Entry \cup {None}] /\ Listed' = Listed
      /\ \A j \in Listed : serv_map'[j].Address = serv_map[j].Address
      /\ serv_map'[id].rpcClient = c
  BY <1>0, <1>1, <1>2, ConnectionChanged DEF CallsInv
<1>5. command' \in Command
  BY <1>0, <1>1, CommandType, LoopType DEF CallsInv
<1>6. /\ command'.todo = command.todo \ {id} /\ ~command'.replied /\ command'.version = 0
      /\ command'.n = command.n /\ command'.op = command.op
      /\ command'.at = IF c = "nil" THEN None ELSE id
  BY <1>0 DEF Loop
<1>7. TypeOK'
  <2>1. command'.todo \subseteq Listed' /\ command'.at \in Listed' \cup {None}
    BY <1>1, <1>3, <1>6 DEF CallsInv, TypeOK
  <2>2. command'.at # None => serv_map'[command'.at].rpcClient # "nil"
    BY IdOfAssumption, <1>3, <1>6
  <2>3. \A j \in Listed' : IdOf[serv_map'[j].Address] = j
    BY <1>3 DEF CallsInv, TypeOK
  <2> QED
    <3>1. command'.version \in 0 .. Len(accepted')
      BY <1>0, <1>6, CommandType DEF CallsInv
    <3> QED
      BY <1>0, <1>3, <1>5, <2>1, <2>2, <2>3, <3>1 DEF CallsInv, TypeOK
<1>8. LoopInv' /\ RunningInv' /\ ReplyInv' /\ DoneIsStored' /\ StoredAgainOnlyIfLost'
  BY <1>0, <1>1, <1>6 DEF CallsInv, LoopInv, RunningInv, ReplyInv, DoneIsStored, StoredAgainOnlyIfLost,
     Stored, Idle
<1>9. PassedInv'
  <2> SUFFICES ASSUME NEW j \in Listed \ (command'.todo \cup {command'.at})
               PROVE  serv_map[j].Address \notin up
    BY <1>0, <1>3 DEF PassedInv
  <2>1. CASE j = id
    BY <1>2, <1>6, <2>1
  <2>2. CASE j # id
    <3>1. j \notin command.todo /\ j # command.at
      BY <1>0, <1>6, <2>2, IdOfAssumption DEF Listed
    <3> QED
      BY <1>0, <3>1 DEF CallsInv, PassedInv, Idle
  <2> QED
    BY <2>1, <2>2
<1>10. StoredInv'
  BY <1>0, <1>1, <1>6, StoredType DEF CallsInv, StoredInv, LoopInv, Stored, Idle
<1> QED
  BY <1>7, <1>8, <1>9, <1>10 DEF CallsInv

\* A put that is stored here was stored before only by servers that have stopped.
LEMMA ServeKeeps ==
  ASSUME CallsInv, Serve
  PROVE  CallsInv'
<1> DEFINE at == command.at
           new == [put |-> command.n, by |-> serv_map[at].Address]
<1>0. /\ at # None /\ ~command.replied
      /\ up' = up /\ serv_map' = serv_map /\ keyVersionInfo' = keyVersionInfo
      /\ outcome' = outcome
      /\ command.op \in {"put", "get"}
  BY DEF Serve
<1>1. at \in Listed /\ at \in Ids /\ serv_map[at] \in Entry /\ ~Idle /\ ~command.replied
  BY <1>0 DEF CallsInv, TypeOK, LoopInv, Listed
<1>2. serv_map[at].Address \in Processes /\ Listed' = Listed
  BY <1>0, <1>1 DEF Entry, Listed
<1>3. command.n \in 0 .. MaxCommands /\ Len(accepted) \in Nat
  BY CommandType DEF CallsInv
<1>4. ASSUME command'.todo = command.todo, command'.at = at PROVE PassedInv'
  BY <1>0, <1>2, <1>4 DEF PassedInv, CallsInv
<1>5. CASE command.op = "put"
  <2>1. accepted' = Append(accepted, new)
        /\ command' = [command EXCEPT !.replied = TRUE, !.version = Len(accepted) + 1]
    BY <1>5 DEF Serve
  <2>2. /\ command'.todo = command.todo /\ command'.at = at /\ command'.replied
        /\ command'.version = Len(accepted) + 1
        /\ command'.n = command.n /\ command'.op = "put"
        /\ command' \in Command
    <3>1. TypeOK /\ Len(accepted) + 1 \in Nat
      BY <1>3 DEF CallsInv
    <3> QED
      BY <2>1, <3>1, <1>5, ReplyType
  <2>3. command.n >= 1
    BY <1>1, <1>3 DEF CallsInv, RunningInv
  <2>4. new \in StoredPut
    BY <1>2, <1>3, <2>3 DEF StoredPut
  <2>5. /\ accepted' \in Seq(StoredPut)
        /\ Len(accepted') = Len(accepted) + 1
        /\ \A i \in Stored : accepted'[i] = accepted[i]
        /\ accepted'[Len(accepted) + 1] = new
    <3> HIDE DEF new
    <3>1. accepted \in Seq(StoredPut)
      BY DEF CallsInv, TypeOK
    <3> QED
      BY <2>1, <2>4, <3>1 DEF Stored
  <2>6. Stored' = Stored \cup {Len(accepted) + 1}
    BY <1>3, <2>5 DEF Stored
  <2>7. TypeOK'
    BY <1>0, <1>1, <1>2, <1>3, <2>2, <2>5 DEF CallsInv, TypeOK
  <2>8. LoopInv' /\ DoneIsStored'
    BY <1>0, <1>1, <2>2 DEF CallsInv, LoopInv, DoneIsStored, Idle
  <2>9. ReplyInv'
    BY <1>0, <1>1, <1>3, <2>2, <2>5, <2>6 DEF ReplyInv
  <2>10. \A i \in Stored : accepted[i].put = command.n => accepted[i].by \notin up
    BY <1>1 DEF CallsInv, StoredInv
  <2>11. StoredInv'
    BY <1>0, <1>1, <1>3, <2>2, <2>5, <2>6, <2>10, StoredType DEF CallsInv, StoredInv, Idle, Stored
  <2>12. StoredAgainOnlyIfLost'
    BY <1>0, <1>3, <2>5, <2>6, <2>10 DEF CallsInv, StoredAgainOnlyIfLost, Stored
  <2> QED
    BY <1>0, <1>4, <2>2, <2>7, <2>8, <2>9, <2>11, <2>12 DEF CallsInv, RunningInv, Idle
<1>6. CASE command.op = "get"
  <2>1. PICK v \in 0 .. Len(accepted) :
          command' = [command EXCEPT !.replied = TRUE, !.version = v]
    BY <1>6 DEF Serve
  <2>2. /\ command'.todo = command.todo /\ command'.at = at /\ command'.replied
        /\ command'.version = v /\ command'.n = command.n /\ command'.op = "get"
        /\ command' \in Command
    <3>1. TypeOK /\ v \in Nat
      BY <1>3 DEF CallsInv
    <3> QED
      BY <2>1, <3>1, <1>6, ReplyType
  <2>3. accepted' = accepted
    BY <1>6 DEF Serve
  <2>4. TypeOK'
    BY <1>0, <1>1, <1>2, <1>3, <2>2, <2>3 DEF CallsInv, TypeOK
  <2> QED
    BY <1>0, <1>1, <1>4, <2>2, <2>3, <2>4 DEF CallsInv, LoopInv, ReplyInv, StoredInv, DoneIsStored,
       StoredAgainOnlyIfLost, Stored, Idle, RunningInv
<1> QED
  BY <1>0, <1>5, <1>6

\* The version that comes with the answer to a put is the one it was stored under.
LEMMA AnsweredKeeps ==
  ASSUME CallsInv, Answered
  PROVE  CallsInv'
<1> USE DEF Answered, Return
<1>1. /\ command'.op = command.op /\ command'.n = command.n /\ command'.todo = {}
      /\ command'.at = None /\ ~command'.replied /\ command'.version = 0
  BY DEF Loop
<1>2. command' \in Command
  BY LoopType, CommandType DEF CallsInv
<1>3. Listed' = Listed /\ outcome' = "done"
  BY DEF Listed
<1>4. TypeOK'
  BY <1>1, <1>2, <1>3 DEF CallsInv, TypeOK
<1>5. DoneIsStored'
  <2> SUFFICES ASSUME command.op = "put"
               PROVE  keyVersionInfo' \in Stored /\ accepted[keyVersionInfo'].put = command.n
    BY <1>1 DEF DoneIsStored, Stored
  <2>1. command.version \in Stored /\ accepted[command.version].put = command.n
    BY DEF CallsInv, ReplyInv
  <2>2. command.version # 0
    BY <2>1 DEF Stored
  <2> QED
    BY <2>1, <2>2
<1> QED
  BY <1>1, <1>3, <1>4, <1>5 DEF CallsInv, LoopInv, PassedInv, ReplyInv, StoredInv,
     StoredAgainOnlyIfLost, Stored, Idle, RunningInv

\* No error is the client's own, so the entry is left as shut and passed over; the
\* server has stopped, whoever answered.
LEMMA CallFailsKeeps ==
  ASSUME CallsInv, NEW err \in Errors, CallFails(err)
  PROVE  CallsInv'
<1> DEFINE at == command.at
<1>1. err # ErrShutdown
  BY DEF Errors, ErrShutdown
<1>2. /\ at # None /\ serv_map[at].Address \notin up
      /\ command' = Loop(command.op, command.n, command.todo, None)
      /\ serv_map' = [serv_map EXCEPT ![at].rpcClient = "shut"]
      /\ up' = up /\ accepted' = accepted /\ keyVersionInfo' = keyVersionInfo
      /\ outcome' = outcome
  BY <1>1 DEF CallFails, AfterError
<1>3. at \in Listed /\ ~Idle
  BY <1>2 DEF CallsInv, TypeOK, LoopInv
<1>4. /\ serv_map' \in [Ids -> Entry \cup {None}] /\ Listed' = Listed
      /\ \A j \in Listed : serv_map'[j].Address = serv_map[j].Address
  BY <1>2, <1>3, ConnectionChanged DEF CallsInv
<1>5. command' \in Command
  BY <1>2, CommandType, LoopType DEF CallsInv
<1>6. /\ command'.op = command.op /\ command'.n = command.n
      /\ command'.todo = command.todo /\ command'.at = None
      /\ ~command'.replied /\ command'.version = 0
  BY <1>2 DEF Loop
<1>7. TypeOK'
  <2>1. \A j \in Listed' : IdOf[serv_map'[j].Address] = j
    BY <1>4 DEF CallsInv, TypeOK
  <2>2. command'.version \in 0 .. Len(accepted')
    BY <1>2, <1>6, CommandType DEF CallsInv
  <2> QED
    BY <1>2, <1>4, <1>5, <1>6, <2>1, <2>2 DEF CallsInv, TypeOK
<1>8. LoopInv' /\ RunningInv' /\ ReplyInv' /\ DoneIsStored' /\ StoredAgainOnlyIfLost'
  BY <1>2, <1>3, <1>6 DEF CallsInv, LoopInv, RunningInv, ReplyInv, DoneIsStored,
     StoredAgainOnlyIfLost, Stored, Idle
<1>9. PassedInv'
  <2> SUFFICES ASSUME NEW j \in Listed \ command.todo
               PROVE  serv_map[j].Address \notin up
    BY <1>2, <1>4, <1>6 DEF PassedInv
  <2> QED
    BY <1>2, <1>3 DEF CallsInv, PassedInv, Idle
<1>10. StoredInv'
  <2> SUFFICES ASSUME NEW i \in Stored, accepted[i].put = command.n
               PROVE  accepted[i].by \notin up
    BY <1>2, <1>6 DEF CallsInv, StoredInv, Stored
  <2>1. CASE command.replied /\ command.op = "put" /\ i = command.version
    BY <1>2, <2>1 DEF CallsInv, ReplyInv
  <2> QED
    BY <1>3, <2>1 DEF CallsInv, StoredInv
<1> QED
  BY <1>7, <1>8, <1>9, <1>10 DEF CallsInv

LEMMA NoneLeftKeeps ==
  ASSUME CallsInv, NoneLeft
  PROVE  CallsInv'
<1>1. /\ command' = Loop(command.op, command.n, {}, None) /\ outcome' = "failed"
      /\ ~Idle /\ command.at = None /\ command.todo = {}
      /\ up' = up /\ serv_map' = serv_map /\ accepted' = accepted
      /\ keyVersionInfo' = keyVersionInfo
  BY DEF NoneLeft, Return
<1>2. /\ command'.op = command.op /\ command'.n = command.n /\ command'.todo = {}
      /\ command'.at = None /\ ~command'.replied /\ command'.version = 0
  BY <1>1 DEF Loop
<1>3. command' \in Command
  BY <1>1, CommandType, LoopType DEF CallsInv
<1>4. TypeOK'
  <2>1. command'.version \in 0 .. Len(accepted')
    BY <1>1, <1>2, CommandType DEF CallsInv
  <2> QED
    BY <1>1, <1>2, <1>3, <2>1 DEF CallsInv, TypeOK, Listed
<1>5. PassedInv'
  BY <1>1, <1>2 DEF CallsInv, PassedInv, Idle, Listed
<1> QED
  BY <1>1, <1>2, <1>4, <1>5 DEF CallsInv, LoopInv, RunningInv, ReplyInv, StoredInv,
     DoneIsStored, StoredAgainOnlyIfLost, Stored, Idle

LEMMA CrashKeeps ==
  ASSUME CallsInv, NEW p \in Processes, Crash(p)
  PROVE  CallsInv'
<1> USE DEF Crash
<1>1. Listed' = Listed
  BY DEF Listed
<1>2. TypeOK'
  BY <1>1 DEF CallsInv, TypeOK
<1> QED
  BY <1>1, <1>2 DEF CallsInv, LoopInv, RunningInv, PassedInv, ReplyInv, StoredInv,
     DoneIsStored, StoredAgainOnlyIfLost, Stored, Idle

LEMMA NoticeKeeps ==
  ASSUME CallsInv, NEW id \in Ids, Notice(id)
  PROVE  CallsInv'
<1>1. /\ id \in Listed /\ command.at # id
      /\ serv_map' = [serv_map EXCEPT ![id].rpcClient = "shut"]
      /\ up' = up /\ accepted' = accepted /\ keyVersionInfo' = keyVersionInfo
      /\ command' = command /\ outcome' = outcome
  BY DEF Notice
<1>2. /\ serv_map' \in [Ids -> Entry \cup {None}] /\ Listed' = Listed
      /\ \A j \in Listed : serv_map'[j].Address = serv_map[j].Address
      /\ \A j \in Ids \ {id} : serv_map'[j] = serv_map[j]
  BY <1>1, ConnectionChanged DEF CallsInv
<1>3. command.at # None => serv_map'[command.at] = serv_map[command.at]
  BY <1>1, <1>2, CommandType DEF CallsInv
<1>4. TypeOK'
  <2>1. \A j \in Listed' : IdOf[serv_map'[j].Address] = j
    BY <1>2 DEF CallsInv, TypeOK
  <2> QED
    BY <1>1, <1>2, <1>3, <2>1 DEF CallsInv, TypeOK
<1>5. PassedInv'
  BY <1>1, <1>2 DEF CallsInv, PassedInv
<1>6. ReplyInv'
  BY <1>1, <1>3 DEF CallsInv, LoopInv, ReplyInv, Stored
<1> QED
  BY <1>1, <1>4, <1>5, <1>6 DEF CallsInv, LoopInv, RunningInv, StoredInv, DoneIsStored,
     StoredAgainOnlyIfLost, Stored, Idle

LEMMA UnchangedKeeps ==
  ASSUME CallsInv, UNCHANGED vars
  PROVE  CallsInv'
BY DEF vars, CallsInv, TypeOK, Listed, LoopInv, RunningInv, PassedInv, ReplyInv, StoredInv,
   DoneIsStored, StoredAgainOnlyIfLost, Stored, Idle

----------------------------------------------------------------------------
\* The inductive invariant holds: of PutKVClient and GetKVClient (client.go:62-140)
\* with servers that stop before, between and in their calls.
THEOREM CallsHold == Spec => []CallsInv
<1>1. CallsInv /\ [Next]_vars => CallsInv'
  <2> SUFFICES ASSUME CallsInv, [Next]_vars PROVE CallsInv'
    OBVIOUS
  <2>1. ASSUME NEW p \in Processes, CreateConnection(p) \/ Crash(p) PROVE CallsInv'
    BY <2>1, CreateConnectionKeeps, CrashKeeps
  <2>2. ASSUME NEW id \in Ids, BreakConnection(id) \/ Notice(id) PROVE CallsInv'
    BY <2>2, BreakConnectionKeeps, NoticeKeeps
  <2>3. ASSUME NEW op \in {"put", "get"}, Begin(op) PROVE CallsInv'
    BY <2>3, BeginKeeps
  <2>4. CASE LoopStep
    BY <2>4, TryKeeps, ServeKeeps, AnsweredKeeps, NoneLeftKeeps, CallFailsKeeps DEF LoopStep
  <2> QED
    BY <2>1, <2>2, <2>3, <2>4, UnchangedKeeps DEF Next
<1> QED
  BY <1>1, InitHolds, PTL DEF Spec

\* The types: among them, the connection a call is made on was dialled.
THEOREM TypeCorrect == Spec => []TypeOK
<1>1. CallsInv => TypeOK
  BY DEF CallsInv
<1> QED
  BY <1>1, CallsHold, PTL

\* Done means stored, for any number of servers: client.go:85 never takes the
\* empty reply of a shut connection for an answer.
THEOREM DoneMeansStored == Spec => []DoneIsStored
<1>1. CallsInv => DoneIsStored
  BY DEF CallsInv
<1> QED
  BY <1>1, CallsHold, PTL

\* Failed means that no server of the client's list is left (client.go:97).
THEOREM FailedMeansNoneUp == Spec => []FailedReachesNone
<1>1. CallsInv => FailedReachesNone
  <2> SUFFICES ASSUME CallsInv, outcome = "failed", NEW id \in Listed
               PROVE  serv_map[id].Address \notin up
    BY DEF FailedReachesNone
  <2>1. command.todo = {} /\ command.at = None /\ id # None
    BY IdOfAssumption DEF CallsInv, LoopInv, Idle, Listed
  <2> QED
    BY <2>1 DEF CallsInv, PassedInv
<1> QED
  BY <1>1, CallsHold, PTL

\* The only way to two copies of a put is an answer lost in a crash (client.go:90).
THEOREM StoredAgainMeansLost == Spec => []StoredAgainOnlyIfLost
<1>1. CallsInv => StoredAgainOnlyIfLost
  BY DEF CallsInv
<1> QED
  BY <1>1, CallsHold, PTL

----------------------------------------------------------------------------
(* That every put and get ends, but for the fairness of the scheduler.     *)

\* One server fewer to try.
LEMMA TodoShrinks ==
  ASSUME TypeOK, NEW id \in command.todo
  PROVE  /\ Cardinality(command.todo) \in Nat
         /\ Cardinality(command.todo \ {id}) = Cardinality(command.todo) - 1
         /\ Cardinality(command.todo \ {id}) \in Nat
<1>1. IsFiniteSet(command.todo)
  BY FiniteAssumption, FS_Subset, CommandType
<1>2. IsFiniteSet(command.todo \ {id})
  BY <1>1, FS_Subset
<1> QED
  BY <1>1, <1>2, FS_RemoveElement, FS_CardinalityType

LEMMA LeftType ==
  ASSUME TypeOK, ~Idle
  PROVE  /\ Cardinality(command.todo) \in Nat
         /\ Left = 1 + 3 * Cardinality(command.todo)
              + (IF command.at = None THEN 0 ELSE IF command.replied THEN 1 ELSE 2)
<1>1. IsFiniteSet(command.todo)
  BY FiniteAssumption, FS_Subset, CommandType
<1> QED
  BY <1>1, FS_CardinalityType DEF Left

\* A step of the loop that leaves it, or goes on with the next server.
LEMMA LoopStepLowers ==
  ASSUME CallsInv, ~Idle, LoopStep
  PROVE  Left' \in Nat /\ Left' < Left
<1> USE DEF CallsInv
<1>1. /\ Cardinality(command.todo) \in Nat
      /\ Left = 1 + 3 * Cardinality(command.todo)
           + (IF command.at = None THEN 0 ELSE IF command.replied THEN 1 ELSE 2)
  BY LeftType
<1>2. ASSUME NEW id \in Ids, Try(id) PROVE Left' \in Nat /\ Left' < Left
  <2> DEFINE at == IF Connection(serv_map[id]) = "nil" THEN None ELSE id
  <2>1. /\ command.at = None /\ id \in command.todo /\ outcome' = outcome
        /\ command' = Loop(command.op, command.n, command.todo \ {id}, at)
    BY <1>2 DEF Try
  <2>2. /\ command'.todo = command.todo \ {id} /\ ~command'.replied
        /\ command'.at = at
    BY <2>1 DEF Loop
  <2>3. /\ Cardinality(command'.todo) = Cardinality(command.todo) - 1
        /\ Cardinality(command'.todo) \in Nat
    BY <2>1, <2>2, TodoShrinks
  <2>4. Left' \in Nat /\ Left' <= 1 + 3 * Cardinality(command'.todo) + 2
    BY <1>1, <2>1, <2>2, <2>3 DEF Left, Idle
  <2> QED
    BY <1>1, <2>1, <2>3, <2>4
<1>3. CASE Serve
  <2>1. /\ command.at # None /\ ~command.replied /\ outcome' = outcome
        /\ command.op \in {"put", "get"}
    BY <1>3 DEF Serve
  <2>2. /\ command'.todo = command.todo /\ command'.at = command.at
        /\ command'.replied
    <3>1. Len(accepted) + 1 \in Nat /\ 0 .. Len(accepted) \subseteq Nat
      BY CommandType
    <3>2. \E v \in Nat : command' = [command EXCEPT !.replied = TRUE, !.version = v]
      BY <1>3, <3>1 DEF Serve
    <3> QED
      BY <3>2, ReplyType
  <2> QED
    BY <1>1, <2>1, <2>2 DEF Left, Idle
<1>4. CASE Answered \/ NoneLeft
  <2>1. Left' = 0
    BY <1>4 DEF Answered, NoneLeft, Return, Left, Idle
  <2> QED
    BY <1>1, <2>1
<1>5. ASSUME NEW err \in Errors, CallFails(err) PROVE Left' \in Nat /\ Left' < Left
  <2>1. /\ command.at # None /\ outcome' = outcome
        /\ command' = Loop(command.op, command.n, command.todo, None)
    BY <1>5 DEF CallFails, AfterError, Errors, ErrShutdown
  <2>2. command'.todo = command.todo /\ command'.at = None
    BY <2>1 DEF Loop
  <2> QED
    BY <1>1, <2>1, <2>2 DEF Left, Idle
<1> QED
  BY <1>2, <1>3, <1>4, <1>5 DEF LoopStep

\* A put or get comes nearer to its end with every step of its loop, for any
\* number of servers, whatever stops meanwhile (client.go:64-97).
THEOREM LoopAlwaysAdvances == Spec => LoopAdvances
<1>1. CallsInv /\ [Next]_vars
        => [~Idle => Left' <= Left /\ (Left' < Left \/ ~LoopStep)]_vars
  <2> SUFFICES ASSUME CallsInv, Next, ~Idle
               PROVE  Left' <= Left /\ (Left' < Left \/ ~LoopStep)
    OBVIOUS
  <2>1. Left \in Nat
    BY LeftType, CommandType DEF CallsInv
  <2>2. CASE LoopStep
    <3>1. Left' \in Nat /\ Left' < Left
      BY <2>2, LoopStepLowers
    <3> QED
      BY <2>1, <3>1
  <2>3. CASE ~LoopStep
    <3>1. command' = command /\ outcome' = outcome
      BY <2>3 DEF Next, CreateConnection, BreakConnection, Begin, Crash, Notice
    <3> QED
      BY <2>1, <2>3, <3>1 DEF Left, Idle
  <2> QED
    BY <2>2, <2>3
<1> QED
  BY <1>1, CallsHold, PTL DEF Spec, LoopAdvances

----------------------------------------------------------------------------
\* A connection that is shut was shut by the end of its server.
ShutIsDown == \A id \in Listed : serv_map[id].rpcClient = "shut" => serv_map[id].Address \notin up

LEMMA EntryChangeKeepsShut ==
  ASSUME CallsInv, ShutIsDown, NEW id \in Listed, NEW c \in {"nil", "open", "shut"},
         serv_map' = [serv_map EXCEPT ![id].rpcClient = c], up' = up,
         c = "shut" => serv_map[id].rpcClient = "shut" \/ serv_map[id].Address \notin up
  PROVE  ShutIsDown'
<1>1. /\ Listed' = Listed
      /\ \A j \in Listed : serv_map'[j].Address = serv_map[j].Address
      /\ \A j \in Ids \ {id} : serv_map'[j] = serv_map[j]
      /\ serv_map'[id].rpcClient = c
  BY ConnectionChanged DEF CallsInv
<1> QED
  BY <1>1 DEF ShutIsDown, Listed

LEMMA ShutHolds == Spec => [](CallsInv /\ ShutIsDown)
<1>1. Init => ShutIsDown
  BY IdOfAssumption DEF Init, ShutIsDown, Listed, NewServerInfo
<1>2. CallsInv /\ ShutIsDown /\ [Next]_vars => ShutIsDown'
  <2> SUFFICES ASSUME CallsInv, ShutIsDown, [Next]_vars PROVE ShutIsDown'
    OBVIOUS
  <2>1. ASSUME NEW p \in Processes, CreateConnection(p) PROVE ShutIsDown'
    <3>1. IdOf[p] \in Ids /\ serv_map \in [Ids -> Entry \cup {None}]
      BY IdOfAssumption DEF CallsInv, TypeOK
    <3>2. /\ serv_map'[IdOf[p]] = NewServerInfo(p) /\ up' = up
          /\ \A j \in Ids \ {IdOf[p]} : serv_map'[j] = serv_map[j]
      BY <2>1, <3>1 DEF CreateConnection
    <3> QED
      BY <3>1, <3>2 DEF ShutIsDown, Listed, NewServerInfo
  <2>2. ASSUME NEW p \in Processes, Crash(p) PROVE ShutIsDown'
    BY <2>2 DEF Crash, ShutIsDown, Listed
  <2>3. ASSUME NEW id \in Ids, BreakConnection(id) PROVE ShutIsDown'
    <3>1. /\ serv_map'[id] = None /\ up' = up
          /\ \A j \in Ids \ {id} : serv_map'[j] = serv_map[j]
      BY <2>3 DEF BreakConnection, CallsInv, TypeOK
    <3> QED
      BY <3>1 DEF ShutIsDown, Listed
  <2>4. ASSUME NEW id \in Ids, Notice(id) PROVE ShutIsDown'
    BY <2>4, EntryChangeKeepsShut DEF Notice
  <2>5. ASSUME NEW id \in Ids, Try(id) PROVE ShutIsDown'
    <3>1. id \in Listed /\ serv_map[id] \in Entry
      BY <2>5 DEF Try, CallsInv, TypeOK, Listed
    <3>2. /\ Connection(serv_map[id]) \in {"nil", "open", "shut"}
          /\ Connection(serv_map[id]) = "shut" => serv_map[id].rpcClient = "shut"
      BY <3>1 DEF Connection, Entry
    <3> QED
      BY <2>5, <3>1, <3>2, EntryChangeKeepsShut DEF Try
  <2>6. ASSUME NEW err \in Errors, CallFails(err) PROVE ShutIsDown'
    <3>1. command.at \in Listed
      BY <2>6 DEF CallFails, CallsInv, TypeOK
    <3>2. /\ serv_map' = [serv_map EXCEPT ![command.at].rpcClient = "shut"]
          /\ up' = up /\ serv_map[command.at].Address \notin up
      BY <2>6 DEF CallFails, AfterError, Errors, ErrShutdown
    <3> QED
      BY <3>1, <3>2, EntryChangeKeepsShut
  <2>7. CASE serv_map' = serv_map /\ up' = up
    BY <2>7 DEF ShutIsDown, Listed
  <2>8. Begin("put") \/ Begin("get") \/ Serve \/ Answered \/ NoneLeft \/ UNCHANGED vars
          => serv_map' = serv_map /\ up' = up
    BY DEF Begin, Serve, Answered, NoneLeft, vars
  <2> QED
    BY <2>1, <2>2, <2>3, <2>4, <2>5, <2>6, <2>7, <2>8 DEF Next, LoopStep
<1> QED
  BY <1>1, <1>2, CallsHold, PTL DEF Spec

\* The guards of the loop's steps: when there is one to try, an answer, an error, a
\* call that is yet to be served, or nothing left.
CanStep ==
  \/ \E id \in Ids : command.at = None /\ id \in command.todo
  \/ command.at = None /\ command.todo = {}
  \/ command.replied
  \/ /\ command.at # None
     /\ \/ serv_map[command.at].Address \notin up
        \/ ~command.replied /\ serv_map[command.at].rpcClient = "open"

\* A put or get that runs can always go on: it waits for no server that has
\* stopped, nor on a connection that only the client takes for shut.
THEOREM LoopNeverStuck == Spec => [](~Idle => CanStep)
<1>1. CallsInv /\ ShutIsDown => (~Idle => CanStep)
  <2> SUFFICES ASSUME CallsInv, ShutIsDown, ~Idle, command.at # None, ~command.replied,
                      serv_map[command.at].Address \in up
               PROVE  serv_map[command.at].rpcClient = "open"
    BY CommandType DEF CanStep, CallsInv
  <2>1. command.at \in Listed /\ serv_map[command.at] \in Entry
        /\ serv_map[command.at].rpcClient # "nil"
    BY DEF CallsInv, TypeOK, Listed
  <2> QED
    BY <2>1 DEF ShutIsDown, Entry
<1> QED
  BY <1>1, ShutHolds, PTL
=============================================================================
