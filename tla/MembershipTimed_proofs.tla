----------------------- MODULE MembershipTimed_proofs -----------------------
(***************************************************************************)
(* Proofs about MembershipTimed, for any number of servers, of which any   *)
(* number stop: nobody suspects a server in service, and a stopped server  *)
(* is forgotten by the Deadline.  A step handles a call, stops a server or *)
(* is one server's turn; the first part says what each does to the entries *)
(* and their ages, and the proofs of the invariant use only that.          *)
(***************************************************************************)
EXTENDS MembershipTimedProps, Membership_proofs, FiniteSetTheorems

\* An entry for q, as TimedShape allows it.
Of(q, e) == e # Absent => e \in Entry /\ e.addr = q /\ e.seq <= seq[q]

LEMMA ShapeFacts ==
  ASSUME TimedShape
  PROVE  /\ EntryWise
         /\ list \in [Procs -> EntryMap] /\ seq \in [Procs -> Nat] /\ calls \in SUBSET Call
         /\ \A p \in Procs : Id[p] \in Ids /\ list[p][Id[p]] = Absent
         /\ \A p, q \in Procs : p # q => Id[p] # Id[q]
         /\ \A p, q \in Procs : Of(q, list[p][Id[q]])
         /\ \A m \in calls, q \in Procs : Of(q, m.data[Id[q]])
         /\ \A m \in calls : m.from \in Procs /\ m.to \in Procs
<1>1. EntryWise
  BY WiseIsMembersInv DEF TimedShape
<1>2. /\ list \in [Procs -> EntryMap] /\ seq \in [Procs -> Nat] /\ calls \in SUBSET Call
      /\ \A p \in Procs : Id[p] \in Ids /\ list[p][Id[p]] = Absent
  BY <1>1, IdAssumption DEF EntryWise, TypeOK, NoSelf
<1>3. \A p, q \in Procs : p # q => Id[p] # Id[q]
  BY JoinedAssumption
<1>4. ASSUME NEW q \in Procs, NEW e, Good(Id[q], e, seq) PROVE Of(q, e)
  BY <1>3, <1>4 DEF Good, Of, Entry
<1>5. \A p, q \in Procs : Of(q, list[p][Id[q]])
  BY <1>1, <1>2, <1>4 DEF EntryWise
<1>6. \A m \in calls, q \in Procs : Of(q, m.data[Id[q]])
  BY <1>1, <1>2, <1>4 DEF EntryWise
<1>7. \A m \in calls : m.from \in Procs /\ m.to \in Procs
  BY <1>2 DEF Call
<1> QED
  BY <1>1, <1>2, <1>3, <1>5, <1>6, <1>7

----------------------------------------------------------------------------
(* What a step does *)

\* An age, where only a change of the entry sets it back.
Kept(p, i) == IF list'[p][i] # list[p][i] \/ list[p][i] = Absent THEN 0 ELSE age[p][i]

HandledEffect(m) ==
  /\ UNCHANGED <<phase, seq, blacklist>>
  /\ calls' = calls \ {m}
  /\ Up # {} => turn' = turn /\ since' = since
  /\ \A p \in Procs, i \in Ids : age'[p][i] = Kept(p, i)
  /\ \A p \in Procs : p # m.to => list'[p] = list[p]
  /\ m.type = "Heartbeat" =>
       \A i \in Ids : list'[m.to][i] = Heard(m.to, i, m.data[i])
  /\ m.type = "KillServer" =>
       /\ m.from \in Stopped
       /\ list'[m.to][Id[m.from]] = Absent
       /\ \A i \in Ids : i # Id[m.from] => list'[m.to][i] = list[m.to][i]

StopEffect(x) ==
  /\ x \in Up /\ Up' = Up \ {x} /\ Stopped' = Stopped \cup {x}
  /\ UNCHANGED <<list, seq, blacklist>>
  /\ \A m \in calls' : m \in calls \/ (m.type = "KillServer" /\ m.from = x)
  /\ \A m \in calls : m.to # x => m \in calls'
  /\ \A p \in Procs, i \in Ids : age'[p][i] = Kept(p, i)
  /\ \A p \in Up', q \in Stopped : Turns(p, q)' = Turns(p, q)
  /\ \A p \in Up' : Turns(p, x)' = Had(p)
  /\ \A p, q \in Up' : HasYet(q)' + Had(p)' = HasYet(q) + Had(p)

\* What x says of i at its turn.
Beat(x, i) == IF i = Id[x] THEN [addr |-> x, seq |-> seq'[x], suspected |-> FALSE]
              ELSE list'[x][i]

TurnEffect(x, late) ==
  /\ x \in Up /\ x \notin turn /\ UNCHANGED <<phase, blacklist>>
  /\ late \subseteq Listed(x)
  /\ \A m \in calls : m.from # x /\ (m.to = x => m.from \in Up)
  /\ seq' = [seq EXCEPT ![x] = @ + 1]
  /\ \A p \in Procs : p # x => list'[p] = list[p]
  /\ \A i \in Ids :
       IF i \notin late THEN list'[x][i] = list[x][i]
       ELSE /\ T <= age[x][i] + 1
            /\ list'[x][i] = IF list[x][i].suspected THEN Absent ELSE Suspect(list[x][i])
  /\ \A i \in Listed(x) \ late : age[x][i] < T
  /\ \A p \in Procs, i \in Ids : p # x => age'[p][i] = Kept(p, i)
  /\ \A i \in Ids : age'[x][i] = IF list'[x][i] # list[x][i] \/ list[x][i] = Absent
                                 THEN 0 ELSE age[x][i] + 1
  /\ calls \subseteq calls'
  /\ \A m \in calls' : m \in calls \/ /\ m.type = "Heartbeat" /\ m.from = x
                                      /\ \A i \in Ids : m.data[i] = Beat(x, i)
  /\ \A p, q \in Up : p # q =>
       HasYet(q)' + Had(p)' = HasYet(q) + Had(p) + (IF p = x THEN 1 ELSE 0)
                                                 - (IF q = x THEN 1 ELSE 0)
  /\ \A p \in Up, q \in Stopped : Turns(p, q)' = Turns(p, q) + (IF p = x THEN 1 ELSE 0)
  /\ \A p \in Up, q \in Stopped : Turns(p, q)' <= Turns(x, q)'

\* A call is handled within an interval.
LEMMA HandledDoes ==
  ASSUME TimedShape, Timing, NEW m \in calls,
         HeartbeatNotification(m) \/ KillServerNotification(m)
  PROVE  HandledEffect(m)
<1>1. /\ list \in [Procs -> EntryMap] /\ seq \in [Procs -> Nat]
      /\ m.to \in Procs /\ m.from \in Procs /\ Id[m.from] \in Ids
      /\ age \in [Procs -> [Ids -> Nat]] /\ since \in [Procs -> Nat]
  BY ShapeFacts DEF TimedShape
<1>2. UNCHANGED <<phase, seq, blacklist>> /\ calls' = calls \ {m}
  BY DEF HeartbeatNotification, KillServerNotification
<1>3. Up' = Up /\ Stopped' = Stopped
  BY <1>2 DEF Up, Stopped
<1>4. Up # {} => turn' = turn /\ since' = since
  <2> HAVE Up # {}
  <2>1. {p \in Procs : seq'[p] # seq[p]} = {}
    BY <1>2
  <2>2. turn' = turn
    BY <1>3, <2>1 DEF Timing, TimedShape
  <2>3. since' = [q \in Procs |-> IF q \notin Stopped THEN 0 ELSE since[q] + 0]
    BY <1>3, <2>1 DEF Timing, TimedShape
  <2>4. \A q \in Procs : q \notin Stopped => since[q] = 0
    BY DEF TimedShape
  <2>5. since' = since
    BY <1>1, <2>3, <2>4
  <2> QED
    BY <2>2, <2>5
<1>5. \A p \in Procs, i \in Ids : age'[p][i] = Kept(p, i)
  BY <1>1, <1>2 DEF Timing, Kept
<1>6. \A p \in Procs : p # m.to => list'[p] = list[p]
  BY <1>1 DEF HeartbeatNotification, KillServerNotification
<1>7. m.type = "Heartbeat" => \A i \in Ids : list'[m.to][i] = Heard(m.to, i, m.data[i])
  BY <1>1 DEF HeartbeatNotification, KillServerNotification
<1>8. m.type = "KillServer" =>
        /\ m.from \in Stopped
        /\ list'[m.to][Id[m.from]] = Absent
        /\ \A i \in Ids : i # Id[m.from] => list'[m.to][i] = list[m.to][i]
  BY <1>1 DEF HeartbeatNotification, KillServerNotification, TimedShape, EntryMap
<1> QED
  BY <1>2, <1>4, <1>5, <1>6, <1>7, <1>8 DEF HandledEffect

\* A server stops; its last interval may end with that.
LEMMA StopDoes ==
  ASSUME TimedShape, Timing, NEW x \in Procs, Stop(x)
  PROVE  StopEffect(x)
<1>1. /\ list \in [Procs -> EntryMap] /\ seq \in [Procs -> Nat]
      /\ phase \in [Procs -> {"unborn", "joining", "up", "killed", "crashed"}]
      /\ age \in [Procs -> [Ids -> Nat]] /\ since \in [Procs -> Nat]
  BY ShapeFacts DEF TimedShape, EntryWise, TypeOK
<1>2. UNCHANGED <<list, seq, blacklist>>
  BY DEF Stop, KillServer, Crash
<1>3. phase[x] = "up" /\ \E s \in {"killed", "crashed"} : phase' = [phase EXCEPT ![x] = s]
  BY DEF Stop, KillServer, Crash
<1>4. x \in Up /\ Up' = Up \ {x} /\ Stopped' = Stopped \cup {x}
  BY <1>1, <1>3 DEF Up, Stopped
<1>5. \A m \in calls' : m \in calls \/ (m.type = "KillServer" /\ m.from = x)
  BY DEF Stop, KillServer, Crash
<1>6. \A m \in calls : m.to # x => m \in calls'
  BY DEF Stop, KillServer, Crash
<1>7. \A p \in Procs, i \in Ids : age'[p][i] = Kept(p, i)
  BY <1>1, <1>2 DEF Timing, Kept
<1>8. {p \in Procs : seq'[p] # seq[p]} = {}
  BY <1>2
<1>9. /\ turn' = IF Up' \subseteq turn THEN {} ELSE turn \cap Up'
      /\ \A q \in Stopped' :
           since'[q] = since[q] + (IF Up' \subseteq turn THEN 1 ELSE 0)
  <2>1. Stopped' \subseteq Procs
    BY <1>4 DEF Stopped
  <2> QED
    BY <1>8, <2>1 DEF Timing
<1>10. \A q \in Stopped \cup {x} : since[q] \in Nat
  BY <1>1 DEF Stopped
<1>11. \A p \in Up', q \in Stopped : Turns(p, q)' = Turns(p, q)
  BY <1>4, <1>9, <1>10 DEF Turns, Had
<1>12. \A p \in Up' : Turns(p, x)' = Had(p)
  BY <1>4, <1>9 DEF Turns, Had, TimedShape
<1>13. \A p, q \in Up' : HasYet(q)' + Had(p)' = HasYet(q) + Had(p)
  BY <1>9 DEF Had, HasYet
<1> QED
  BY <1>2, <1>4, <1>5, <1>6, <1>7, <1>11, <1>12, <1>13 DEF StopEffect

\* A server has its turn; the interval may end with that.
LEMMA TurnDoes ==
  ASSUME TimedShape, Timing, NEW x \in Procs, NEW late \in SUBSET MayBeLate(x),
         Turn(x, late)
  PROVE  TurnEffect(x, late)
<1>1. /\ list \in [Procs -> EntryMap] /\ seq \in [Procs -> Nat] /\ Id[x] \in Ids
      /\ age \in [Procs -> [Ids -> Nat]] /\ since \in [Procs -> Nat]
  BY ShapeFacts DEF TimedShape
<1>2. /\ UNCHANGED <<phase, blacklist>> /\ late \subseteq Listed(x)
      /\ seq' = [seq EXCEPT ![x] = @ + 1]
      /\ list' = [list EXCEPT ![x] = AfterTimeouts(x, late)]
      /\ x \notin turn
  BY DEF Turn, Heartbeat
<1>3. x \in Up /\ Up' = Up /\ Stopped' = Stopped
  BY <1>2 DEF Turn, Heartbeat, Up, Stopped
<1>4. \A m \in calls : m.from # x /\ (m.to = x => m.from \in Up)
  BY DEF Turn, NothingOverdue
<1>5. /\ \A p \in Procs : p # x => list'[p] = list[p]
      /\ list'[x] = AfterTimeouts(x, late)
  BY <1>1, <1>2
<1>6. \A i \in Ids :
       IF i \notin late THEN list'[x][i] = list[x][i]
       ELSE /\ T <= age[x][i] + 1
            /\ list'[x][i] = IF list[x][i].suspected THEN Absent ELSE Suspect(list[x][i])
  <2>1. \A i \in late : T <= age[x][i] + 1
    BY <1>1, TimeoutAssumption DEF MayBeLate, T, Listed
  <2> QED
    BY <1>5, <2>1 DEF AfterTimeouts
<1>7. \A i \in Listed(x) \ late : age[x][i] < T
  BY <1>1, TimeoutAssumption DEF Turn, MustBeLate, T, Listed
<1>8. /\ \A p \in Procs : seq'[p] = IF p = x THEN seq[x] + 1 ELSE seq[p]
      /\ {p \in Procs : seq'[p] # seq[p]} = {x}
  BY <1>1, <1>2
<1>9. \A p \in Procs, i \in Ids : p # x => age'[p][i] = Kept(p, i)
  BY <1>1, <1>8 DEF Timing, Kept
<1>10. \A i \in Ids : age'[x][i] = IF list'[x][i] # list[x][i] \/ list[x][i] = Absent
                                 THEN 0 ELSE age[x][i] + 1
  BY <1>1, <1>8 DEF Timing
<1>11. calls \subseteq calls'
  BY DEF Turn, Heartbeat
<1>12. \A m \in calls' : m \in calls \/ /\ m.type = "Heartbeat" /\ m.from = x
                                        /\ \A i \in Ids : m.data[i] = Beat(x, i)
  <2>1. Refreshed(OwnEntry(x), seq'[x]) = [addr |-> x, seq |-> seq'[x], suspected |-> FALSE]
    BY DEF Refreshed, OwnEntry
  <2> DEFINE beat == [list'[x] EXCEPT ![Id[x]] = Refreshed(OwnEntry(x), seq'[x])]
  <2>2. \A i \in Ids : beat[i] = Beat(x, i)
    BY <1>1, <1>5, <2>1 DEF AfterTimeouts, Beat
  <2>3. ASSUME NEW m \in calls', m \notin calls
        PROVE  \E q \in Procs : m = [type |-> "Heartbeat", from |-> x, to |-> q, data |-> beat]
    <3>1. \A q \in Reachable(x) : q \in Procs
      BY <1>1 DEF Reachable, Listed, EntryMap, Entry
    <3> QED
      BY <2>3, <3>1 DEF Turn, Heartbeat
  <2> HIDE DEF beat
  <2> QED
    BY <2>2, <2>3
<1>13. /\ turn' = IF Up \subseteq turn \cup {x} THEN {} ELSE (turn \cup {x}) \cap Up
       /\ \A q \in Stopped :
            since'[q] = since[q] + (IF Up \subseteq turn \cup {x} THEN 1 ELSE 0)
  <2>1. Stopped \subseteq Procs
    BY DEF Stopped
  <2> QED
    BY <1>3, <1>8, <2>1 DEF Timing
<1>14. \A p, q \in Up : p # q =>
       HasYet(q)' + Had(p)' = HasYet(q) + Had(p) + (IF p = x THEN 1 ELSE 0)
                                                 - (IF q = x THEN 1 ELSE 0)
  BY <1>2, <1>3, <1>13 DEF Had, HasYet
<1>15. \A q \in Stopped : since[q] \in Nat
  BY <1>1 DEF Stopped
<1>16. \A p \in Up, q \in Stopped : Turns(p, q)' = Turns(p, q) + (IF p = x THEN 1 ELSE 0)
  BY <1>2, <1>3, <1>13, <1>15 DEF Had, Turns
<1>17. \A p \in Up, q \in Stopped : Turns(p, q)' <= Turns(x, q)'
  BY <1>2, <1>3, <1>13, <1>15 DEF Had, Turns
<1> QED
  BY <1>2, <1>3, <1>4, <1>5, <1>6, <1>7, <1>9, <1>10, <1>11, <1>12, <1>14, <1>16, <1>17
     DEF TurnEffect

----------------------------------------------------------------------------
(* The shape *)

LEMMA UpOrStopped == Up \cap Stopped = {} /\ Up \subseteq Procs /\ Stopped \subseteq Procs
BY DEF Up, Stopped

\* Nobody joins any more, so a step is one of three.
LEMMA TimedStep ==
  ASSUME TimedShape, TimedNext
  PROVE  /\ Timing
         /\ \/ \E m \in calls : HeartbeatNotification(m) \/ KillServerNotification(m)
            \/ \E x \in Procs : Stop(x)
            \/ \E x \in Procs : \E late \in SUBSET MayBeLate(x) : Turn(x, late)
BY DEF TimedNext, Received, TimedShape, NewServerNotification

LEMMA TimedIsNext == TimedNext => Next
<1> SUFFICES ASSUME TimedNext PROVE Next
  OBVIOUS
<1>1. CASE Received
  BY <1>1 DEF Next
<1>2. ASSUME NEW x \in Procs, Stop(x) PROVE Next
  BY <1>2 DEF Stop, Next, Commands
<1>3. ASSUME NEW x \in Procs, NEW late \in SUBSET MayBeLate(x), Turn(x, late)
      PROVE  Next
  <2>1. late \in SUBSET Listed(x) /\ Heartbeat(x, late)
    BY <1>3 DEF Turn, MayBeLate
  <2> QED
    BY <2>1 DEF Next
<1> QED
  BY <1>1, <1>2, <1>3 DEF TimedNext

LEMMA InitShape == TimedInit => TimedShape
<1> SUFFICES ASSUME TimedInit PROVE TimedShape
  OBVIOUS
<1> USE DEF TimedInit, Joined
<1>1. ASSUME NEW p \in Procs, NEW i \in Ids
      PROVE  Good(i, list[p][i], seq) /\ list[p][i] \in Entry \cup {Absent}
  <2>1. CASE i = Id[p]
    BY <2>1 DEF Good
  <2>2. CASE i # Id[p]
    <3> DEFINE q == CHOOSE q \in Procs : Id[q] = i
    <3>1. q \in Procs /\ Id[q] = i
      BY JoinedAssumption
    <3>2. list[p][i] = [addr |-> q, seq |-> 1, suspected |-> FALSE]
      BY <2>2 DEF Newcomer
    <3> HIDE DEF q
    <3>3. Good(i, [addr |-> q, seq |-> 1, suspected |-> FALSE], seq)
      BY <3>1, OwnIsGood
    <3>4. [addr |-> q, seq |-> 1, suspected |-> FALSE] \in Entry
      BY <3>1 DEF Entry
    <3> HIDE DEF TimedInit, Joined
    <3> QED
      BY <3>2, <3>3, <3>4
  <2> QED
    BY <2>1, <2>2
<1>2. list \in [Procs -> EntryMap]
  <2>1. \A p \in Procs : list[p] = [i \in Ids |-> list[p][i]]
    OBVIOUS
  <2>2. \A p \in Procs : list[p] \in EntryMap
    BY <1>1, <2>1 DEF EntryMap
  <2>3. list = [p \in Procs |-> list[p]]
    OBVIOUS
  <2> QED
    BY <2>2, <2>3
<1>3. TypeOK
  <2>1. /\ phase \in [Procs -> {"unborn", "joining", "up", "killed", "crashed"}]
        /\ nodes \in SUBSET Procs /\ asks \in [Procs -> SUBSET Procs]
        /\ seq \in [Procs -> Nat \ {0}] /\ blacklist \in [Procs -> SUBSET Procs]
        /\ calls \in SUBSET Call /\ \A p \in Procs : asks[p] = {}
    OBVIOUS
  <2> HIDE DEF TimedInit, Joined
  <2> QED
    BY <1>2, <2>1 DEF TypeOK
<1>4. NoSelf
  BY IdAssumption DEF NoSelf
<1>5. MembersInv
  BY <1>1, <1>3, <1>4, WiseIsMembersInv DEF EntryWise
<1>6. age \in [Procs -> [Ids -> Nat]] /\ since \in [Procs -> Nat]
  OBVIOUS
<1> QED
  BY <1>5, <1>6 DEF TimedShape, Up, Stopped

LEMMA WiseNext == EntryWise' => MembersInv'
<1>1. EntryWise => MembersInv
  BY WiseIsMembersInv
<1> QED
  BY <1>1, PTL

LEMMA ShapeStays ==
  ASSUME TimedShape, TimedNext PROVE TimedShape'
<1>1. MembersInv'
  BY ShapeFacts, TimedIsNext, StepKeeps, WiseNext
<1>2. Timing
  BY TimedStep
<1>3. turn' \subseteq Up' /\ (Up' \subseteq turn' => Up' = {})
  BY <1>2 DEF Timing
<1>4. /\ phase \in [Procs -> {"unborn", "joining", "up", "killed", "crashed"}]
      /\ \A p \in Procs : p \in Up \/ p \in Stopped
      /\ blacklist \in [Procs -> SUBSET Procs] /\ \A p \in Procs : blacklist[p] = {}
      /\ seq \in [Procs -> Nat] /\ age \in [Procs -> [Ids -> Nat]] /\ since \in [Procs -> Nat]
  BY ShapeFacts DEF EntryWise, TypeOK, TimedShape
<1> DEFINE Passed == /\ seq' \in [Procs -> Nat] /\ \A p \in Procs : seq[p] <= seq'[p]
                     /\ blacklist' = blacklist
                     /\ \A p \in Procs : p \in Up' \/ p \in Stopped'
                     /\ \A m \in calls' : \/ m.type = "Heartbeat"
                                          \/ m.type = "KillServer" /\ m.from \in Stopped'
<1>5. Passed
  <2>1. ASSUME NEW m \in calls, HeartbeatNotification(m) \/ KillServerNotification(m)
        PROVE  Passed
    <3>1. HandledEffect(m)
      BY <1>2, <2>1, HandledDoes
    <3>2. Up' = Up /\ Stopped' = Stopped
      BY <3>1 DEF HandledEffect, Up, Stopped
    <3> QED
      BY <1>4, <3>1, <3>2 DEF HandledEffect, TimedShape
  <2>2. ASSUME NEW x \in Procs, Stop(x) PROVE Passed
    <3>1. StopEffect(x)
      BY <1>2, <2>2, StopDoes
    <3> QED
      BY <1>4, <3>1 DEF StopEffect, TimedShape
  <2>3. ASSUME NEW x \in Procs, NEW late \in SUBSET MayBeLate(x), Turn(x, late)
        PROVE  Passed
    <3>1. TurnEffect(x, late)
      BY <1>2, <2>3, TurnDoes
    <3>2. Up' = Up /\ Stopped' = Stopped
      BY <3>1 DEF TurnEffect, Up, Stopped
    <3> QED
      BY <1>4, <3>1, <3>2 DEF TurnEffect, TimedShape
  <2> QED
    BY <2>1, <2>2, <2>3, TimedStep
<1>6. age' \in [Procs -> [Ids -> Nat]] /\ since' \in [Procs -> Nat]
      /\ \A p \in Up' : since'[p] = 0
  <2>1. \A p \in Procs : seq'[p] - seq[p] \in Nat
    BY <1>4, <1>5
  <2>2. age' \in [Procs -> [Ids -> Nat]]
    BY <1>2, <1>4, <2>1 DEF Timing
  <2>3. since' \in [Procs -> Nat]
    BY <1>2, <1>4 DEF Timing
  <2>4. \A p \in Up' : p \in Procs /\ p \notin Stopped'
    BY UpOrStopped DEF Up, Stopped
  <2> QED
    BY <1>2, <2>2, <2>3, <2>4 DEF Timing
<1> QED
  BY <1>1, <1>3, <1>4, <1>5, <1>6 DEF TimedShape

----------------------------------------------------------------------------
(* Servers in service *)

LEMMA MinOfTwo ==
  ASSUME NEW a \in Nat, NEW b \in Nat, b <= a PROVE Min({a, b}) = b
<1>1. b \in {a, b} /\ \A y \in {a, b} : b <= y
  OBVIOUS
<1>2. \A x \in {a, b} : (\A y \in {a, b} : x <= y) => x = b
  OBVIOUS
<1> QED
  BY <1>1, <1>2, Zenon DEF Min

\* The calls of a turn go to every live server that stays listed.
LEMMA AllAreTold ==
  ASSUME TimedShape, EveryoneIsTold, NEW x \in Up, NEW late \in SUBSET MayBeLate(x),
         Turn(x, late), NEW p \in Up, p # x,
         Present(list[x][Id[p]]), Present(list'[x][Id[p]])
  PROVE  \E m \in calls' : /\ m.type = "Heartbeat" /\ m.from = x /\ m.to = p
                           /\ \A i \in Ids : m.data[i] = Beat(x, i)
<1>1. /\ list \in [Procs -> EntryMap] /\ x \in Procs /\ p \in Procs
      /\ Id[x] \in Ids /\ Id[p] \in Ids /\ list[x][Id[x]] = Absent
      /\ list[x][Id[p]].addr = p
  BY ShapeFacts DEF Up, Of, Present
<1>2. /\ list' = [list EXCEPT ![x] = AfterTimeouts(x, late)]
      /\ late \subseteq Listed(x)
  BY DEF Turn, Heartbeat
<1> DEFINE kept == {i \in Ids : list'[x][i] # Absent}
<1> DEFINE beat == [list'[x] EXCEPT ![Id[x]] = Refreshed(OwnEntry(x), seq'[x])]
<1> DEFINE k == Min({GOSSIP_HEARTBEAT_FANOUT, Cardinality(kept)})
<1>3. PICK chosen \in kSubset(k, kept) :
        calls' = calls \cup {[type |-> "Heartbeat", from |-> x, to |-> q, data |-> beat] :
                              q \in {list[x][i].addr : i \in chosen} \cap Reachable(x)}
  BY DEF Turn, Heartbeat
<1>4. chosen = kept
  <2>1. /\ IsFiniteSet(Ids) /\ Cardinality(Ids) \in Nat
        /\ IsFiniteSet(Ids \ {Id[x]}) /\ Cardinality(Ids \ {Id[x]}) = Cardinality(Ids) - 1
    BY <1>1, JoinedAssumption, FS_CardinalityType, FS_RemoveElement
  <2>2. kept \in SUBSET (Ids \ {Id[x]})
    BY <1>1, <1>2 DEF AfterTimeouts, Listed
  <2>3. /\ IsFiniteSet(kept) /\ Cardinality(kept) \in Nat
        /\ Cardinality(kept) <= Cardinality(Ids) - 1
    BY <2>1, <2>2, FS_Subset, FS_CardinalityType
  <2>4. Cardinality(kept) <= GOSSIP_HEARTBEAT_FANOUT
    BY <2>1, <2>3, FanoutAssumption DEF EveryoneIsTold
  <2> DEFINE c == Cardinality(kept)
  <2>5. k = c
    BY <2>3, <2>4, FanoutAssumption, MinOfTwo
  <2>6. chosen \in SUBSET kept /\ Cardinality(chosen) = c
    BY <2>5 DEF kSubset
  <2> HIDE DEF kept
  <2> QED
    BY <2>3, <2>6, FS_Subset
<1>5. p \in {list[x][i].addr : i \in kept}
  BY <1>1 DEF Present
<1>6. p \in Reachable(x)
  BY <1>1 DEF Reachable, TimedShape, Answers, Up, Listed, Present
<1> DEFINE m == [type |-> "Heartbeat", from |-> x, to |-> p, data |-> beat]
<1>7. m \in calls'
  BY <1>3, <1>4, <1>5, <1>6
<1>8. \A i \in Ids : beat[i] = Beat(x, i)
  <2>1. Refreshed(OwnEntry(x), seq'[x]) = [addr |-> x, seq |-> seq'[x], suspected |-> FALSE]
    BY DEF Refreshed, OwnEntry
  <2>2. list'[x] = AfterTimeouts(x, late)
    BY <1>1, <1>2
  <2> QED
    BY <1>1, <2>1, <2>2 DEF AfterTimeouts, Beat
<1> HIDE DEF beat
<1> QED
  BY <1>7, <1>8

\* At a turn no server in service is late.
LEMMA LiveNotLate ==
  ASSUME TimedShape, LiveAreKnown, T >= 4, NEW x, NEW late, TurnEffect(x, late),
         NEW q \in Up, q # x
  PROVE  /\ Id[q] \notin late
         /\ list'[x][Id[q]] = list[x][Id[q]]
         /\ age'[x][Id[q]] = age[x][Id[q]] + 1
<1>1. x \in Procs /\ q \in Procs /\ Id[q] \in Ids
  BY ShapeFacts DEF TurnEffect, Up
<1>2. T \in Nat /\ age[x][Id[q]] \in Nat
  BY <1>1, TimeoutAssumption DEF TimedShape, T
<1>3. KnownTo(x, q)
  BY DEF LiveAreKnown, TurnEffect
<1>4. age[x][Id[q]] <= HasYet(q) + Had(x) + 1
  BY <1>2, <1>3 DEF KnownTo, HasYet, Had
<1>5. age[x][Id[q]] <= 2
  BY <1>2, <1>4 DEF HasYet, Had, TurnEffect
<1>6. Id[q] \notin late
  BY <1>1, <1>2, <1>5 DEF TurnEffect
<1>7. list'[x][Id[q]] = list[x][Id[q]] /\ list[x][Id[q]] # Absent
  BY <1>1, <1>3, <1>6 DEF TurnEffect, KnownTo, Present
<1>8. age'[x][Id[q]] = age[x][Id[q]] + 1
  BY <1>1, <1>7 DEF TurnEffect
<1> QED
  BY <1>6, <1>7, <1>8

LEMMA HandledKeepsLive ==
  ASSUME TimedShape, LiveAreKnown, NEW m \in calls, HandledEffect(m),
         m.type \in {"Heartbeat", "KillServer"}
  PROVE  LiveAreKnown'
<1>1. Up' = Up
  BY DEF HandledEffect, Up
<1>2. ASSUME NEW q \in Up', NEW c \in calls', Tells(c, q)'
      PROVE  ~c.data[Id[q]].suspected
  BY <1>1, <1>2 DEF LiveAreKnown, HandledEffect, Tells, Present
<1>3. ASSUME NEW p \in Up, NEW q \in Up, p # q PROVE KnownTo(p, q)'
  <2> DEFINE i == Id[q]
  <2> DEFINE e == list[p][i]
  <2> DEFINE new == m.data[i]
  <2> DEFINE turns == HasYet(q) + Had(p)
  <2>1. /\ p \in Procs /\ q \in Procs /\ i \in Ids /\ i # Id[p] /\ Of(q, e) /\ Of(q, new)
        /\ m.from \in Procs /\ m.to \in Procs /\ seq[q] \in Nat /\ age[p][i] \in Nat
        /\ m.from \in Stopped => Id[m.from] # i
    BY <1>3, ShapeFacts, UpOrStopped DEF Up, TimedShape
  <2>2. KnownTo(p, q)
    BY <1>3 DEF LiveAreKnown
  <2>3. /\ seq' = seq /\ turn' = turn /\ calls' = calls \ {m}
        /\ age'[p][i] = Kept(p, i)
    BY <2>1 DEF HandledEffect
  <2>4. turns \in Nat
    BY DEF HasYet, Had
  <2>5. CASE list'[p][i] = e /\ ~(m.to = p /\ Tells(m, q))
    <3>1. age'[p][i] = age[p][i]
      BY <2>2, <2>3, <2>5 DEF Kept, KnownTo, Present
    <3>2. \A c \in calls : c.to = p /\ Tells(c, q) => c \in calls'
      BY <2>3, <2>5
    <3> QED
      BY <2>2, <2>3, <2>5, <3>1, <3>2 DEF KnownTo, Tells, Present, HasYet, Had
  <2>6. CASE m.to = p /\ Tells(m, q)
    <3>1. /\ list'[p][i] = Heard(p, i, new) /\ new # Absent /\ e # Absent
          /\ e \in Entry /\ new \in Entry /\ new.seq <= seq[q] /\ e.seq <= seq[q]
          /\ ~e.suspected
      BY <2>1, <2>2, <2>6 DEF HandledEffect, Tells, Present, KnownTo, Of
    <3>2. e.seq \in Nat /\ new.seq \in Nat
      BY <3>1 DEF Entry
    <3>3. CASE e.seq >= new.seq
      <4>1. list'[p][i] = e
        BY <2>1, <3>1, <3>3 DEF Heard
      <4>2. age'[p][i] = age[p][i]
        BY <2>3, <3>1, <4>1 DEF Kept
      <4>3. CASE e.seq = seq[q]
        BY <2>1, <2>2, <2>3, <3>2, <4>1, <4>2, <4>3 DEF KnownTo, HasYet, Had, Present
      <4>4. CASE e.seq # seq[q]
        <5>1. PICK c \in calls : /\ c.from = q /\ c.to = p
                                 /\ Tells(c, q) /\ c.data[Id[q]].seq = seq[q]
          BY <2>2, <4>4 DEF KnownTo
        <5>2. c # m
          BY <3>1, <3>2, <3>3, <4>4, <5>1, <2>1
        <5>3. c \in calls'
          BY <2>3, <5>1, <5>2
        <5> QED
          BY <2>2, <2>3, <4>1, <4>2, <4>4, <5>1, <5>3 DEF KnownTo, Tells, Present, HasYet, Had
      <4> QED
        BY <4>3, <4>4
    <3>4. CASE ~(e.seq >= new.seq)
      <4>1. list'[p][i] = Refreshed(e, new.seq)
        BY <2>1, <3>1, <3>4 DEF Heard
      <4>2. /\ list'[p][i] \in Entry /\ list'[p][i].seq = new.seq /\ ~list'[p][i].suspected
            /\ list'[p][i] # Absent /\ list'[p][i] # e
        <5>1. Refreshed(e, new.seq) \in Entry
          BY <3>1, <3>2 DEF Refreshed, Entry
        <5>2. Refreshed(e, new.seq).seq = new.seq /\ ~Refreshed(e, new.seq).suspected
          BY DEF Refreshed
        <5>3. new.seq # e.seq
          BY <3>2, <3>4
        <5> QED
          BY <4>1, <5>1, <5>2, <5>3, AbsentAssumption
      <4>3. age'[p][i] = 0
        BY <2>3, <4>2 DEF Kept
      <4>4. CASE new.seq = seq[q]
        BY <2>3, <2>4, <4>2, <4>3, <4>4 DEF KnownTo, Present, HasYet, Had
      <4>5. CASE new.seq # seq[q]
        <5>1. PICK c \in calls : /\ c.from = q /\ c.to = p
                                 /\ Tells(c, q) /\ c.data[Id[q]].seq = seq[q]
          BY <2>1, <2>2, <3>1, <3>2, <3>4, <4>5 DEF KnownTo
        <5>2. c \in calls'
          BY <2>3, <4>5, <5>1
        <5>3. new.seq < seq[q]
          BY <2>1, <3>1, <3>2, <4>5
        <5> QED
          BY <2>3, <2>4, <4>2, <4>3, <5>1, <5>2, <5>3 DEF KnownTo, Tells, Present, HasYet, Had
      <4> QED
        BY <4>4, <4>5
    <3> QED
      BY <3>3, <3>4
  <2>7. CASE list'[p][i] # e /\ ~(m.to = p /\ Tells(m, q))
    <3>1. m.to = p
      BY <2>1, <2>7 DEF HandledEffect
    <3>2. CASE m.type = "KillServer"
      BY <2>1, <2>7, <3>1, <3>2 DEF HandledEffect
    <3>3. CASE m.type = "Heartbeat"
      <4>1. new = Absent
        BY <2>7, <3>1, <3>3 DEF Tells, Present
      <4>2. list'[p][i] = Heard(p, i, new)
        BY <2>1, <3>1, <3>3 DEF HandledEffect
      <4> QED
        BY <2>7, <4>1, <4>2 DEF Heard
    <3> QED
      BY <3>2, <3>3
  <2> QED
    BY <2>5, <2>6, <2>7
<1> QED
  BY <1>1, <1>2, <1>3 DEF LiveAreKnown

LEMMA StopKeepsLive ==
  ASSUME TimedShape, LiveAreKnown, NEW x \in Procs, StopEffect(x)
  PROVE  LiveAreKnown'
<1>1. Up' \subseteq Up /\ x \notin Up'
  BY DEF StopEffect
<1>2. ASSUME NEW q \in Up', NEW c \in calls', Tells(c, q)'
      PROVE  ~c.data[Id[q]].suspected
  <2>1. c \in calls /\ Tells(c, q)
    BY <1>2 DEF StopEffect, Tells, Present
  <2> QED
    BY <1>1, <2>1 DEF LiveAreKnown
<1>3. ASSUME NEW p \in Up', NEW q \in Up', p # q PROVE KnownTo(p, q)'
  <2> DEFINE i == Id[q]
  <2>1. p \in Up /\ q \in Up /\ p # x /\ p \in Procs /\ i \in Ids
    BY <1>1, ShapeFacts DEF Up
  <2>2. KnownTo(p, q)
    BY <1>3, <2>1 DEF LiveAreKnown
  <2>3. /\ seq' = seq /\ list' = list
        /\ HasYet(q)' + Had(p)' = HasYet(q) + Had(p)
        /\ \A c \in calls : c.to = p => c \in calls'
    BY <2>1 DEF StopEffect
  <2>4. age'[p][i] = age[p][i]
    BY <2>1, <2>2, <2>3 DEF StopEffect, Kept, KnownTo, Present
  <2> QED
    BY <2>2, <2>3, <2>4 DEF KnownTo, Tells, Present
<1> QED
  BY <1>2, <1>3 DEF LiveAreKnown

LEMMA TurnKeepsLive ==
  ASSUME TimedShape, LiveAreKnown, T >= 4, EveryoneIsTold,
         NEW x \in Procs, NEW late \in SUBSET MayBeLate(x), Turn(x, late),
         TurnEffect(x, late)
  PROVE  LiveAreKnown'
<1>1. Up' = Up /\ x \in Up /\ Id[x] \in Ids
  BY ShapeFacts DEF TurnEffect, Up
<1>2. \A q \in Up : q # x => KnownTo(x, q) /\ KnownTo(q, x)
  BY <1>1 DEF LiveAreKnown
<1>3. \A q \in Up : q # x =>
        /\ list'[x][Id[q]] = list[x][Id[q]]
        /\ age'[x][Id[q]] = age[x][Id[q]] + 1
  BY LiveNotLate
<1>4. \A p \in Procs : seq'[p] = IF p = x THEN seq[x] + 1 ELSE seq[p]
  BY ShapeFacts DEF TurnEffect
<1>5. ASSUME NEW q \in Up', NEW c \in calls', Tells(c, q)'
      PROVE  ~c.data[Id[q]].suspected
  <2>1. CASE c \in calls
    BY <1>1, <1>5, <2>1 DEF LiveAreKnown, Tells, Present
  <2>2. CASE c \notin calls
    <3>1. q \in Procs /\ Id[q] \in Ids
      BY <1>1, ShapeFacts DEF Up
    <3>2. c.data[Id[q]] = Beat(x, Id[q])
      BY <2>2, <3>1 DEF TurnEffect
    <3>3. CASE q = x
      BY <3>2, <3>3 DEF Beat
    <3>4. CASE q # x
      <4>1. Id[q] # Id[x]
        BY <3>1, <3>4, ShapeFacts
      <4>2. c.data[Id[q]] = list[x][Id[q]]
        BY <1>1, <1>3, <3>2, <3>4, <4>1 DEF Beat
      <4> QED
        BY <1>1, <1>2, <3>4, <4>2 DEF KnownTo
    <3> QED
      BY <3>3, <3>4
  <2> QED
    BY <2>1, <2>2
<1>6. ASSUME NEW p \in Up, NEW q \in Up, p # q PROVE KnownTo(p, q)'
  <2> DEFINE i == Id[q]
  <2> DEFINE e == list[p][i]
  <2>1. /\ p \in Procs /\ q \in Procs /\ i \in Ids
        /\ age[p][i] \in Nat /\ seq[q] \in Nat
        /\ Present(e) /\ e \in Entry /\ e.seq \in Nat /\ e.seq <= seq[q]
    <3>1. p \in Procs /\ q \in Procs /\ i \in Ids
      BY ShapeFacts DEF Up
    <3>2. KnownTo(p, q)
      BY <1>6 DEF LiveAreKnown
    <3>3. Of(q, e) /\ Present(e)
      BY <3>1, <3>2, ShapeFacts DEF KnownTo
    <3> QED
      BY <3>1, <3>3, ShapeFacts DEF TimedShape, Of, Present, Entry
  <2>2. KnownTo(p, q)
    BY <1>6 DEF LiveAreKnown
  <2>3. HasYet(q)' + Had(p)' = HasYet(q) + Had(p) + (IF p = x THEN 1 ELSE 0)
                                                 - (IF q = x THEN 1 ELSE 0)
    BY <1>6 DEF TurnEffect
  <2>4. HasYet(q) \in Nat /\ Had(p) \in Nat /\ HasYet(q)' \in Nat /\ Had(p)' \in Nat
    BY DEF HasYet, Had
  <2>5. list'[p][i] = e
    BY <1>3, <1>6, <2>1 DEF TurnEffect
  <2>6. p # x => age'[p][i] = age[p][i]
    BY <2>1, <2>5 DEF TurnEffect, Kept, Present
  <2>7. CASE q = x
    <3>1. p # x
      BY <1>6, <2>7
    <3>2. \A m \in calls : m.from # q
      BY <2>7 DEF TurnEffect
    <3>3. age[p][i] <= HasYet(q) + Had(p)
      BY <2>2, <3>2 DEF KnownTo
    <3>4. seq'[q] = seq[q] + 1 /\ e.seq < seq'[q]
      BY <1>4, <2>1, <2>7
    <3>5. Present(list[x][Id[p]]) /\ Present(list'[x][Id[p]])
      BY <1>2, <1>3, <3>1 DEF KnownTo
    <3>6. PICK m \in calls' : /\ m.type = "Heartbeat" /\ m.from = x /\ m.to = p
                              /\ \A j \in Ids : m.data[j] = Beat(x, j)
      BY <1>1, <3>1, <3>5, AllAreTold
    <3>7. m.data[i] = [addr |-> x, seq |-> seq'[x], suspected |-> FALSE]
      BY <2>1, <2>7, <3>6 DEF Beat
    <3>8. m.data[i] \in Entry /\ m.data[i] # Absent /\ m.data[i].seq = seq'[q]
      <4>1. seq'[x] \in Nat
        BY <2>1, <2>7, <3>4
      <4> DEFINE own == [addr |-> x, seq |-> seq'[x], suspected |-> FALSE]
      <4>2. own \in Entry /\ own.seq = seq'[x]
        BY <4>1 DEF Entry
      <4> HIDE DEF own
      <4>3. m.data[i] = own
        BY <3>7 DEF own
      <4> QED
        BY <2>7, <4>2, <4>3, AbsentAssumption
    <3>9. age'[p][i] <= HasYet(q)' + Had(p)' + 1
      BY <2>1, <2>3, <2>4, <2>6, <2>7, <3>1, <3>3
    <3> QED
      BY <2>2, <2>5, <2>7, <3>4, <3>6, <3>8, <3>9 DEF KnownTo, Tells, Present
  <2>8. CASE q # x
    <3>1. seq'[q] = seq[q] /\ calls \subseteq calls'
      BY <1>4, <2>1, <2>8 DEF TurnEffect
    <3>2. p = x => age'[p][i] = age[p][i] + 1
      BY <1>3, <2>8
    <3>3. /\ age[p][i] <= HasYet(q) + Had(p) => age'[p][i] <= HasYet(q)' + Had(p)'
          /\ age[p][i] <= HasYet(q) + Had(p) + 1 => age'[p][i] <= HasYet(q)' + Had(p)' + 1
      BY <2>1, <2>3, <2>4, <2>6, <2>8, <3>2
    <3>4. CASE e.seq = seq[q] /\ age[p][i] <= HasYet(q) + Had(p)
      BY <2>2, <2>5, <3>1, <3>3, <3>4 DEF KnownTo
    <3>5. CASE /\ e.seq < seq[q] /\ age[p][i] <= HasYet(q) + Had(p) + 1
               /\ \E m \in calls : /\ m.from = q /\ m.to = p
                                   /\ Tells(m, q) /\ m.data[Id[q]].seq = seq[q]
      BY <2>2, <2>5, <3>1, <3>3, <3>5 DEF KnownTo, Tells, Present
    <3> QED
      BY <2>2, <3>4, <3>5 DEF KnownTo
  <2> QED
    BY <2>7, <2>8
<1> QED
  BY <1>1, <1>5, <1>6 DEF LiveAreKnown

LEMMA InitLive == TimedInit => LiveAreKnown
<1> SUFFICES ASSUME TimedInit PROVE LiveAreKnown
  OBVIOUS
<1>1. calls = {}
  BY DEF TimedInit, Joined
<1>2. ASSUME NEW p \in Up, NEW q \in Up, p # q PROVE KnownTo(p, q)
  <2>1. p \in Procs /\ q \in Procs /\ Id[p] # Id[q] /\ Id[q] \in Ids
    BY <1>2, IdAssumption, JoinedAssumption DEF Up
  <2>2. (CHOOSE r \in Procs : Id[r] = Id[q]) = q
    BY <2>1, JoinedAssumption
  <2>3. list[p][Id[q]] = Newcomer(q)
    BY <2>1, <2>2 DEF TimedInit, Joined
  <2>4. Newcomer(q) \in Entry /\ Newcomer(q).seq = 1 /\ ~Newcomer(q).suspected
    BY <2>1 DEF Newcomer, Entry
  <2>5. seq[q] = 1 /\ age[p][Id[q]] = 0
    BY <2>1 DEF TimedInit, Joined
  <2>6. Present(list[p][Id[q]])
    BY <2>3, <2>4, AbsentAssumption DEF Present
  <2> QED
    BY <2>3, <2>4, <2>5, <2>6 DEF KnownTo, HasYet, Had
<1> QED
  BY <1>1, <1>2 DEF LiveAreKnown

LEMMA ShapeUnchanged ==
  ASSUME TimedShape, UNCHANGED timedVars PROVE TimedShape'
<1>1. EntryWise'
  BY ShapeFacts, StepKeeps DEF timedVars
<1>2. MembersInv' /\ UNCHANGED <<phase, blacklist, calls, turn, age, since>>
  BY <1>1, WiseNext DEF timedVars, vars
<1> QED
  BY <1>2 DEF TimedShape, Up, Stopped

LEMMA LiveUnchanged ==
  ASSUME LiveAreKnown, UNCHANGED timedVars PROVE LiveAreKnown'
BY DEF timedVars, vars, LiveAreKnown, KnownTo, Up, Tells, Present, HasYet, Had

\* What is known of the servers in service, step by step.
LEMMA LiveStays ==
  ASSUME TimedShape, LiveAreKnown, EveryoneIsTold, T >= 4, TimedNext
  PROVE  LiveAreKnown'
<1>1. Timing
  BY TimedStep
<1>2. ASSUME NEW m \in calls, HeartbeatNotification(m) \/ KillServerNotification(m)
      PROVE  LiveAreKnown'
  BY <1>1, <1>2, HandledDoes, HandledKeepsLive DEF TimedShape
<1>3. ASSUME NEW x \in Procs, Stop(x) PROVE LiveAreKnown'
  BY <1>1, <1>3, StopDoes, StopKeepsLive
<1>4. ASSUME NEW x \in Procs, NEW late \in SUBSET MayBeLate(x), Turn(x, late)
      PROVE  LiveAreKnown'
  BY <1>1, <1>4, TurnDoes, TurnKeepsLive
<1> QED
  BY <1>2, <1>3, <1>4, TimedStep

LEMMA SuspectsFromLive ==
  ASSUME TimedShape, LiveAreKnown PROVE SuspectsAreDown
<1> SUFFICES ASSUME NEW p \in Up, NEW i \in Ids,
                    list[p][i] # Absent, list[p][i].suspected, list[p][i].addr \in Up
             PROVE  FALSE
  BY DEF SuspectsAreDown
<1> DEFINE q == list[p][i].addr
<1>1. p \in Procs /\ q \in Procs
  BY DEF Up
<1>2. Id[q] = i
  BY <1>1, ShapeFacts DEF EntryWise, Good
<1>3. q # p
  BY <1>1, <1>2, ShapeFacts
<1>4. KnownTo(p, q)
  BY <1>3 DEF LiveAreKnown
<1> QED
  BY <1>2, <1>4 DEF KnownTo

\* No server suspects one in service (startHeartbeats and the notifications of
\* rpc.go), however many servers there are and stop, when a turn reaches all
\* and the timeout is four turns or more.
THEOREM SuspectsTheorem ==
  ASSUME EveryoneIsTold, GOSSIP_HEARTBEAT_TIMEOUT >= 4
  PROVE  TimedSpec => []SuspectsAreDown
<1> DEFINE Inv == TimedShape /\ LiveAreKnown
<1>1. TimedInit => Inv
  BY InitShape, InitLive
<1>2. Inv /\ [TimedNext]_timedVars => Inv'
  <2> SUFFICES ASSUME Inv, [TimedNext]_timedVars PROVE Inv'
    OBVIOUS
  <2>1. CASE TimedNext
    BY <2>1, ShapeStays, LiveStays DEF T
  <2>2. CASE UNCHANGED timedVars
    BY <2>2, ShapeUnchanged, LiveUnchanged
  <2> QED
    BY <2>1, <2>2
<1>3. Inv => SuspectsAreDown
  BY SuspectsFromLive
<1> QED
  BY <1>1, <1>2, <1>3, PTL DEF TimedSpec

----------------------------------------------------------------------------
(* Servers that have stopped: what helps in every step *)

\* Servers are within a turn of each other.
LEMMA TurnsNear ==
  ASSUME TimedShape, NEW p \in Up, NEW q \in Stopped
  PROVE  /\ Turns(p, q) \in Nat
         /\ \A r \in Up : Turns(p, q) <= Turns(r, q) + 1
         /\ \A r \in Up : p \notin turn => Turns(p, q) <= Turns(r, q)
BY UpOrStopped DEF TimedShape, Turns, Had

\* What StoppedAge says of p and q, with the types that arithmetic needs.
LEMMA StoppedFacts ==
  ASSUME TimedShape, StoppedAge, NEW p \in Up, NEW q \in Stopped
  PROVE  /\ p \in Procs /\ q \in Procs /\ p # q /\ Id[q] \in Ids /\ Id[p] # Id[q]
         /\ T \in Nat /\ age[p][Id[q]] \in Nat
         /\ Of(q, list[p][Id[q]])
         /\ Present(list[p][Id[q]]) =>
              list[p][Id[q]] \in Entry /\ list[p][Id[q]].seq \in 0 .. seq[q]
         /\ Aging(p, q) /\ LastCalls(q) /\ NoLateNews(q)
         /\ \A m \in calls : m.to = p /\ m.from # q /\ Tells(m, q) => Rumour(m, q)
<1>1. p \in Procs /\ q \in Procs /\ p # q
  BY UpOrStopped
<1>2. Id[q] \in Ids /\ Id[p] # Id[q] /\ Of(q, list[p][Id[q]]) /\ seq[q] \in Nat
  BY <1>1, ShapeFacts
<1>3. T \in Nat /\ age[p][Id[q]] \in Nat
  BY <1>1, <1>2, TimeoutAssumption DEF T, TimedShape
<1> QED
  BY <1>1, <1>2, <1>3 DEF StoppedAge, Of, Entry, Present

\* The entry that a call carries.
LEMMA ToldEntry ==
  ASSUME TimedShape, NEW m \in calls, NEW q \in Procs, Tells(m, q)
  PROVE  /\ m.data[Id[q]] # Absent /\ m.data[Id[q]] \in Entry
         /\ m.data[Id[q]].seq \in 0 .. seq[q]
         /\ m.from \in Procs /\ m.to \in Procs /\ Id[q] \in Ids
BY ShapeFacts DEF Tells, Present, Of, Entry

\* What handling m makes of the entry of its receiver for q.
LEMMA HandledEntry ==
  ASSUME TimedShape, StoppedAge, NEW m \in calls, HandledEffect(m),
         m.type \in {"Heartbeat", "KillServer"},
         NEW p \in Up, NEW q \in Stopped,
         list'[p][Id[q]] # list[p][Id[q]]
  PROVE  /\ m.to = p /\ age'[p][Id[q]] = 0
         /\ \/ list'[p][Id[q]] = Absent /\ m.from = q
            \/ /\ Tells(m, q) /\ list'[p][Id[q]] \in Entry /\ ~list'[p][Id[q]].suspected
               /\ list'[p][Id[q]].seq = m.data[Id[q]].seq
               /\ IF Present(list[p][Id[q]])
                  THEN list[p][Id[q]].seq < m.data[Id[q]].seq
                  ELSE ~m.data[Id[q]].suspected
<1> DEFINE i == Id[q]
<1> DEFINE e == list[p][i]
<1> DEFINE new == m.data[i]
<1>1. /\ p \in Procs /\ q \in Procs /\ i \in Ids /\ i # Id[p]
      /\ e # Absent => e \in Entry
  BY StoppedFacts DEF Present
<1>2. m.to = p /\ age'[p][i] = 0
  BY <1>1 DEF HandledEffect, Kept
<1>3. CASE m.type = "KillServer"
  <2>1. Id[m.from] = i
    BY <1>1, <1>2, <1>3 DEF HandledEffect
  <2>2. m.from = q
    BY <1>1, <2>1, ShapeFacts
  <2>3. list'[p][i] = Absent
    BY <1>2, <1>3, <2>1 DEF HandledEffect
  <2> QED
    BY <1>2, <2>2, <2>3
<1>4. CASE m.type = "Heartbeat"
  <2>1. list'[p][i] = Heard(p, i, new) /\ list'[p][i] # e
    BY <1>1, <1>2, <1>4 DEF HandledEffect
  <2>2. new # Absent
    BY <2>1 DEF Heard
  <2>3. Tells(m, q) /\ new \in Entry
    BY <1>1, <1>4, <2>2, ToldEntry DEF Tells, Present
  <2>4. CASE e = Absent
    <3>1. list'[p][i] = new /\ ~new.suspected
      BY <1>1, <2>1, <2>2, <2>4 DEF Heard
    <3> QED
      BY <1>2, <2>3, <2>4, <3>1 DEF Present
  <2>5. CASE e # Absent
    <3>1. list'[p][i] = Refreshed(e, new.seq) /\ ~(e.seq >= new.seq)
      BY <1>1, <2>1, <2>2, <2>5 DEF Heard
    <3>2. e \in Entry /\ e.seq \in Nat /\ new.seq \in Nat
      BY <1>1, <2>3, <2>5 DEF Entry
    <3>3. /\ Refreshed(e, new.seq) \in Entry /\ ~Refreshed(e, new.seq).suspected
          /\ Refreshed(e, new.seq).seq = new.seq
      BY <3>2 DEF Refreshed, Entry
    <3>4. e.seq < new.seq
      BY <3>1, <3>2
    <3> QED
      BY <1>2, <2>3, <2>5, <3>1, <3>3, <3>4 DEF Present
  <2> QED
    BY <2>4, <2>5
<1> QED
  BY <1>3, <1>4

\* News of q comes early.
LEMMA NewsIsEarly ==
  ASSUME TimedShape, StoppedAge, T >= 8, NEW m \in calls,
         NEW p \in Up, NEW q \in Stopped, m.to = p, Tells(m, q),
         IF Present(list[p][Id[q]]) THEN list[p][Id[q]].seq < m.data[Id[q]].seq
                                    ELSE ~m.data[Id[q]].suspected
  PROVE  Turns(p, q) <= 5
<1> DEFINE v == m.data[Id[q]].seq
<1>1. /\ q \in Procs /\ T \in Nat /\ LastCalls(q) /\ NoLateNews(q)
      /\ m.from # q => Rumour(m, q)
      /\ Present(list[p][Id[q]]) => list[p][Id[q]].seq \in Nat
  BY StoppedFacts
<1>2. Turns(p, q) \in Nat
  BY TurnsNear
<1>3. v \in 0 .. seq[q] /\ v \in Nat
  BY <1>1, ToldEntry, ShapeFacts
<1>4. CASE m.from = q
  BY <1>1, <1>2, <1>4 DEF LastCalls
<1>5. CASE m.from # q /\ Turns(p, q) > 5
  <2>1. LateNumber(q, v)
    BY <1>2, <1>5 DEF LateNumber
  <2>2. Knows(p, q, v) \/ WillKnow(p, q, v)
    BY <1>1, <1>3, <2>1 DEF NoLateNews, Spread
  <2>3. ~WillKnow(p, q, v)
    <3> SUFFICES ASSUME NEW c \in calls, c.to = p, c.from # q,
                        IF c.from \in Up THEN Turns(c.from, q) <= 4 ELSE Turns(p, q) <= 5
                 PROVE  FALSE
      BY DEF WillKnow
    <3>1. c.from \in Up => Turns(c.from, q) \in Nat /\ Turns(p, q) <= Turns(c.from, q) + 1
      BY TurnsNear
    <3> QED
      BY <1>2, <1>5, <3>1
  <2>4. CASE Present(list[p][Id[q]])
    BY <1>1, <1>3, <2>2, <2>3, <2>4 DEF Knows
  <2>5. CASE ~Present(list[p][Id[q]])
    <3>1. Turns(p, q) <= T + 6
      BY <1>1, <1>5, <2>5 DEF Rumour
    <3>2. Gone <= Turns(p, q)
      BY <2>2, <2>3, <2>5 DEF Knows
    <3> QED
      BY <1>1, <1>2, <3>1, <3>2 DEF Gone
  <2> QED
    BY <2>4, <2>5
<1> QED
  BY <1>2, <1>4, <1>5

----------------------------------------------------------------------------
(* What is spread stays spread *)

LEMMA HandledKeepsSpread ==
  ASSUME TimedShape, StoppedAge, T >= 8, NEW m \in calls, HandledEffect(m),
         m.type \in {"Heartbeat", "KillServer"},
         NEW q \in Stopped, NEW n \in Nat, Spread(q, n),
         \A p \in Up : 2 <= Turns(p, q)
  PROVE  Spread(q, n)'
<1> SUFFICES ASSUME NEW p \in Up PROVE Knows(p, q, n)' \/ WillKnow(p, q, n)'
  BY DEF Spread, HandledEffect, Up
<1> DEFINE i == Id[q]
<1> DEFINE e == list[p][i]
<1>1. /\ Up' = Up /\ turn' = turn /\ since' = since /\ calls' = calls \ {m}
      /\ \A r \in Up : Turns(r, q)' = Turns(r, q)
  BY DEF HandledEffect, Up, Turns, Had
<1>2. /\ q \in Procs /\ p \in Procs /\ i \in Ids /\ i # Id[p]
      /\ T \in Nat /\ Turns(p, q) \in Nat /\ 2 <= Turns(p, q)
      /\ Present(e) => e \in Entry /\ e.seq \in Nat
  BY StoppedFacts, TurnsNear
<1>3. m.to = p => m.from # q
  BY <1>2, StoppedFacts DEF LastCalls
<1>4. ASSUME Knows(p, q, n) PROVE Knows(p, q, n)'
  <2>1. CASE list'[p][i] = e
    BY <1>1, <1>4, <2>1 DEF Knows, Present, Gone
  <2>2. CASE list'[p][i] # e
    <3>1. /\ m.to = p /\ Tells(m, q) /\ list'[p][i] \in Entry
          /\ list'[p][i].seq = m.data[i].seq
          /\ IF Present(e) THEN e.seq < m.data[i].seq ELSE ~m.data[i].suspected
      BY <1>3, <2>2, HandledEntry
    <3>2. Turns(p, q) <= 5
      BY <3>1, NewsIsEarly
    <3>3. Present(e)
      BY <1>2, <1>4, <3>2 DEF Knows, Gone
    <3>4. m.data[i].seq \in Nat /\ list'[p][i] # Absent
      BY <1>2, <3>1, ToldEntry, ShapeFacts, AbsentAssumption
    <3> QED
      BY <1>2, <1>4, <3>1, <3>3, <3>4 DEF Knows, Present
  <2> QED
    BY <2>1, <2>2
<1>5. ASSUME NEW c \in calls, c # m, c.to = p, c.from # q, TellsNoLess(c, q, n),
             IF c.from \in Up THEN Turns(c.from, q) <= 4 ELSE Turns(p, q) <= 5
      PROVE  WillKnow(p, q, n)'
  BY <1>1, <1>5 DEF WillKnow, TellsNoLess, Tells, Present
<1>6. ASSUME m.to = p, m.from # q, TellsNoLess(m, q, n),
             IF m.from \in Up THEN Turns(m.from, q) <= 4 ELSE Turns(p, q) <= 5
      PROVE  Knows(p, q, n)'
  <2> DEFINE new == m.data[i]
  <2>1. m.type = "Heartbeat" /\ new # Absent /\ new \in Entry /\ new.seq \in Nat /\ n <= new.seq
    <3>1. Tells(m, q) /\ n <= new.seq
      BY <1>6 DEF TellsNoLess
    <3> QED
      BY <1>2, <3>1, ToldEntry, ShapeFacts DEF Tells
  <2>2. list'[p][i] = Heard(p, i, new)
    BY <1>2, <1>6, <2>1 DEF HandledEffect
  <2>3. Turns(p, q) <= 5
    <3>1. m.from \in Up => Turns(m.from, q) \in Nat /\ Turns(p, q) <= Turns(m.from, q) + 1
      BY TurnsNear
    <3> QED
      BY <1>2, <1>6, <3>1
  <2>4. ~new.suspected
    <3>1. Rumour(m, q)
      BY <1>6, StoppedFacts DEF TellsNoLess
    <3> QED
      BY <1>2, <1>6, <2>3, <3>1 DEF Rumour
  <2>5. CASE e = Absent
    <3>1. list'[p][i] = new
      BY <1>2, <2>1, <2>2, <2>4, <2>5 DEF Heard
    <3> QED
      BY <2>1, <3>1 DEF Knows, Present
  <2>6. CASE e # Absent /\ e.seq >= new.seq
    <3>1. list'[p][i] = e
      BY <1>2, <2>1, <2>2, <2>6 DEF Heard
    <3> QED
      BY <1>2, <2>1, <2>6, <3>1 DEF Knows, Present
  <2>7. CASE e # Absent /\ ~(e.seq >= new.seq)
    <3>1. list'[p][i] = Refreshed(e, new.seq)
      BY <1>2, <2>1, <2>2, <2>7 DEF Heard
    <3>2. Refreshed(e, new.seq) \in Entry /\ Refreshed(e, new.seq).seq = new.seq
      BY <1>2, <2>1, <2>7 DEF Refreshed, Entry, Present
    <3> QED
      BY <2>1, <3>1, <3>2, AbsentAssumption DEF Knows, Present
  <2> QED
    BY <2>5, <2>6, <2>7
<1>7. Knows(p, q, n) \/ WillKnow(p, q, n)
  BY DEF Spread
<1> QED
  BY <1>4, <1>5, <1>6, <1>7 DEF WillKnow

LEMMA StopKeepsSpread ==
  ASSUME TimedShape, StoppedAge, NEW x \in Procs, StopEffect(x),
         NEW q \in Stopped, NEW n \in Nat, Spread(q, n)
  PROVE  Spread(q, n)'
<1> SUFFICES ASSUME NEW p \in Up' PROVE Knows(p, q, n)' \/ WillKnow(p, q, n)'
  BY DEF Spread
<1>1. /\ p \in Up /\ p # x /\ list' = list /\ Turns(p, q)' = Turns(p, q)
      /\ Turns(p, q) \in Nat
  BY TurnsNear DEF StopEffect
<1>2. ASSUME Knows(p, q, n) PROVE Knows(p, q, n)'
  BY <1>1, <1>2 DEF Knows, Present, Gone
<1>3. ASSUME WillKnow(p, q, n) PROVE WillKnow(p, q, n)'
  <2>1. PICK c \in calls :
          /\ c.to = p /\ c.from # q /\ TellsNoLess(c, q, n)
          /\ IF c.from \in Up THEN Turns(c.from, q) <= 4 ELSE Turns(p, q) <= 5
    BY <1>3 DEF WillKnow
  <2>2. c \in calls'
    BY <1>1, <2>1 DEF StopEffect
  <2>3. c.from \in Up => Turns(c.from, q) \in Nat /\ Turns(p, q) <= Turns(c.from, q) + 1
    BY <1>1, TurnsNear
  <2>4. c.from \in Up' => c.from \in Up /\ Turns(c.from, q)' = Turns(c.from, q)
    BY DEF StopEffect
  <2>5. IF c.from \in Up' THEN Turns(c.from, q)' <= 4 ELSE Turns(p, q)' <= 5
    BY <1>1, <2>1, <2>3, <2>4
  <2> QED
    BY <2>1, <2>2, <2>5 DEF WillKnow, TellsNoLess, Tells, Present
<1> QED
  BY <1>1, <1>2, <1>3 DEF Spread

\* What a turn makes of the entry of x for a stopped q.
LEMMA TurnEntry ==
  ASSUME TimedShape, StoppedAge, NEW x \in Up, NEW late, TurnEffect(x, late),
         NEW q \in Stopped
  PROVE  LET e == list[x][Id[q]]
             f == list'[x][Id[q]]
         IN  /\ Present(f) => /\ Present(e) /\ f \in Entry
                              /\ f.seq = e.seq /\ f.seq \in 0 .. seq[q]
             /\ Present(f) /\ ~f.suspected =>
                  /\ ~e.suspected
                  /\ age[x][Id[q]] < T /\ age'[x][Id[q]] = age[x][Id[q]] + 1
             /\ Present(f) /\ f.suspected =>
                  \/ /\ e.suspected
                     /\ age[x][Id[q]] < T /\ age'[x][Id[q]] = age[x][Id[q]] + 1
                  \/ /\ ~e.suspected
                     /\ T <= age[x][Id[q]] + 1 /\ age'[x][Id[q]] = 0
             /\ Present(e) /\ ~Present(f) => e.suspected /\ T <= age[x][Id[q]] + 1
<1> DEFINE i == Id[q]
<1> DEFINE e == list[x][i]
<1> DEFINE f == list'[x][i]
<1>1. /\ i \in Ids
      /\ e # Absent => e \in Entry /\ e.seq \in 0 .. seq[q]
      /\ late \subseteq Listed(x)
  BY StoppedFacts DEF Present, TurnEffect
<1>2. CASE i \notin late
  <2>1. f = e
    BY <1>1, <1>2, StoppedFacts DEF TurnEffect
  <2>2. e # Absent => age[x][i] < T /\ age'[x][i] = age[x][i] + 1
    BY <1>1, <1>2, <2>1, StoppedFacts DEF TurnEffect, Listed
  <2> QED
    BY <1>1, <2>1, <2>2 DEF Present
<1>3. CASE i \in late
  <2>1. /\ e # Absent /\ T <= age[x][i] + 1
        /\ f = IF e.suspected THEN Absent ELSE Suspect(e)
    BY <1>1, <1>3 DEF TurnEffect, Listed
  <2>2. CASE e.suspected
    BY <2>1, <2>2 DEF Present
  <2>3. CASE ~e.suspected
    <3>1. /\ Suspect(e) \in Entry /\ Suspect(e).seq = e.seq /\ Suspect(e).suspected
      BY <1>1, <2>1 DEF Suspect, Entry
    <3>2. f # e /\ f # Absent
      BY <2>1, <2>3, <3>1, AbsentAssumption
    <3>3. age'[x][i] = 0
      BY <3>2, StoppedFacts DEF TurnEffect
    <3> QED
      BY <1>1, <2>1, <2>3, <3>1, <3>2, <3>3 DEF Present
  <2> QED
    BY <2>2, <2>3
<1> QED
  BY <1>2, <1>3

LEMMA TurnKeepsSpread ==
  ASSUME TimedShape, StoppedAge, NEW x \in Up, NEW late, TurnEffect(x, late),
         NEW q \in Stopped, NEW n \in Nat, Spread(q, n)
  PROVE  Spread(q, n)'
<1>1. Up' = Up
  BY DEF TurnEffect, Up
<1> SUFFICES ASSUME NEW p \in Up PROVE Knows(p, q, n)' \/ WillKnow(p, q, n)'
  BY <1>1 DEF Spread
<1>2. /\ Turns(p, q)' = Turns(p, q) + (IF p = x THEN 1 ELSE 0)
      /\ Turns(p, q) \in Nat /\ p \in Procs /\ T \in Nat /\ age[p][Id[q]] \in Nat
  BY TurnsNear, StoppedFacts DEF TurnEffect
<1>3. ASSUME Knows(p, q, n), p # x PROVE Knows(p, q, n)'
  <2>1. list'[p] = list[p] /\ Turns(p, q)' = Turns(p, q)
    BY <1>2, <1>3 DEF TurnEffect
  <2> QED
    BY <1>3, <2>1 DEF Knows, Present, Gone
<1>4. ASSUME Knows(p, q, n), p = x PROVE Knows(p, q, n)'
  <2> DEFINE e == list[x][Id[q]]
  <2> DEFINE f == list'[x][Id[q]]
  <2>1. CASE Present(f)
    BY <1>4, <2>1, TurnEntry DEF Knows, Present
  <2>2. CASE ~Present(f) /\ Present(e)
    <3>1. e.suspected /\ T <= age[x][Id[q]] + 1
      BY <2>2, TurnEntry
    <3>2. age[x][Id[q]] + T <= Turns(x, q) + 1
      BY <2>2, <3>1, StoppedFacts DEF Aging
    <3>3. Gone <= Turns(p, q)'
      BY <1>2, <1>4, <3>1, <3>2 DEF Gone
    <3> QED
      BY <1>4, <2>2, <3>3 DEF Knows, Present, Gone
  <2>3. CASE ~Present(f) /\ ~Present(e)
    <3>1. Gone <= Turns(p, q)'
      BY <1>2, <1>4, <2>3 DEF Knows, Gone
    <3> QED
      BY <1>4, <2>3, <3>1 DEF Knows, Present, Gone
  <2> QED
    BY <2>1, <2>2, <2>3
<1>5. ASSUME WillKnow(p, q, n) PROVE WillKnow(p, q, n)'
  <2>1. PICK c \in calls :
          /\ c.to = p /\ c.from # q /\ TellsNoLess(c, q, n)
          /\ IF c.from \in Up THEN Turns(c.from, q) <= 4 ELSE Turns(p, q) <= 5
    BY <1>5 DEF WillKnow
  <2>2. c \in calls' /\ c.from # x /\ (p = x => c.from \in Up)
    BY <2>1 DEF TurnEffect
  <2>3. c.from \in Up => Turns(c.from, q)' = Turns(c.from, q) /\ Turns(c.from, q) \in Nat
    <3> HAVE c.from \in Up
    <3>1. Turns(c.from, q) \in Nat
      BY TurnsNear
    <3> QED
      BY <2>2, <3>1 DEF TurnEffect
  <2>4. IF c.from \in Up THEN Turns(c.from, q)' <= 4 ELSE Turns(p, q)' <= 5
    BY <1>2, <2>1, <2>2, <2>3
  <2> QED
    BY <1>1, <2>1, <2>2, <2>4 DEF WillKnow, TellsNoLess, Tells, Present
<1> QED
  BY <1>3, <1>4, <1>5 DEF Spread

----------------------------------------------------------------------------
(* Servers that have stopped: a call is handled *)

LEMMA HandledKeepsAge ==
  ASSUME TimedShape, StoppedAge, T >= 8, NEW m \in calls, HandledEffect(m),
         m.type \in {"Heartbeat", "KillServer"}
  PROVE  StoppedAge'
<1>1. Up' = Up /\ Stopped' = Stopped /\ calls' = calls \ {m} /\ seq' = seq
  BY DEF HandledEffect, Up, Stopped
<1>2. \A p \in Up, q \in Stopped : Turns(p, q)' = Turns(p, q)
  BY DEF HandledEffect, Turns, Had
<1> SUFFICES ASSUME NEW q \in Stopped
             PROVE  /\ LastCalls(q)'
                    /\ \A p \in Up : Aging(p, q)'
                    /\ \A c \in calls' : c.to \in Up /\ c.from # q /\ Tells(c, q)' => Rumour(c, q)'
                    /\ NoLateNews(q)'
  BY <1>1 DEF StoppedAge
<1> DEFINE i == Id[q]
<1>3. q \in Procs /\ i \in Ids /\ seq[q] \in Nat
  BY ShapeFacts, UpOrStopped
<1>4. LastCalls(q)'
  BY <1>1, <1>2 DEF StoppedAge, LastCalls
<1>5. ASSUME NEW p \in Up PROVE Aging(p, q)'
  <2> DEFINE e == list[p][i]
  <2> DEFINE f == list'[p][i]
  <2>1. /\ Turns(p, q)' = Turns(p, q) /\ Turns(p, q) \in Nat /\ T \in Nat
        /\ age[p][i] \in Nat /\ p \in Procs /\ Aging(p, q)
        /\ Present(e) => e.seq \in Nat
    BY <1>2, <1>3, StoppedFacts, TurnsNear
  <2>2. CASE f # e
    <3> SUFFICES ASSUME Present(f) PROVE Aging(p, q)'
      BY DEF Aging, Present
    <3>1. /\ m.to = p /\ Tells(m, q) /\ age'[p][i] = 0 /\ ~f.suspected
          /\ IF Present(e) THEN e.seq < m.data[i].seq ELSE ~m.data[i].suspected
      BY <2>2, HandledEntry DEF Present
    <3>2. Turns(p, q) <= 5
      BY <3>1, NewsIsEarly
    <3> QED
      BY <2>1, <3>1, <3>2 DEF Aging, T
  <2>3. CASE f = e
    <3> SUFFICES ASSUME Present(e) PROVE Aging(p, q)'
      BY <2>3 DEF Aging, Present
    <3>1. age'[p][i] = age[p][i]
      BY <1>3, <2>1, <2>3 DEF HandledEffect, Kept, Present
    <3>2. ASSUME NEW c \in calls, c.from = q, c.to = p, TellsMore(c, q, e.seq)
          PROVE  c \in calls' /\ TellsMore(c, q, e.seq)
      <4>1. c # m
        <5> SUFFICES ASSUME c = m PROVE FALSE
          OBVIOUS
        <5>1. m.type = "Heartbeat" /\ m.data[i] # Absent /\ e.seq < m.data[i].seq
          BY <3>2 DEF TellsMore, Tells, Present
        <5>2. m.data[i].seq \in Nat
          BY <1>3, <3>2, ToldEntry DEF TellsMore
        <5>3. i # Id[p] /\ f = Heard(p, i, m.data[i])
          BY <1>3, <3>2, <5>1, StoppedFacts DEF HandledEffect
        <5>4. f = Refreshed(e, m.data[i].seq)
          BY <2>1, <5>1, <5>2, <5>3 DEF Heard, Present
        <5>5. f.seq = m.data[i].seq
          BY <5>4 DEF Refreshed
        <5> QED
          BY <2>1, <2>3, <5>1, <5>2, <5>5
      <4> QED
        BY <1>1, <3>2, <4>1
    <3> QED
      BY <2>1, <2>3, <3>1, <3>2 DEF Aging, TellsMore, Tells, Present, T
  <2> QED
    BY <2>2, <2>3
<1>6. ASSUME NEW c \in calls', c.to \in Up, c.from # q, Tells(c, q)'
      PROVE  Rumour(c, q)'
  <2>1. c \in calls /\ Tells(c, q)
    BY <1>1, <1>6 DEF Tells, Present
  <2>2. Rumour(c, q)
    BY <1>6, <2>1 DEF StoppedAge
  <2> QED
    BY <1>1, <1>2, <1>6, <2>2 DEF Rumour, T
<1>7. NoLateNews(q)'
  <2> SUFFICES ASSUME NEW n \in Nat, n \in 0 .. seq[q], LateNumber(q, n)'
               PROVE  Spread(q, n)'
    BY <1>1, <1>3 DEF NoLateNews
  <2>1. LateNumber(q, n) /\ \A p \in Up : 2 <= Turns(p, q)
    <3>1. CASE \E r \in Up : /\ Present(list'[r][i]) /\ list'[r][i].seq = n
                             /\ 4 <= Turns(r, q)'
      <4>1. PICK r \in Up : /\ Present(list'[r][i]) /\ list'[r][i].seq = n
                            /\ 4 <= Turns(r, q)'
        BY <3>1
      <4>2. 4 <= Turns(r, q) /\ Turns(r, q) \in Nat
        BY <1>2, <4>1, TurnsNear
      <4>3. \A p \in Up : 2 <= Turns(p, q)
        <5> TAKE p \in Up
        <5>1. Turns(p, q) \in Nat /\ Turns(r, q) <= Turns(p, q) + 1
          BY TurnsNear
        <5> QED
          BY <4>2, <5>1
      <4>4. CASE list'[r][i] = list[r][i]
        BY <4>1, <4>2, <4>3, <4>4 DEF LateNumber
      <4>5. CASE list'[r][i] # list[r][i]
        <5>1. m.to = r => m.from # q
          BY <1>3, <4>2, StoppedFacts DEF LastCalls
        <5>2. m.to = r /\ Tells(m, q) /\ m.data[i].seq = n
          BY <4>1, <4>5, <5>1, HandledEntry DEF Present
        <5> QED
          BY <4>2, <4>3, <5>1, <5>2 DEF LateNumber
      <4> QED
        BY <4>4, <4>5
    <3>2. CASE \E c \in calls' : /\ c.to \in Up /\ c.from # q
                                 /\ Tells(c, q)' /\ c.data[i].seq = n
                                 /\ \/ c.from \in Up /\ 3 <= Turns(c.from, q)'
                                    \/ 4 <= Turns(c.to, q)'
      <4>1. PICK c \in calls : /\ c.to \in Up /\ c.from # q
                               /\ Tells(c, q) /\ c.data[i].seq = n
                               /\ \/ c.from \in Up /\ 3 <= Turns(c.from, q)
                                  \/ 4 <= Turns(c.to, q)
        BY <1>1, <1>2, <3>2 DEF Tells, Present
      <4>2. \A p \in Up : 2 <= Turns(p, q)
        <5> TAKE p \in Up
        <5>1. Turns(p, q) \in Nat
          BY TurnsNear
        <5>2. Turns(c.to, q) \in Nat /\ Turns(c.to, q) <= Turns(p, q) + 1
          BY <4>1, TurnsNear
        <5>3. c.from \in Up => Turns(c.from, q) \in Nat /\ Turns(c.from, q) <= Turns(p, q) + 1
          BY TurnsNear
        <5> QED
          BY <4>1, <5>1, <5>2, <5>3
      <4> QED
        BY <4>1, <4>2 DEF LateNumber
    <3> QED
      BY <1>1, <3>1, <3>2 DEF LateNumber, Present
  <2>2. Spread(q, n)
    BY <2>1 DEF StoppedAge, NoLateNews
  <2> QED
    BY <2>1, <2>2, HandledKeepsSpread
<1> QED
  BY <1>4, <1>5, <1>6, <1>7

----------------------------------------------------------------------------
(* A server stops *)

\* Of a server that stopped before.
LEMMA StopKeepsOldAge ==
  ASSUME TimedShape, StoppedAge, NEW x \in Procs, StopEffect(x), NEW q \in Stopped
  PROVE  /\ LastCalls(q)'
         /\ \A p \in Up' : Aging(p, q)'
         /\ \A c \in calls' : c.to \in Up' /\ c.from # q /\ Tells(c, q)' => Rumour(c, q)'
         /\ NoLateNews(q)'
<1> DEFINE i == Id[q]
<1>1. /\ Up' \subseteq Up /\ x \notin Up' /\ x \in Up /\ q # x /\ seq' = seq /\ list' = list
      /\ q \in Procs /\ i \in Ids /\ seq[q] \in Nat
  BY ShapeFacts, UpOrStopped DEF StopEffect
<1>2. \A p \in Up' : Turns(p, q)' = Turns(p, q) /\ Turns(p, q) \in Nat
  BY <1>1, TurnsNear DEF StopEffect
<1>3. \A c \in calls' : c \in calls \/ (c.type = "KillServer" /\ c.from = x)
  BY DEF StopEffect
<1>4. \A c \in calls' : Tells(c, q)' => c \in calls /\ Tells(c, q)
  BY <1>3 DEF Tells, Present
<1>5. LastCalls(q)'
  BY <1>1, <1>2, <1>3 DEF StoppedAge, LastCalls
<1>6. ASSUME NEW p \in Up', Present(list[p][i]) PROVE Aging(p, q)'
  <2>1. p \in Up /\ p # x /\ p \in Procs /\ Aging(p, q)
    BY <1>1, UpOrStopped DEF StoppedAge
  <2>2. age'[p][i] = age[p][i]
    BY <1>1, <1>6, <2>1 DEF StopEffect, Kept, Present
  <2>3. \A c \in calls : c.to = p => c \in calls'
    BY <2>1 DEF StopEffect
  <2> QED
    BY <1>1, <1>2, <1>6, <2>1, <2>2, <2>3 DEF Aging, TellsMore, Tells, Present, T
<1>7. \A p \in Up' : Aging(p, q)'
  <2> TAKE p \in Up'
  <2>1. CASE ~Present(list[p][i])
    BY <1>1, <2>1 DEF Aging, Present
  <2> QED
    BY <1>6, <2>1
<1>8. ASSUME NEW c \in calls', c.to \in Up', c.from # q, Tells(c, q)'
      PROVE  Rumour(c, q)'
  <2>1. Rumour(c, q)
    BY <1>1, <1>4, <1>8 DEF StoppedAge
  <2> QED
    BY <1>1, <1>2, <1>8, <2>1 DEF Rumour, T
<1>9. NoLateNews(q)'
  <2> SUFFICES ASSUME NEW n \in Nat, n \in 0 .. seq[q], LateNumber(q, n)'
               PROVE  Spread(q, n)'
    BY <1>1 DEF NoLateNews
  <2>1. LateNumber(q, n)
    <3>1. CASE \E r \in Up' : /\ Present(list'[r][i]) /\ list'[r][i].seq = n
                              /\ 4 <= Turns(r, q)'
      BY <1>1, <1>2, <3>1 DEF LateNumber
    <3>2. CASE \E c \in calls' : /\ c.to \in Up' /\ c.from # q
                                 /\ Tells(c, q)' /\ c.data[i].seq = n
                                 /\ \/ c.from \in Up' /\ 3 <= Turns(c.from, q)'
                                    \/ 4 <= Turns(c.to, q)'
      <4>1. PICK c \in calls' : /\ c.to \in Up' /\ c.from # q
                                /\ Tells(c, q)' /\ c.data[i].seq = n
                                /\ \/ c.from \in Up' /\ 3 <= Turns(c.from, q)'
                                   \/ 4 <= Turns(c.to, q)'
        BY <3>2
      <4>2. c \in calls /\ Tells(c, q) /\ c.to \in Up
        BY <1>1, <1>4, <4>1
      <4>3. \/ c.from \in Up /\ 3 <= Turns(c.from, q)
            \/ 4 <= Turns(c.to, q)
        BY <1>1, <1>2, <4>1
      <4> QED
        BY <4>1, <4>2, <4>3 DEF LateNumber
    <3> QED
      BY <3>1, <3>2 DEF LateNumber, Present
  <2> QED
    BY <2>1, StopKeepsSpread DEF StoppedAge, NoLateNews
<1> QED
  BY <1>5, <1>7, <1>8, <1>9

\* Of the server that stops: all that was known of it in service.
LEMMA StopBeginsAge ==
  ASSUME TimedShape, LiveAreKnown, T >= 8, NEW x \in Procs, StopEffect(x)
  PROVE  /\ LastCalls(x)'
         /\ \A p \in Up' : Aging(p, x)'
         /\ \A c \in calls' : c.to \in Up' /\ c.from # x /\ Tells(c, x)' => Rumour(c, x)'
         /\ NoLateNews(x)'
<1> DEFINE i == Id[x]
<1>1. /\ Up' = Up \ {x} /\ x \in Up /\ seq' = seq /\ list' = list
      /\ i \in Ids /\ seq[x] \in Nat /\ T \in Nat
  BY ShapeFacts, TimeoutAssumption DEF StopEffect, T
<1>2. \A p \in Up' : Turns(p, x)' = Had(p) /\ Turns(p, x)' \in {0, 1}
  BY DEF StopEffect, Had
<1>3. LastCalls(x)'
  BY <1>2 DEF LastCalls
<1>4. ASSUME NEW p \in Up' PROVE Aging(p, x)'
  <2> DEFINE e == list[p][i]
  <2>1. p \in Up /\ p # x /\ p \in Procs /\ KnownTo(p, x) /\ age[p][i] \in Nat
    BY <1>1, UpOrStopped DEF LiveAreKnown, TimedShape
  <2>2. Present(e) /\ ~e.suspected
    BY <2>1 DEF KnownTo
  <2>3. age'[p][i] = age[p][i]
    BY <1>1, <2>1, <2>2 DEF StopEffect, Kept, Present
  <2>4. CASE age[p][i] <= HasYet(x) + Had(p)
    <3>1. age'[p][i] <= Turns(p, x)' + 1 /\ Turns(p, x)' <= age'[p][i] + 5 /\ age'[p][i] <= T
      BY <1>1, <1>2, <2>1, <2>3, <2>4 DEF HasYet
    <3> QED
      BY <1>1, <2>2, <3>1 DEF Aging, T
  <2>5. CASE /\ e.seq < seq[x] /\ age[p][i] <= HasYet(x) + Had(p) + 1
             /\ \E m \in calls : /\ m.from = x /\ m.to = p
                                 /\ Tells(m, x) /\ m.data[Id[x]].seq = seq[x]
    <3>1. Turns(p, x)' <= age'[p][i] + 5 /\ age'[p][i] <= T
      BY <1>1, <1>2, <2>1, <2>3, <2>5 DEF HasYet
    <3>2. \E m \in calls' : m.from = x /\ m.to = p /\ TellsMore(m, x, e.seq)
      BY <2>1, <2>5 DEF StopEffect, TellsMore
    <3> QED
      BY <1>1, <2>2, <3>1, <3>2 DEF Aging, T, TellsMore, Tells, Present
  <2> QED
    BY <2>1, <2>4, <2>5 DEF KnownTo
<1>5. ASSUME NEW c \in calls', c.to \in Up', c.from # x, Tells(c, x)'
      PROVE  Rumour(c, x)'
  <2>1. c \in calls /\ Tells(c, x)
    BY <1>5 DEF StopEffect, Tells, Present
  <2>2. ~c.data[i].suspected
    BY <1>1, <2>1 DEF LiveAreKnown
  <2>3. Turns(c.to, x)' <= T + 6 /\ (c.from \in Up' => Turns(c.from, x)' <= T + 5)
    BY <1>1, <1>2, <1>5
  <2> QED
    BY <2>2, <2>3 DEF Rumour, T
<1>6. NoLateNews(x)'
  <2>1. \A p \in Up' : ~(3 <= Turns(p, x)') /\ ~(4 <= Turns(p, x)')
    BY <1>2
  <2> QED
    BY <2>1 DEF NoLateNews, LateNumber
<1> QED
  BY <1>3, <1>4, <1>5, <1>6

LEMMA StopKeepsAge ==
  ASSUME TimedShape, LiveAreKnown, StoppedAge, T >= 8, NEW x \in Procs, StopEffect(x)
  PROVE  StoppedAge'
<1>1. Stopped' = Stopped \cup {x}
  BY DEF StopEffect
<1> QED
  BY <1>1, StopKeepsOldAge, StopBeginsAge DEF StoppedAge

----------------------------------------------------------------------------
(* A server has its turn *)

\* How far the others are from a server that has its turn.
LEMMA TurnsAtTurn ==
  ASSUME TimedShape, NEW x \in Up, NEW late, TurnEffect(x, late), NEW q \in Stopped
  PROVE  /\ Turns(x, q)' = Turns(x, q) + 1 /\ Turns(x, q) \in Nat
         /\ \A p \in Up : /\ Turns(p, q) \in Nat /\ Turns(p, q)' \in Nat
                          /\ Turns(x, q) <= Turns(p, q)
                          /\ Turns(p, q)' <= Turns(x, q)'
                          /\ Turns(x, q)' <= Turns(p, q)' + 1
                          /\ p # x => Turns(p, q)' = Turns(p, q)
<1>1. Turns(x, q)' = Turns(x, q) + 1 /\ Turns(x, q) \in Nat
  BY TurnsNear DEF TurnEffect
<1>2. ASSUME NEW p \in Up
      PROVE  /\ Turns(p, q) \in Nat /\ Turns(x, q) <= Turns(p, q)
             /\ Turns(p, q)' = Turns(p, q) + (IF p = x THEN 1 ELSE 0)
             /\ Turns(p, q)' <= Turns(x, q)'
  BY TurnsNear DEF TurnEffect
<1>3. ASSUME NEW p \in Up
      PROVE  /\ Turns(p, q)' \in Nat /\ Turns(x, q)' <= Turns(p, q)' + 1
             /\ p # x => Turns(p, q)' = Turns(p, q)
  BY <1>1, <1>2
<1> QED
  BY <1>1, <1>2, <1>3

\* What a new call says of a stopped server is what its sender lists.
LEMMA NewCallTells ==
  ASSUME TimedShape, NEW x \in Up, NEW late, TurnEffect(x, late),
         NEW q \in Stopped, NEW m \in calls', Tells(m, q)'
  PROVE  \/ m \in calls /\ m.from # x /\ Tells(m, q)
         \/ /\ m.from = x /\ m.data[Id[q]] = list'[x][Id[q]]
            /\ list'[x][Id[q]] # Absent
<1>1. CASE m \in calls
  BY <1>1 DEF TurnEffect, Tells, Present
<1>2. CASE m \notin calls
  <2>1. q \in Procs /\ Id[q] \in Ids /\ Id[q] # Id[x]
    BY ShapeFacts, UpOrStopped
  <2>2. m.from = x /\ m.data[Id[q]] = list'[x][Id[q]]
    BY <1>2, <2>1 DEF TurnEffect, Beat
  <2> QED
    BY <2>2 DEF Tells, Present
<1> QED
  BY <1>1, <1>2

\* By its fourth turn a server has spread what it lists of q, and what it
\* lists later has been spread.
LEMMA TurnSpreads ==
  ASSUME TimedShape, LiveAreKnown, StoppedAge, EveryoneIsTold, T >= 8,
         NEW x \in Up, NEW late \in SUBSET MayBeLate(x), Turn(x, late),
         TurnEffect(x, late), NEW q \in Stopped, NEW n \in Nat,
         Present(list'[x][Id[q]]), list'[x][Id[q]].seq = n, 3 <= Turns(x, q)'
  PROVE  Spread(q, n)'
<1> DEFINE i == Id[q]
<1>1. /\ Turns(x, q)' = Turns(x, q) + 1 /\ Turns(x, q) \in Nat
      /\ Present(list[x][i]) /\ list[x][i].seq = n /\ n \in 0 .. seq[q]
      /\ q \in Procs /\ i \in Ids /\ i # Id[x] /\ q # x
      /\ Up' = Up
  <2>1. /\ Turns(x, q)' = Turns(x, q) + 1 /\ Turns(x, q) \in Nat
    BY TurnsAtTurn
  <2>2. Present(list[x][i]) /\ list[x][i].seq = n /\ n \in 0 .. seq[q]
    BY TurnEntry
  <2>3. q \in Procs /\ i \in Ids /\ i # Id[x] /\ q # x
    BY StoppedFacts
  <2>4. Up' = Up
    BY DEF TurnEffect, Up
  <2> QED
    BY <2>1, <2>2, <2>3, <2>4
<1>2. CASE 4 <= Turns(x, q)
  <2>1. LateNumber(q, n)
    BY <1>1, <1>2 DEF LateNumber
  <2>2. Spread(q, n)
    BY <1>1, <2>1 DEF StoppedAge, NoLateNews
  <2> QED
    BY <2>2, TurnKeepsSpread
<1>3. CASE ~(4 <= Turns(x, q))
  <2> SUFFICES ASSUME NEW p \in Up PROVE Knows(p, q, n)' \/ WillKnow(p, q, n)'
    BY <1>1 DEF Spread
  <2>1. CASE p = x
    BY <2>1 DEF Knows, Present
  <2>2. CASE p # x
    <3>1. Present(list[x][Id[p]]) /\ Present(list'[x][Id[p]])
      <4>1. T >= 4
        BY TimeoutAssumption DEF T
      <4>2. list'[x][Id[p]] = list[x][Id[p]]
        BY <2>2, <4>1, LiveNotLate
      <4> QED
        BY <2>2, <4>2 DEF LiveAreKnown, KnownTo, Present
    <3>2. PICK m \in calls' : /\ m.type = "Heartbeat" /\ m.from = x /\ m.to = p
                              /\ \A j \in Ids : m.data[j] = Beat(x, j)
      BY <2>2, <3>1, AllAreTold
    <3>3. m.data[i] = list'[x][i]
      BY <1>1, <3>2 DEF Beat
    <3>4. TellsNoLess(m, q, n)'
      BY <1>1, <3>2, <3>3 DEF TellsNoLess, Tells, Present
    <3>5. m.from \in Up' /\ Turns(m.from, q)' <= 4
      BY <1>1, <1>3, <3>2
    <3> QED
      BY <1>1, <3>2, <3>4, <3>5 DEF WillKnow
  <2> QED
    BY <2>1, <2>2
<1> QED
  BY <1>2, <1>3

LEMMA TurnKeepsAge ==
  ASSUME TimedShape, LiveAreKnown, StoppedAge, EveryoneIsTold, T >= 8,
         NEW x \in Up, NEW late \in SUBSET MayBeLate(x), Turn(x, late),
         TurnEffect(x, late)
  PROVE  StoppedAge'
<1>1. Up' = Up /\ Stopped' = Stopped
  BY DEF TurnEffect, Up, Stopped
<1> SUFFICES ASSUME NEW q \in Stopped
             PROVE  /\ LastCalls(q)'
                    /\ \A p \in Up : Aging(p, q)'
                    /\ \A c \in calls' : c.to \in Up /\ c.from # q /\ Tells(c, q)' => Rumour(c, q)'
                    /\ NoLateNews(q)'
  BY <1>1 DEF StoppedAge
<1> DEFINE i == Id[q]
<1>2. /\ q \in Procs /\ i \in Ids /\ seq[q] \in Nat /\ q # x /\ seq'[q] = seq[q]
      /\ T \in Nat
  BY ShapeFacts, UpOrStopped, StoppedFacts DEF TurnEffect
<1>3. \A c \in calls : c.from # x /\ (c.to = x => c.from \in Up)
  BY DEF TurnEffect
<1>4. LastCalls(q)'
  <2> SUFFICES ASSUME NEW c \in calls', c.from = q, c.to \in Up
               PROVE  Turns(c.to, q)' <= 1
    BY <1>1 DEF LastCalls
  <2>1. c \in calls
    BY <1>2 DEF TurnEffect
  <2>2. c.to # x
    BY <1>3, <2>1, UpOrStopped
  <2> QED
    BY <2>1, <2>2, TurnsAtTurn DEF StoppedAge, LastCalls
<1>5. ASSUME NEW p \in Up, p # x PROVE Aging(p, q)'
  <2> SUFFICES ASSUME Present(list'[p][i]) PROVE Aging(p, q)'
    BY DEF Aging, Present
  <2>1. /\ p \in Procs /\ list'[p] = list[p] /\ Turns(p, q)' = Turns(p, q)
        /\ calls \subseteq calls' /\ Aging(p, q)
    <3>1. p \in Procs /\ Aging(p, q)
      BY StoppedFacts
    <3>2. Turns(p, q)' = Turns(p, q)
      BY <1>5, TurnsAtTurn
    <3> QED
      BY <1>5, <3>1, <3>2 DEF TurnEffect
  <2>2. age'[p][i] = age[p][i]
    BY <1>2, <1>5, <2>1 DEF TurnEffect, Kept, Present
  <2> QED
    BY <2>1, <2>2 DEF Aging, TellsMore, Tells, Present, T
<1>6. Aging(x, q)'
  <2> DEFINE e == list[x][i]
  <2> DEFINE f == list'[x][i]
  <2> DEFINE old == age[x][i]
  <2> DEFINE n == Turns(x, q)
  <2> SUFFICES ASSUME Present(f) PROVE Aging(x, q)'
    BY DEF Aging, Present
  <2>1. /\ n' = n + 1 /\ n \in Nat /\ old \in Nat /\ Present(e)
        /\ old <= T
        /\ ~e.suspected => n <= old + 5
        /\ e.suspected => n <= old + T + 6 /\ old + T <= n + 1
    BY TurnsAtTurn, StoppedFacts, TurnEntry DEF Aging
  <2>2. ~e.suspected => old <= n + 1
    <3>1. \A m \in calls : ~(m.from = q /\ m.to = x)
      BY <1>3, UpOrStopped
    <3> QED
      BY <2>1, <3>1, StoppedFacts DEF Aging
  <2>3. CASE ~f.suspected
    <3>1. ~e.suspected /\ old < T /\ age'[x][i] = old + 1
      BY <2>3, TurnEntry
    <3>2. age'[x][i] <= T /\ n' <= age'[x][i] + 5 /\ age'[x][i] <= n' + 1
      BY <1>2, <2>1, <2>2, <3>1
    <3> QED
      BY <2>3, <3>2 DEF Aging, T
  <2>4. CASE f.suspected /\ e.suspected
    <3>1. old < T /\ age'[x][i] = old + 1
      BY <2>4, TurnEntry
    <3>2. age'[x][i] <= T /\ n' <= age'[x][i] + T + 6 /\ age'[x][i] + T <= n' + 1
      BY <1>2, <2>1, <2>4, <3>1
    <3> QED
      BY <2>4, <3>2 DEF Aging, T
  <2>5. CASE f.suspected /\ ~e.suspected
    <3>1. T <= old + 1 /\ age'[x][i] = 0
      BY <2>5, TurnEntry
    <3>2. age'[x][i] <= T /\ n' <= age'[x][i] + T + 6 /\ age'[x][i] + T <= n' + 1
      BY <1>2, <2>1, <2>2, <2>5, <3>1
    <3> QED
      BY <2>5, <3>2 DEF Aging, T
  <2> QED
    BY <2>3, <2>4, <2>5
<1>7. \A p \in Up : Aging(p, q)'
  BY <1>5, <1>6
<1>8. ASSUME NEW c \in calls', c.to \in Up, c.from # q, Tells(c, q)'
      PROVE  Rumour(c, q)'
  <2>1. CASE c \in calls /\ c.from # x /\ Tells(c, q)
    <3>1. Rumour(c, q)
      BY <1>8, <2>1 DEF StoppedAge
    <3>2. /\ Turns(c.to, q) \in Nat /\ Turns(c.to, q)' \in Nat
          /\ Turns(c.to, q) <= Turns(c.to, q)'
      BY <1>8, TurnsAtTurn
    <3>3. c.from \in Up => /\ Turns(c.from, q)' = Turns(c.from, q)
                           /\ Turns(c.from, q) \in Nat
                           /\ Turns(x, q)' <= Turns(c.from, q)' + 1
      BY <2>1, TurnsAtTurn
    <3>4. CASE c.data[i].suspected
      <4>1. T <= Turns(c.to, q)' + 2
        BY <1>2, <3>1, <3>2, <3>4 DEF Rumour
      <4> QED
        BY <3>4, <4>1 DEF Rumour, T
    <3>5. CASE ~c.data[i].suspected
      <4>1. Turns(c.to, q) <= T + 6 /\ (c.from \in Up => Turns(c.from, q)' <= T + 5)
        BY <3>1, <3>3, <3>5 DEF Rumour
      <4>2. Turns(c.to, q)' <= T + 6
        <5>1. CASE c.to = x
          <6>1. Turns(x, q)' \in Nat
            BY TurnsAtTurn
          <6>2. Turns(x, q)' <= T + 6
            BY <1>2, <1>3, <2>1, <3>3, <4>1, <5>1, <6>1
          <6> QED
            BY <5>1, <6>2
        <5>2. CASE c.to # x
          BY <1>8, <4>1, <5>2, TurnsAtTurn
        <5> QED
          BY <5>1, <5>2
      <4> QED
        BY <1>1, <3>5, <4>1, <4>2 DEF Rumour, T
    <3> QED
      BY <3>4, <3>5
  <2>2. CASE /\ c.from = x /\ c.data[i] = list'[x][i] /\ list'[x][i] # Absent
    <3>1. /\ Turns(c.to, q)' \in Nat /\ Turns(x, q)' \in Nat
          /\ Turns(c.to, q)' <= Turns(x, q)' /\ Turns(x, q)' <= Turns(c.to, q)' + 1
      BY <1>8, TurnsAtTurn
    <3>2. /\ age'[x][i] \in Nat /\ age'[x][i] <= T
          /\ ~c.data[i].suspected => Turns(x, q)' <= age'[x][i] + 5
          /\ c.data[i].suspected => age'[x][i] + T <= Turns(x, q)' + 1
      <4>1. age'[x][i] \in Nat
        BY <1>2, StoppedFacts DEF TurnEffect
      <4> QED
        BY <1>6, <2>2, <4>1 DEF Aging, Present, T
    <3>3. CASE c.data[i].suspected
      <4>1. T <= Turns(c.to, q)' + 2
        BY <1>2, <3>1, <3>2, <3>3
      <4> QED
        BY <3>3, <4>1 DEF Rumour, T
    <3>4. CASE ~c.data[i].suspected
      <4>1. Turns(c.to, q)' <= T + 6 /\ Turns(c.from, q)' <= T + 5
        BY <1>2, <2>2, <3>1, <3>2, <3>4
      <4> QED
        BY <3>4, <4>1 DEF Rumour, T
    <3> QED
      BY <3>3, <3>4
  <2> QED
    BY <1>8, <2>1, <2>2, NewCallTells
<1>9. NoLateNews(q)'
  <2> SUFFICES ASSUME NEW n \in Nat, n \in 0 .. seq[q], LateNumber(q, n)'
               PROVE  Spread(q, n)'
    BY <1>2 DEF NoLateNews
  <2>1. LateNumber(q, n) => Spread(q, n)'
    BY TurnKeepsSpread DEF StoppedAge, NoLateNews
  <2>2. Present(list'[x][i]) /\ list'[x][i].seq = n /\ 3 <= Turns(x, q)' => Spread(q, n)'
    BY TurnSpreads
  <2>3. ASSUME NEW r \in Up, Present(list'[r][i]), list'[r][i].seq = n, 4 <= Turns(r, q)'
        PROVE  Spread(q, n)'
    <3>1. CASE r = x
      <4>1. 3 <= Turns(x, q)'
        BY <2>3, <3>1, TurnsAtTurn
      <4> QED
        BY <2>2, <2>3, <3>1, <4>1
    <3>2. CASE r # x
      <4>1. list'[r] = list[r] /\ Turns(r, q)' = Turns(r, q)
        <5>1. r \in Procs /\ Turns(r, q)' = Turns(r, q)
          BY <3>2, TurnsAtTurn, UpOrStopped
        <5> QED
          BY <3>2, <5>1 DEF TurnEffect
      <4> QED
        BY <2>1, <2>3, <4>1 DEF LateNumber
    <3> QED
      BY <3>1, <3>2
  <2>4. ASSUME NEW c \in calls', c.to \in Up, c.from # q, Tells(c, q)', c.data[i].seq = n,
               \/ c.from \in Up /\ 3 <= Turns(c.from, q)'
               \/ 4 <= Turns(c.to, q)'
        PROVE  Spread(q, n)'
    <3>1. CASE c \in calls /\ c.from # x /\ Tells(c, q)
      <4>1. \/ c.from \in Up /\ 3 <= Turns(c.from, q)
            \/ 4 <= Turns(c.to, q)
        <5>1. CASE c.from \in Up /\ 3 <= Turns(c.from, q)'
          BY <3>1, <5>1, TurnsAtTurn
        <5>2. CASE 4 <= Turns(c.to, q)' /\ c.to # x
          BY <2>4, <5>2, TurnsAtTurn
        <5>3. CASE 4 <= Turns(c.to, q)' /\ c.to = x
          <6>1. c.from \in Up
            BY <1>3, <3>1, <5>3
          <6>2. Turns(c.from, q) \in Nat /\ Turns(x, q) <= Turns(c.from, q)
            BY <6>1, TurnsAtTurn
          <6>3. 3 <= Turns(x, q) /\ Turns(x, q) \in Nat
            BY <5>3, TurnsAtTurn
          <6> QED
            BY <6>1, <6>2, <6>3
        <5> QED
          BY <2>4, <5>1, <5>2, <5>3
      <4> QED
        BY <2>1, <2>4, <3>1, <4>1 DEF LateNumber
    <3>2. CASE /\ c.from = x /\ c.data[i] = list'[x][i] /\ list'[x][i] # Absent
      <4>1. 3 <= Turns(x, q)'
        <5>1. Turns(c.to, q)' \in Nat /\ Turns(c.to, q)' <= Turns(x, q)' /\ Turns(x, q)' \in Nat
          BY <2>4, TurnsAtTurn
        <5> QED
          BY <2>4, <3>2, <5>1
      <4> QED
        BY <2>2, <2>4, <3>2, <4>1 DEF Present
    <3> QED
      BY <2>4, <3>1, <3>2, NewCallTells
  <2> QED
    BY <1>1, <2>3, <2>4 DEF LateNumber, Present
<1> QED
  BY <1>4, <1>7, <1>8, <1>9

----------------------------------------------------------------------------
(* The deadline *)

LEMMA DetectionStays ==
  ASSUME DetectionInv, EveryoneIsTold, T >= 8, [TimedNext]_timedVars
  PROVE  DetectionInv'
<1> USE DEF DetectionInv
<1>1. CASE TimedNext
  <2>1. T >= 4 /\ Timing
    BY <1>1, TimedStep, TimeoutAssumption DEF T
  <2>2. TimedShape' /\ LiveAreKnown'
    BY <1>1, <2>1, ShapeStays, LiveStays
  <2>3. ASSUME NEW m \in calls, HeartbeatNotification(m) \/ KillServerNotification(m)
        PROVE  StoppedAge'
    BY <2>1, <2>3, HandledDoes, HandledKeepsAge DEF TimedShape
  <2>4. ASSUME NEW x \in Procs, Stop(x) PROVE StoppedAge'
    BY <2>1, <2>4, StopDoes, StopKeepsAge
  <2>5. ASSUME NEW x \in Procs, NEW late \in SUBSET MayBeLate(x), Turn(x, late)
        PROVE  StoppedAge'
    <3>1. TurnEffect(x, late)
      BY <2>1, <2>5, TurnDoes
    <3>2. x \in Up
      BY <3>1 DEF TurnEffect
    <3> QED
      BY <2>1, <2>5, <3>1, <3>2, TurnKeepsAge
  <2> QED
    BY <1>1, <2>2, <2>3, <2>4, <2>5, TimedStep
<1>2. CASE UNCHANGED timedVars
  <2>1. StoppedAge'
    BY <1>2 DEF timedVars, vars, StoppedAge, Stopped, Up, LastCalls, Aging, Rumour, NoLateNews,
                LateNumber, Spread, Knows, WillKnow, Turns, Had, Tells, TellsMore,
                TellsNoLess, Present, T, Gone
  <2> QED
    BY <1>2, <2>1, ShapeUnchanged, LiveUnchanged
<1> QED
  BY <1>1, <1>2

\* What servers list of one that stopped is aged as startHeartbeats and the
\* heartbeats of rpc.go age it, whichever calls cross.
THEOREM DetectionInvariant ==
  ASSUME EveryoneIsTold, GOSSIP_HEARTBEAT_TIMEOUT >= 8
  PROVE  TimedSpec => []DetectionInv
<1>1. TimedInit => DetectionInv
  <2> SUFFICES ASSUME TimedInit PROVE DetectionInv
    OBVIOUS
  <2>1. Stopped = {}
    BY DEF TimedInit, Joined, Stopped
  <2> QED
    BY <2>1, InitShape, InitLive DEF DetectionInv, StoppedAge
<1>2. DetectionInv /\ [TimedNext]_timedVars => DetectionInv'
  BY DetectionStays DEF T
<1> QED
  BY <1>1, <1>2, PTL DEF TimedSpec

\* No server lists one that stopped two timeouts and six intervals ago: its
\* entry is suspected, then dropped, and no gossip brings it back.
THEOREM ForgottenTheorem ==
  ASSUME EveryoneIsTold, GOSSIP_HEARTBEAT_TIMEOUT >= 8,
         Deadline \in Nat, Deadline >= 2 * GOSSIP_HEARTBEAT_TIMEOUT + 6
  PROVE  TimedSpec => []StoppedAreForgotten
<1>1. DetectionInv => StoppedAreForgotten
  <2> SUFFICES ASSUME DetectionInv, NEW p \in Up, NEW q \in Stopped,
                      since[q] > Deadline, Present(list[p][Id[q]])
               PROVE  FALSE
    BY DEF StoppedAreForgotten, Present
  <2> USE DEF DetectionInv
  <2>1. Aging(p, q) /\ T \in Nat /\ age[p][Id[q]] \in Nat
    BY StoppedFacts
  <2>2. since[q] \in Nat /\ Turns(p, q) \in Nat /\ since[q] <= Turns(p, q)
    BY UpOrStopped, TurnsNear DEF TimedShape, Turns, Had
  <2>3. Turns(p, q) <= 2 * T + 6
    BY <2>1, <2>2, TimeoutAssumption DEF Aging, T
  <2> QED
    BY <2>2, <2>3, TimeoutAssumption DEF T
<1> QED
  BY <1>1, DetectionInvariant, PTL
=============================================================================
