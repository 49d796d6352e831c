------------------------ MODULE MembershipTimedProps ------------------------
(***************************************************************************)
(* What holds of Membership once heartbeats are in time: whom a server     *)
(* suspects, and by when it has forgotten a server that stopped.           *)
(***************************************************************************)
EXTENDS MembershipTimed, MembershipProps

\* README, "Membership Protocol": a member that is silent for the timeout, and
\* once more as a suspect, is removed; nor is it brought back over and over,
\* which suspicion is there to avoid.  By the Deadline no server lists a killed
\* or crashed one, whatever it removed, heard of and added again before, by
\* notices and gossip in any order.
StoppedAreForgotten ==
  \A p \in Up : \A q \in Stopped :
    since[q] > Deadline =>
      list[p][Id[q]] = Absent \/ list[p][Id[q]].addr # q

\* No server in service is under suspicion: with gossip in time the timeout
\* tells a server that has stopped from one that is between two turns.
SuspectsAreDown ==
  \A p \in Up, i \in Ids :
    list[p][i] # Absent /\ list[p][i].suspected => list[p][i].addr \notin Up

----------------------------------------------------------------------------
(* The invariant they follow from.  All that is known of a server is one   *)
(* entry per list and per call, which ages by the turns of its holder.     *)

T == GOSSIP_HEARTBEAT_TIMEOUT

\* With this fanout a turn reaches every server that is listed; in the code it
\* is 2, for clusters of up to three servers.
EveryoneIsTold == GOSSIP_HEARTBEAT_FANOUT + 1 >= Cardinality(Ids)

Had(p)    == IF p \in turn THEN 1 ELSE 0
HasYet(p) == IF p \in turn THEN 0 ELSE 1

\* What the run of an interval and the calls have of shape.
TimedShape ==
  /\ MembersInv
  /\ turn \subseteq Up
  /\ Up \subseteq turn => Up = {}
  /\ age \in [Procs -> [Ids -> Nat]]
  /\ since \in [Procs -> Nat]
  /\ \A p \in Procs : p \in Up \/ p \in Stopped
  /\ \A p \in Procs : blacklist[p] = {}
  /\ \A p \in Up : since[p] = 0
  /\ \A m \in calls : \/ m.type = "Heartbeat"
                      \/ m.type = "KillServer" /\ m.from \in Stopped

\* The call m tells of q more than number n, or at least number n.
Tells(m, q)          == m.type = "Heartbeat" /\ Present(m.data[Id[q]])
TellsMore(m, q, n)   == Tells(m, q) /\ n < m.data[Id[q]].seq
TellsNoLess(m, q, n) == Tells(m, q) /\ n <= m.data[Id[q]].seq

\* p knows of the live q its present number, or that is under way to p; its
\* entry has aged by at most the turns between two of q's.
KnownTo(p, q) ==
  LET e == list[p][Id[q]]
      turns == HasYet(q) + Had(p)
  IN  /\ Present(e) /\ ~e.suspected
      /\ \/ e.seq = seq[q] /\ age[p][Id[q]] <= turns
         \/ /\ e.seq < seq[q] /\ age[p][Id[q]] <= turns + 1
            /\ \E m \in calls : /\ m.from = q /\ m.to = p
                                /\ Tells(m, q) /\ m.data[Id[q]].seq = seq[q]

LiveAreKnown ==
  /\ \A p, q \in Up : p # q => KnownTo(p, q)
  /\ \A q \in Up : \A m \in calls : Tells(m, q) => ~m.data[Id[q]].suspected

----------------------------------------------------------------------------
(* After q has stopped *)

\* The turns that p has had by the interval's end, counting the one q stopped in.
Turns(p, q) == since[q] + Had(p)

\* q's last calls are handled in the turn that q did not have.
LastCalls(q) == \A m \in calls : m.from = q /\ m.to \in Up => Turns(m.to, q) <= 1

\* The turns after which it is too late to be added again.
Gone == 2 * T - 1

\* What p makes of q's silence: it goes unsuspected, then suspected, for the
\* timeout each, and the last news came within six turns.
Aging(p, q) ==
  LET e == list[p][Id[q]]
      old == age[p][Id[q]]
      n == Turns(p, q)
  IN  Present(e) =>
        /\ old <= T
        /\ ~e.suspected =>
             /\ n <= old + 5
             /\ \/ old <= n + 1
                \/ \E m \in calls : /\ m.from = q /\ m.to = p
                                    /\ TellsMore(m, q, e.seq)
        /\ e.suspected => n <= old + T + 6 /\ old + T <= n + 1

\* A call without suspicion leaves before suspicion; one with it, after.
Rumour(m, q) ==
  IF m.data[Id[q]].suspected
  THEN T <= Turns(m.to, q) + 2
  ELSE /\ Turns(m.to, q) <= T + 6
       /\ m.from \in Up => Turns(m.from, q) <= T + 5

\* Every server has heard number n of q, or will from a call of its first five
\* turns; those that do not list q have dropped it for good.
Knows(p, q, n) ==
  IF Present(list[p][Id[q]]) THEN n <= list[p][Id[q]].seq ELSE Gone <= Turns(p, q)
WillKnow(p, q, n) ==
  \E m \in calls :
    /\ m.to = p /\ m.from # q /\ TellsNoLess(m, q, n)
    /\ IF m.from \in Up THEN Turns(m.from, q) <= 4 ELSE Turns(p, q) <= 5
Spread(q, n) == \A p \in Up : Knows(p, q, n) \/ WillKnow(p, q, n)

\* What is known of q after four turns is no news to anybody.
LateNumber(q, n) ==
  \/ \E r \in Up : /\ Present(list[r][Id[q]]) /\ list[r][Id[q]].seq = n
                   /\ 4 <= Turns(r, q)
  \/ \E m \in calls : /\ m.to \in Up /\ m.from # q
                      /\ Tells(m, q) /\ m.data[Id[q]].seq = n
                      /\ \/ m.from \in Up /\ 3 <= Turns(m.from, q)
                         \/ 4 <= Turns(m.to, q)
NoLateNews(q) == \A n \in 0 .. seq[q] : LateNumber(q, n) => Spread(q, n)

StoppedAge ==
  \A q \in Stopped :
    /\ LastCalls(q)
    /\ \A p \in Up : Aging(p, q)
    /\ \A m \in calls : m.to \in Up /\ m.from # q /\ Tells(m, q) => Rumour(m, q)
    /\ NoLateNews(q)

\* What is known of a server that stopped ages, and is not renewed for long: the
\* entries that startHeartbeats times out against those that gossip of them.
DetectionInv == TimedShape /\ LiveAreKnown /\ StoppedAge
=============================================================================
