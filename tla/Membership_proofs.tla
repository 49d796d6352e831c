------------------------- MODULE Membership_proofs -------------------------
(***************************************************************************)
(* Proofs about Membership, for any processes and ids, and with timeouts   *)
(* at any moment.  MembersInv is inductive; that entries change by news    *)
(* follows from it step by step.                                           *)
(***************************************************************************)
EXTENDS MembershipProps, TLAPS

\* An entry for i that MembersInv allows, given the numbers reached.
Good(i, e, reached) ==
  e # Absent => /\ e \in Entry
                /\ Id[e.addr] = i
                /\ \E q \in Procs : Id[q] = i /\ e.seq <= reached[q]

\* MembersInv, entry by entry: entries are good in lists and in calls.
EntryWise ==
  /\ TypeOK /\ NoSelf
  /\ \A p \in Procs, i \in Ids : Good(i, list[p][i], seq)
  /\ \A m \in calls : \A i \in Ids : Good(i, m.data[i], seq)

----------------------------------------------------------------------------
(* What the helpers make of good entries *)

\* Numbers that have grown since keep an entry good.
LEMMA GoodStays ==
  ASSUME NEW i \in Ids, NEW e,
         NEW old \in [Procs -> Nat], NEW new \in [Procs -> Nat],
         \A q \in Procs : old[q] <= new[q], Good(i, e, old)
  PROVE  Good(i, e, new)
<1>1. CASE e = Absent
  BY <1>1 DEF Good
<1>2. CASE e # Absent
  <2>1. e \in Entry /\ Id[e.addr] = i
    BY <1>2 DEF Good
  <2>2. PICK q \in Procs : Id[q] = i /\ e.seq <= old[q]
    BY <1>2 DEF Good
  <2>3. e.seq <= new[q]
    BY <2>1, <2>2 DEF Entry
  <2> QED
    BY <2>1, <2>2, <2>3 DEF Good
<1> QED
  BY <1>1, <1>2

\* A process introduces itself with a good entry.
LEMMA OwnIsGood ==
  ASSUME NEW p \in Procs, NEW n \in Nat, NEW reached \in [Procs -> Nat],
         n <= reached[p]
  PROVE  Good(Id[p], [addr |-> p, seq |-> n, suspected |-> FALSE], reached)
BY DEF Good, Entry

\* What is heard leaves a good entry, and never the server itself.
LEMMA HeardIsGood ==
  ASSUME NEW p \in Procs, NEW i \in Ids, NEW new,
         Good(i, list[p][i], seq), Good(i, new, seq)
  PROVE  /\ Good(i, Heard(p, i, new), seq)
         /\ i = Id[p] => Heard(p, i, new) = list[p][i]
<1> DEFINE old == list[p][i]
<1>1. CASE i = Id[p] \/ new = Absent
  <2>1. Heard(p, i, new) = old
    BY <1>1 DEF Heard
  <2> QED
    BY <2>1
<1>2. CASE i # Id[p] /\ new # Absent /\ old = Absent
  <2>1. Heard(p, i, new) \in {Absent, new}
    BY <1>2 DEF Heard
  <2> QED
    BY <1>2, <2>1 DEF Good
<1>3. CASE i # Id[p] /\ new # Absent /\ old # Absent
  <2>1. old \in Entry /\ new \in Entry
    BY <1>3 DEF Good
  <2>2. CASE old.seq >= new.seq
    <3>1. Heard(p, i, new) = old
      BY <1>3, <2>2 DEF Heard
    <3> QED
      BY <1>3, <3>1
  <2>3. CASE ~(old.seq >= new.seq)
    <3>1. Heard(p, i, new) = Refreshed(old, new.seq)
      BY <1>3, <2>3 DEF Heard
    <3>2. /\ Heard(p, i, new) \in Entry
          /\ Heard(p, i, new).addr = old.addr
          /\ Heard(p, i, new).seq = new.seq
      BY <2>1, <3>1 DEF Entry, Refreshed
    <3> QED
      BY <1>3, <3>2 DEF Good
  <2> QED
    BY <2>2, <2>3
<1> QED
  BY <1>1, <1>2, <1>3

\* Timeouts leave an entry good, and an absent one absent.
LEMMA TimeoutsKeepGood ==
  ASSUME NEW p \in Procs, NEW late \in SUBSET Listed(p), NEW i \in Ids,
         Good(i, list[p][i], seq)
  PROVE  /\ Good(i, AfterTimeouts(p, late)[i], seq)
         /\ list[p][i] = Absent => AfterTimeouts(p, late)[i] = Absent
<1> DEFINE e == list[p][i]
<1>1. CASE i \notin late
  <2>1. AfterTimeouts(p, late)[i] = e
    BY <1>1 DEF AfterTimeouts
  <2> QED
    BY <2>1
<1>2. CASE i \in late
  <2>1. e # Absent /\ e \in Entry
    BY <1>2 DEF Listed, Good
  <2>2. AfterTimeouts(p, late)[i] \in {Absent, Suspect(e)}
    BY <1>2 DEF AfterTimeouts
  <2>3. DEFINE s == Suspect(e)
  <2>4. s \in Entry /\ s.addr = e.addr /\ s.seq = e.seq
    BY <2>1 DEF Entry, Suspect
  <2>5. Good(i, s, seq)
    BY <2>1, <2>4 DEF Good
  <2>6. Good(i, Absent, seq)
    BY DEF Good
  <2> QED
    BY <2>1, <2>2, <2>5, <2>6
<1> QED
  BY <1>1, <1>2

----------------------------------------------------------------------------
(* The invariant, entry by entry *)

\* EntryWise is MembersInv in the form the steps are proved in.
LEMMA WiseIsMembersInv == MembersInv <=> EntryWise
<1>1. ASSUME MembersInv PROVE EntryWise
  <2>1. TypeOK /\ NoSelf
    BY <1>1 DEF MembersInv
  <2>2. ASSUME NEW i \in Ids, NEW e \in Entries(i), e \in Entry \cup {Absent}
        PROVE  Good(i, e, seq)
    <3>1. e # Absent => Id[e.addr] = i /\ \E q \in Procs : Id[q] = i /\ e.seq <= seq[q]
      BY <1>1 DEF MembersInv, RightAddress, NewsIsOld, Present
    <3> QED
      BY <2>2, <3>1 DEF Good
  <2>3. ASSUME NEW p \in Procs, NEW i \in Ids PROVE Good(i, list[p][i], seq)
    <3>1. list[p][i] \in Entries(i)
      BY DEF Entries
    <3>2. list[p][i] \in Entry \cup {Absent}
      BY <2>1 DEF TypeOK, EntryMap
    <3> QED
      BY <2>2, <3>1, <3>2
  <2>4. ASSUME NEW m \in calls, NEW i \in Ids PROVE Good(i, m.data[i], seq)
    <3>1. m.data[i] \in Entries(i)
      BY DEF Entries
    <3>2. m.data[i] \in Entry \cup {Absent}
      BY <2>1 DEF TypeOK, Call, EntryMap
    <3> QED
      BY <2>2, <3>1, <3>2
  <2> QED
    BY <2>1, <2>3, <2>4 DEF EntryWise
<1>2. ASSUME EntryWise PROVE MembersInv
  <2>1. ASSUME NEW i \in Ids, NEW e \in Entries(i) PROVE Good(i, e, seq)
    BY <1>2 DEF EntryWise, Entries
  <2>2. RightAddress /\ NewsIsOld
    BY <2>1 DEF RightAddress, NewsIsOld, Present, Good
  <2> QED
    BY <1>2, <2>2 DEF EntryWise, MembersInv
<1> QED
  BY <1>1, <1>2

LEMMA InitWise == Init => EntryWise
<1> SUFFICES ASSUME Init PROVE EntryWise
  OBVIOUS
<1>1. NoEntries \in EntryMap /\ \A i \in Ids : NoEntries[i] = Absent
  BY DEF NoEntries, EntryMap
<1>2. TypeOK
  BY <1>1 DEF Init, TypeOK
<1>3. NoSelf
  BY <1>1, IdAssumption DEF Init, NoSelf
<1>4. \A p \in Procs, i \in Ids : Good(i, list[p][i], seq)
  BY <1>1 DEF Init, Good
<1> QED
  BY <1>2, <1>3, <1>4 DEF Init, EntryWise

\* The numbers a process carries when it is introduced are its own.
LEMMA NoticesGood ==
  ASSUME EntryWise, NEW p \in Procs, NEW q \in Procs, NEW e \in Entry,
         Good(Id[e.addr], e, seq)
  PROVE  /\ Notice(p, q, e) \in Call
         /\ \A i \in Ids : Good(i, Notice(p, q, e).data[i], seq)
<1> DEFINE d == [NoEntries EXCEPT ![Id[e.addr]] = e]
<1>1. Id[e.addr] \in Ids
  BY IdAssumption DEF Entry
<1>2. d \in EntryMap
  BY <1>1 DEF EntryMap, NoEntries
<1>3. \A i \in Ids : d[i] = IF i = Id[e.addr] THEN e ELSE Absent
  BY <1>1 DEF NoEntries
<1>4. Notice(p, q, e).data = d /\ Notice(p, q, e) \in Call
  BY <1>2 DEF Notice, Call
<1>5. \A i \in Ids : Good(i, Absent, seq)
  BY DEF Good
<1> QED
  BY <1>3, <1>4, <1>5

----------------------------------------------------------------------------
(* Each action keeps it *)

LEMMA StartKeeps ==
  ASSUME EntryWise, NEW p \in Procs, Start(p) PROVE EntryWise'
<1>1. TypeOK'
  BY DEF EntryWise, TypeOK, Start
<1>2. NoSelf'
  BY DEF EntryWise, NoSelf, TypeOK, Start
<1>3. \A x \in Procs, i \in Ids : Good(i, list'[x][i], seq')
  BY DEF EntryWise, Start
<1>4. \A m \in calls' : \A i \in Ids : Good(i, m.data[i], seq')
  BY DEF EntryWise, Start
<1> QED
  BY <1>1, <1>2, <1>3, <1>4 DEF EntryWise

LEMMA JoinKeeps ==
  ASSUME EntryWise, NEW p \in Procs, NEW q \in Procs, JoinClusterAsServer(p, q)
  PROVE  EntryWise'
<1> DEFINE n == Newcomer(p)
<1> DEFINE told == {Notice(q, r, n) : r \in Reachable(q)}
<1> DEFINE answer == [list[q] EXCEPT ![Id[q]] = OwnEntry(q)]
<1> USE DEF EntryWise
<1>1. /\ q \in asks[p] /\ asks' = [asks EXCEPT ![p] = @ \ {q}]
      /\ UNCHANGED <<phase, nodes, seq, blacklist>>
      /\ Id[p] \in Ids /\ Id[q] \in Ids
  BY IdAssumption DEF JoinClusterAsServer
<1>2. asks' \in [Procs -> SUBSET Procs]
  BY <1>1 DEF TypeOK
<1>3. CASE UNCHANGED <<list, calls>>
  <2>1. TypeOK' /\ NoSelf'
    BY <1>1, <1>2, <1>3 DEF TypeOK, NoSelf
  <2> QED
    BY <1>1, <1>2, <1>3, <2>1
<1>4. CASE /\ list[q][Id[p]] = Absent /\ Id[q] # Id[p]
           /\ list' = [list EXCEPT ![q][Id[p]] = n,
                ![p] = [i \in Ids |-> IF @[i] = Absent THEN answer[i] ELSE @[i]]]
           /\ calls' = calls \cup told
  <2>0. p # q
    BY <1>4
  <2>1. n \in Entry /\ n.addr = p /\ Good(Id[p], n, seq)
    <3>1. seq \in [Procs -> Nat] /\ 1 <= seq[p]
      BY DEF TypeOK
    <3> QED
      BY <3>1, OwnIsGood DEF Newcomer, Entry
  <2>2. Good(Id[q], OwnEntry(q), seq) /\ OwnEntry(q) \in Entry
    <3>1. seq \in [Procs -> Nat] /\ seq[q] \in Nat /\ seq[q] <= seq[q]
      BY DEF TypeOK
    <3> QED
      BY <3>1, OwnIsGood DEF OwnEntry, Entry
  <2>3. ASSUME NEW x \in Procs
        PROVE  list'[x] = IF x = p THEN [i \in Ids |-> IF list[p][i] = Absent
                                                 THEN answer[i] ELSE list[p][i]]
                          ELSE IF x = q THEN [list[q] EXCEPT ![Id[p]] = n]
                          ELSE list[x]
    BY <1>1, <1>4, <2>0 DEF TypeOK
  <2>4. ASSUME NEW i \in Ids
        PROVE  answer[i] = IF i = Id[q] THEN OwnEntry(q) ELSE list[q][i]
    BY <1>1 DEF TypeOK, EntryMap
  <2>5. answer \in EntryMap
    BY <2>2 DEF TypeOK, EntryMap
  <2>6. list' \in [Procs -> EntryMap]
    <3>1. ASSUME NEW x \in Procs PROVE list'[x] \in EntryMap
      <4> HIDE DEF answer, n
      <4>1. list[p] \in EntryMap /\ list[q] \in EntryMap /\ list[x] \in EntryMap
        BY DEF TypeOK
      <4>2. CASE x = p
        BY <2>3, <2>5, <4>1, <4>2 DEF EntryMap
      <4>3. CASE x = q
        BY <1>1, <2>0, <2>1, <2>3, <4>1, <4>3 DEF EntryMap
      <4>4. CASE x # p /\ x # q
        BY <2>3, <4>1, <4>4
      <4> QED
        BY <4>2, <4>3, <4>4
    <3>2. list' = [x \in Procs |-> list'[x]]
      BY <1>4 DEF TypeOK
    <3> QED
      BY <3>1, <3>2
  <2>7. NoSelf'
    <3>1. ASSUME NEW x \in Procs PROVE list'[x][Id[x]] = Absent
      <4>1. CASE x = p
        <5> HIDE DEF answer
        <5>1. answer[Id[p]] = Absent
          BY <1>1, <1>4, <2>4
        <5>2. list'[p][Id[p]] \in {answer[Id[p]], Absent}
          BY <1>1, <2>3 DEF NoSelf
        <5> QED
          BY <4>1, <5>1, <5>2
      <4>2. CASE x = q
        BY <1>1, <1>4, <2>0, <2>3, <4>2 DEF NoSelf, TypeOK, EntryMap
      <4>3. CASE x # p /\ x # q
        BY <2>3, <4>3 DEF NoSelf
      <4> QED
        BY <4>1, <4>2, <4>3
    <3> QED
      BY <3>1 DEF NoSelf
  <2>8. ASSUME NEW x \in Procs, NEW i \in Ids PROVE Good(i, list'[x][i], seq)
    <3>1. CASE x = p
      BY <2>2, <2>3, <2>4, <3>1
    <3>2. CASE x = q
      <4>1. list'[x][i] = IF i = Id[p] THEN n ELSE list[q][i]
        BY <1>1, <2>0, <2>3, <3>2 DEF TypeOK, EntryMap
      <4> QED
        BY <2>1, <4>1
    <3>3. CASE x # p /\ x # q
      BY <2>3, <3>3
    <3> QED
      BY <3>1, <3>2, <3>3
  <2>9. ASSUME NEW m \in told
        PROVE  m \in Call /\ \A i \in Ids : Good(i, m.data[i], seq)
    <3>1. PICK r \in Reachable(q) : m = Notice(q, r, n)
      OBVIOUS
    <3>2. r \in Procs
      BY <3>1 DEF Reachable, Listed, TypeOK, EntryMap, Entry
    <3> QED
      BY <2>1, <3>1, <3>2, NoticesGood
  <2>10. TypeOK'
    BY <1>1, <1>2, <1>4, <2>6, <2>9 DEF TypeOK
  <2>11. \A m \in calls' : \A i \in Ids : Good(i, m.data[i], seq)
    BY <1>4, <2>9
  <2> QED
    BY <1>1, <1>2, <2>7, <2>8, <2>10, <2>11
<1> QED
  BY <1>3, <1>4 DEF JoinClusterAsServer

\* Listening, giving up, crashing and breaking a link touch no entry.
LEMMA NoEntryTouched ==
  ASSUME EntryWise, UNCHANGED <<list, seq, asks>>, calls' \in SUBSET calls, TypeOK'
  PROVE  EntryWise'
BY DEF EntryWise, NoSelf

\* A call handled: the receiver puts fresh in the place of its list.
LEMMA HandledKeeps ==
  ASSUME EntryWise, NEW m \in calls, NEW fresh \in [Ids -> Entry \cup {Absent}],
         \A i \in Ids : Good(i, fresh[i], seq),
         fresh[Id[m.to]] = Absent,
         list' = [list EXCEPT ![m.to] = fresh],
         calls' = calls \ {m},
         UNCHANGED <<phase, nodes, asks, seq, blacklist>>
  PROVE  EntryWise'
<1> USE DEF EntryWise
<1>1. m.to \in Procs
  BY DEF TypeOK, Call
<1>2. \A x \in Procs : list'[x] = IF x = m.to THEN fresh ELSE list[x]
  BY DEF TypeOK
<1>3. TypeOK'
  BY <1>1 DEF TypeOK, EntryMap
<1>4. NoSelf'
  BY <1>2 DEF NoSelf
<1>5. \A x \in Procs, i \in Ids : Good(i, list'[x][i], seq)
  BY <1>2
<1> QED
  BY <1>3, <1>4, <1>5

LEMMA NewServerKeeps ==
  ASSUME EntryWise, NEW m \in calls, NewServerNotification(m) PROVE EntryWise'
<1> USE DEF EntryWise
<1> DEFINE t == m.to
<1> DEFINE fresh == [i \in Ids |-> IF list[t][i] = Absent /\ i # Id[t]
                                  THEN m.data[i] ELSE list[t][i]]
<1>1. t \in Procs /\ Id[t] \in Ids /\ m.data \in EntryMap /\ list[t] \in EntryMap
  BY IdAssumption DEF TypeOK, Call
<1>2. fresh \in [Ids -> Entry \cup {Absent}]
  BY <1>1 DEF EntryMap
<1>3. \A i \in Ids : Good(i, fresh[i], seq)
  BY <1>1
<1>4. fresh[Id[t]] = Absent
  BY <1>1 DEF NoSelf
<1>5. /\ list' = [list EXCEPT ![t] = fresh]
      /\ calls' = calls \ {m}
      /\ UNCHANGED <<phase, nodes, asks, seq, blacklist>>
  BY <1>1 DEF NewServerNotification, TypeOK
<1> HIDE DEF fresh, EntryWise
<1> QED
  BY <1>2, <1>3, <1>4, <1>5, HandledKeeps

LEMMA HeartbeatNotificationKeeps ==
  ASSUME EntryWise, NEW m \in calls, HeartbeatNotification(m) PROVE EntryWise'
<1> USE DEF EntryWise
<1> DEFINE t == m.to
<1> DEFINE fresh == [i \in Ids |-> Heard(t, i, m.data[i])]
<1>1. t \in Procs /\ Id[t] \in Ids
  BY IdAssumption DEF TypeOK, Call
<1>2. \A i \in Ids : /\ Good(i, Heard(t, i, m.data[i]), seq)
                     /\ i = Id[t] => Heard(t, i, m.data[i]) = list[t][i]
  BY <1>1, HeardIsGood
<1>3. fresh \in [Ids -> Entry \cup {Absent}]
  BY <1>2 DEF Good
<1>4. \A i \in Ids : Good(i, fresh[i], seq)
  BY <1>2
<1>5. fresh[Id[t]] = Absent
  BY <1>1, <1>2 DEF NoSelf
<1>6. /\ list' = [list EXCEPT ![t] = fresh]
      /\ calls' = calls \ {m}
      /\ UNCHANGED <<phase, nodes, asks, seq, blacklist>>
  BY DEF HeartbeatNotification
<1> HIDE DEF fresh, EntryWise
<1> QED
  BY <1>3, <1>4, <1>5, <1>6, HandledKeeps

LEMMA KillServerNotificationKeeps ==
  ASSUME EntryWise, NEW m \in calls, KillServerNotification(m) PROVE EntryWise'
<1> USE DEF EntryWise
<1> DEFINE t == m.to
<1> DEFINE fresh == [list[t] EXCEPT ![Id[m.from]] = Absent]
<1>1. t \in Procs /\ Id[t] \in Ids /\ list[t] \in EntryMap
  BY IdAssumption DEF TypeOK, Call
<1>2. fresh \in [Ids -> Entry \cup {Absent}]
  BY <1>1 DEF EntryMap
<1>3. \A i \in Ids : fresh[i] \in {list[t][i], Absent}
  BY <1>1 DEF EntryMap
<1>4. \A i \in Ids : Good(i, fresh[i], seq)
  <2>1. \A i \in Ids : Good(i, Absent, seq)
    BY DEF Good
  <2> QED
    BY <1>1, <1>3, <2>1
<1>5. fresh[Id[t]] = Absent
  BY <1>1, <1>3 DEF NoSelf
<1>6. /\ list' = [list EXCEPT ![t] = fresh]
      /\ calls' = calls \ {m}
      /\ UNCHANGED <<phase, nodes, asks, seq, blacklist>>
  BY <1>1 DEF KillServerNotification, TypeOK
<1> HIDE DEF fresh, EntryWise
<1> QED
  BY <1>2, <1>4, <1>5, <1>6, HandledKeeps

\* Calls sent while no list and no number changes.
LEMMA SentKeeps ==
  ASSUME EntryWise, NEW sent, calls' = calls \cup sent,
         \A m \in sent : m \in Call /\ \A i \in Ids : Good(i, m.data[i], seq),
         phase' \in [Procs -> {"unborn", "joining", "up", "killed", "crashed"}],
         nodes' \in SUBSET Procs, blacklist' \in [Procs -> SUBSET Procs],
         UNCHANGED <<asks, list, seq>>
  PROVE  EntryWise'
<1>1. TypeOK'
  BY DEF EntryWise, TypeOK
<1>2. NoSelf'
  BY DEF EntryWise, NoSelf
<1>3. \A m \in calls' : \A i \in Ids : Good(i, m.data[i], seq)
  BY DEF EntryWise
<1> QED
  BY <1>1, <1>2, <1>3 DEF EntryWise

LEMMA KillServerKeeps ==
  ASSUME EntryWise, NEW p \in Procs, KillServer(p) PROVE EntryWise'
<1> DEFINE sent == {[type |-> "KillServer", from |-> p, to |-> q,
                     data |-> NoEntries] : q \in Reachable(p)}
<1>1. \A q \in Reachable(p) : q \in Procs
  BY DEF Reachable, Listed, EntryWise, TypeOK, EntryMap, Entry
<1>2. NoEntries \in EntryMap /\ \A i \in Ids : Good(i, NoEntries[i], seq)
  BY DEF NoEntries, EntryMap, Good
<1>3. \A m \in sent : m \in Call /\ \A i \in Ids : Good(i, m.data[i], seq)
  BY <1>1, <1>2 DEF Call
<1>4. /\ phase' \in [Procs -> {"unborn", "joining", "up", "killed", "crashed"}]
      /\ nodes' \in SUBSET Procs /\ blacklist' \in [Procs -> SUBSET Procs]
      /\ UNCHANGED <<asks, list, seq>> /\ calls' = calls \cup sent
  BY DEF KillServer, EntryWise, TypeOK
<1> HIDE DEF sent
<1> QED
  BY <1>3, <1>4, SentKeeps

LEMMA CreateConnectionKeeps ==
  ASSUME EntryWise, NEW p \in Procs, NEW q \in Procs, CreateConnection(p, q)
  PROVE  EntryWise'
<1> DEFINE sent == {Notice(p, r, OwnEntry(p)) : r \in {x \in {q} : Answers(x)}}
<1>1. OwnEntry(p) \in Entry /\ OwnEntry(p).addr = p /\ Good(Id[p], OwnEntry(p), seq)
  <2>1. seq \in [Procs -> Nat] /\ seq[p] \in Nat /\ seq[p] <= seq[p]
    BY DEF EntryWise, TypeOK
  <2> QED
    BY <2>1, OwnIsGood DEF OwnEntry, Entry
<1>2. \A m \in sent : m \in Call /\ \A i \in Ids : Good(i, m.data[i], seq)
  <2>1. SUFFICES ASSUME NEW m \in sent
                 PROVE  m \in Call /\ \A i \in Ids : Good(i, m.data[i], seq)
    OBVIOUS
  <2>2. m = Notice(p, q, OwnEntry(p))
    OBVIOUS
  <2> QED
    BY <1>1, <2>2, NoticesGood
<1>3. /\ phase' \in [Procs -> {"unborn", "joining", "up", "killed", "crashed"}]
      /\ nodes' \in SUBSET Procs /\ blacklist' \in [Procs -> SUBSET Procs]
      /\ UNCHANGED <<asks, list, seq>> /\ calls' = calls \cup sent
  BY DEF CreateConnection, EntryWise, TypeOK
<1> HIDE DEF sent
<1> QED
  BY <1>2, <1>3, SentKeeps

LEMMA HeartbeatKeeps ==
  ASSUME EntryWise, NEW p \in Procs, NEW late \in SUBSET Listed(p), Heartbeat(p, late)
  PROVE  EntryWise'
<1> DEFINE after == AfterTimeouts(p, late)
<1> DEFINE own == [addr |-> p, seq |-> seq'[p], suspected |-> FALSE]
<1> DEFINE beat == [after EXCEPT ![Id[p]] = own]
<1>1. /\ UNCHANGED <<phase, nodes, asks, blacklist>>
      /\ seq' = [seq EXCEPT ![p] = @ + 1] /\ list' = [list EXCEPT ![p] = after]
  BY DEF Heartbeat
<1>2. /\ seq \in [Procs -> Nat] /\ seq' \in [Procs -> Nat \ {0}]
      /\ seq' \in [Procs -> Nat] /\ \A q \in Procs : seq[q] <= seq'[q]
  BY <1>1 DEF EntryWise, TypeOK
<1>3. \A i \in Ids : Good(i, after[i], seq) /\ (list[p][i] = Absent => after[i] = Absent)
  BY TimeoutsKeepGood DEF EntryWise
<1>4. after \in EntryMap
  <2>1. after = [i \in Ids |-> after[i]]
    BY DEF AfterTimeouts
  <2>2. \A i \in Ids : after[i] \in Entry \cup {Absent}
    BY <1>3 DEF Good
  <2> HIDE DEF after
  <2> QED
    BY <2>1, <2>2 DEF EntryMap
<1> HIDE DEF after
<1>5. \A x \in Procs : list'[x] = IF x = p THEN after ELSE list[x]
  BY <1>1 DEF EntryWise, TypeOK
<1>6. \A x \in Procs, i \in Ids : Good(i, list'[x][i], seq')
  <2>1. SUFFICES ASSUME NEW x \in Procs, NEW i \in Ids PROVE Good(i, list'[x][i], seq')
    OBVIOUS
  <2>2. Good(i, list'[x][i], seq)
    BY <1>3, <1>5 DEF EntryWise
  <2> QED
    BY <1>2, <2>2, GoodStays
<1>7. beat \in EntryMap /\ \A i \in Ids : Good(i, beat[i], seq')
  <2>1. Id[p] \in Ids /\ own \in Entry /\ Good(Id[p], own, seq')
    <3>1. seq'[p] \in Nat /\ seq'[p] <= seq'[p]
      BY <1>2
    <3> QED
      BY <1>2, <3>1, IdAssumption, OwnIsGood DEF Entry
  <2>2. \A i \in Ids : Good(i, after[i], seq')
    BY <1>5, <1>6
  <2> HIDE DEF own
  <2>3. beat \in EntryMap
    BY <1>4, <2>1 DEF EntryMap
  <2>4. \A i \in Ids : beat[i] = IF i = Id[p] THEN own ELSE after[i]
    BY <1>4, <2>1 DEF EntryMap
  <2> QED
    BY <2>1, <2>2, <2>3, <2>4
<1>8. \A m \in calls' : m \in Call /\ \A i \in Ids : Good(i, m.data[i], seq')
  <2>1. SUFFICES ASSUME NEW m \in calls'
                 PROVE  m \in Call /\ \A i \in Ids : Good(i, m.data[i], seq')
    OBVIOUS
  <2>2. CASE m \in calls
    <3>1. m \in Call /\ \A i \in Ids : Good(i, m.data[i], seq)
      BY <2>2 DEF EntryWise, TypeOK
    <3> QED
      BY <1>2, <3>1, GoodStays
  <2>3. CASE m \notin calls
    <3>1. list'[p] = after
      BY <1>5
    <3>2. Refreshed(OwnEntry(p), seq'[p]) = own
      BY DEF Refreshed, OwnEntry
    <3>3. \E q \in Reachable(p) :
            m = [type |-> "Heartbeat", from |-> p, to |-> q, data |-> beat]
      <4> HIDE DEF own
      <4> QED
        BY <2>3, <3>1, <3>2 DEF Heartbeat
    <3>4. \A q \in Reachable(p) : q \in Procs
      BY DEF Reachable, Listed, EntryWise, TypeOK, EntryMap, Entry
    <3> HIDE DEF beat
    <3> QED
      BY <1>7, <3>3, <3>4 DEF Call
  <2> QED
    BY <2>2, <2>3
<1>9. TypeOK'
  <2>1. list' \in [Procs -> EntryMap] /\ calls' \in SUBSET Call
    BY <1>1, <1>4, <1>8 DEF EntryWise, TypeOK
  <2> QED
    BY <1>1, <1>2, <2>1 DEF EntryWise, TypeOK
<1>10. NoSelf'
  <2>1. \A x \in Procs : list'[x][Id[x]] = Absent
    BY <1>3, <1>5, IdAssumption DEF EntryWise, NoSelf
  <2> QED
    BY <1>1, <2>1 DEF EntryWise, NoSelf
<1> QED
  BY <1>6, <1>8, <1>9, <1>10 DEF EntryWise

----------------------------------------------------------------------------
(* The invariant *)

LEMMA StepKeeps == EntryWise /\ [Next]_vars => EntryWise'
<1> SUFFICES ASSUME EntryWise, [Next]_vars PROVE EntryWise'
  OBVIOUS
<1>1. CASE Received
  BY <1>1, NewServerKeeps, HeartbeatNotificationKeeps, KillServerNotificationKeeps
     DEF Received
<1>2. ASSUME NEW p \in Procs, NEW q \in Procs, JoinClusterAsServer(p, q)
      PROVE  EntryWise'
  BY <1>2, JoinKeeps
<1>3. ASSUME NEW p \in Procs, Listen(p) \/ GiveUp(p) PROVE EntryWise'
  <2>1. TypeOK' /\ UNCHANGED <<list, seq, asks, calls>>
    BY <1>3 DEF Listen, GiveUp, EntryWise, TypeOK
  <2> QED
    BY <2>1, NoEntryTouched
<1>4. ASSUME NEW p \in Procs, Start(p) PROVE EntryWise'
  BY <1>4, StartKeeps
<1>5. ASSUME NEW p \in Procs, KillServer(p) PROVE EntryWise'
  BY <1>5, KillServerKeeps
<1>6. ASSUME NEW p \in Procs, Crash(p) PROVE EntryWise'
  <2>1. TypeOK' /\ UNCHANGED <<list, seq, asks>> /\ calls' \in SUBSET calls
    BY <1>6 DEF Crash, EntryWise, TypeOK
  <2> QED
    BY <2>1, NoEntryTouched
<1>7. ASSUME NEW p \in Procs, NEW q \in Procs, BreakConnection(p, q) PROVE EntryWise'
  <2>1. q \in Procs /\ blacklist \in [Procs -> SUBSET Procs]
    BY DEF EntryWise, TypeOK
  <2>2. TypeOK' /\ UNCHANGED <<list, seq, asks, calls>>
    BY <1>7, <2>1 DEF BreakConnection, EntryWise, TypeOK
  <2> QED
    BY <2>2, NoEntryTouched
<1>8. ASSUME NEW p \in Procs, NEW q \in Procs, CreateConnection(p, q) PROVE EntryWise'
  BY <1>8, CreateConnectionKeeps
<1>9. ASSUME NEW p \in Procs, NEW late \in SUBSET Listed(p), Heartbeat(p, late)
      PROVE  EntryWise'
  BY <1>9, HeartbeatKeeps
<1>10. CASE UNCHANGED vars
  <2>1. TypeOK' /\ UNCHANGED <<list, seq, asks, calls>>
    BY <1>10 DEF vars, EntryWise, TypeOK
  <2> QED
    BY <2>1, NoEntryTouched
<1> QED
  BY <1>1, <1>2, <1>3, <1>4, <1>5, <1>6, <1>7, <1>8, <1>9, <1>10
     DEF Next, Joins, Commands

\* Lists and calls never say of a member what it has not reached, name a process
\* of another id, or list a server in its own list: rpc.go, at any timing.
THEOREM MembersInvariant == Spec => []MembersInv
<1>1. Init => MembersInv
  BY InitWise, WiseIsMembersInv
<1>2. MembersInv /\ [Next]_vars => MembersInv'
  <2>1. EntryWise' => MembersInv'
    <3>1. EntryWise => MembersInv
      BY WiseIsMembersInv
    <3> QED
      BY <3>1, PTL
  <2> QED
    BY <2>1, StepKeeps, WiseIsMembersInv
<1> QED
  BY <1>1, <1>2, PTL DEF Spec

----------------------------------------------------------------------------
(* Entries change by news *)

\* The entry of p for i stays or is news, or goes as it may.
ByNews(p, i) ==
  \/ /\ Present(list'[p][i])
     /\ list[p][i].seq <= list'[p][i].seq
     /\ list[p][i].suspected /\ ~list'[p][i].suspected
          => list[p][i].seq < list'[p][i].seq
  \/ list[p][i].suspected
  \/ \E m \in calls \ calls' : m.type = "KillServer" /\ m.to = p /\ Id[m.from] = i

LEMMA SameIsNews ==
  ASSUME EntryWise, NEW p \in Procs, NEW i \in Ids, list[p][i] # Absent,
         list'[p][i] = list[p][i]
  PROVE  ByNews(p, i)
<1>1. list[p][i] \in Entry
  BY DEF EntryWise, Good
<1>2. list[p][i].seq \in Nat
  BY <1>1 DEF Entry
<1>3. list[p][i].seq <= list[p][i].seq
  BY <1>2
<1> QED
  BY <1>3 DEF ByNews, Present

LEMMA StepIsNews ==
  ASSUME EntryWise, [Next]_vars, NEW p \in Procs, NEW i \in Ids, list[p][i] # Absent
  PROVE  ByNews(p, i)
<1>1. /\ list \in [Procs -> EntryMap] /\ \A m \in calls : m \in Call
      /\ list[p][i] \in Entry /\ \A x \in Procs : Id[x] \in Ids
  BY IdAssumption DEF EntryWise, TypeOK, Good
<1>2. ASSUME NEW m \in calls, NewServerNotification(m) PROVE ByNews(p, i)
  <2>1. list'[p][i] = list[p][i]
    BY <1>1, <1>2 DEF NewServerNotification, EntryMap
  <2> QED
    BY <2>1, SameIsNews
<1>3. ASSUME NEW m \in calls, HeartbeatNotification(m) PROVE ByNews(p, i)
  <2>1. CASE m.to = p
    <3> DEFINE new == m.data[i]
    <3> DEFINE old == list[p][i]
    <3>1. list'[p][i] = Heard(p, i, new)
      BY <1>1, <1>3, <2>1 DEF HeartbeatNotification
    <3>2. Heard(p, i, new) = IF i = Id[p] \/ new = Absent \/ old.seq >= new.seq
                             THEN old ELSE Refreshed(old, new.seq)
      BY DEF Heard
    <3>3. CASE Heard(p, i, new) = old
      BY <3>1, <3>3, SameIsNews
    <3>4. CASE new # Absent /\ ~(old.seq >= new.seq) /\ list'[p][i] = Refreshed(old, new.seq)
      <4>1. new \in Entry
        BY <3>4 DEF EntryWise, Good
      <4>2. old.seq \in Nat /\ new.seq \in Nat
        BY <1>1, <4>1 DEF Entry
      <4>3. old.seq < new.seq /\ old.seq <= new.seq
        BY <3>4, <4>2
      <4>4. list'[p][i].seq = new.seq /\ list'[p][i] \in Entry
        BY <1>1, <3>4, <4>2 DEF Refreshed, Entry
      <4>5. list'[p][i] # Absent
        BY <4>4, AbsentAssumption
      <4> QED
        BY <4>3, <4>4, <4>5 DEF ByNews, Present
    <3> QED
      BY <3>1, <3>2, <3>3, <3>4
  <2>2. CASE m.to # p
    <3>1. list'[p][i] = list[p][i]
      BY <1>1, <1>3, <2>2 DEF HeartbeatNotification
    <3> QED
      BY <3>1, SameIsNews
  <2> QED
    BY <2>1, <2>2
<1>4. ASSUME NEW m \in calls, KillServerNotification(m) PROVE ByNews(p, i)
  <2>1. CASE m.to = p /\ Id[m.from] = i
    BY <1>4, <2>1 DEF KillServerNotification, ByNews
  <2>2. CASE ~(m.to = p /\ Id[m.from] = i)
    <3>1. m.to \in Procs /\ Id[m.from] \in Ids
      BY <1>1 DEF Call
    <3>2. list'[p][i] = list[p][i]
      BY <1>1, <1>4, <2>2, <3>1 DEF KillServerNotification, EntryMap
    <3> QED
      BY <3>2, SameIsNews
  <2> QED
    BY <2>1, <2>2
<1>5. ASSUME NEW x \in Procs, NEW q \in Procs, JoinClusterAsServer(x, q)
      PROVE  ByNews(p, i)
  <2>1. CASE list' = list
    BY <2>1, SameIsNews
  <2>2. CASE list' # list
    <3>1. x # q /\ list[q][Id[x]] = Absent
      BY <1>5, <2>2 DEF JoinClusterAsServer
    <3>2. list'[p][i] = list[p][i]
      BY <1>1, <1>5, <2>2, <3>1 DEF JoinClusterAsServer, EntryMap
    <3> QED
      BY <3>2, SameIsNews
  <2> QED
    BY <2>1, <2>2
<1>6. ASSUME NEW x \in Procs, NEW late \in SUBSET Listed(x), Heartbeat(x, late)
      PROVE  ByNews(p, i)
  <2>1. list' = [list EXCEPT ![x] = AfterTimeouts(x, late)]
    BY <1>6 DEF Heartbeat
  <2>2. CASE x # p \/ i \notin late
    <3>1. list'[p][i] = list[p][i]
      BY <1>1, <2>1, <2>2 DEF AfterTimeouts
    <3> QED
      BY <3>1, SameIsNews
  <2>3. CASE x = p /\ i \in late /\ list[p][i].suspected
    BY <2>3 DEF ByNews
  <2>4. CASE x = p /\ i \in late /\ ~list[p][i].suspected
    <3>1. list'[p][i] = Suspect(list[p][i])
      BY <1>1, <2>1, <2>4 DEF AfterTimeouts
    <3>2. list'[p][i] \in Entry /\ list'[p][i].seq = list[p][i].seq
      BY <1>1, <3>1 DEF Suspect, Entry
    <3>3. list[p][i].seq <= list'[p][i].seq
      BY <1>1, <3>2 DEF Entry
    <3>4. list'[p][i] # Absent
      BY <3>2, AbsentAssumption
    <3> QED
      BY <2>4, <3>3, <3>4 DEF ByNews, Present
  <2> QED
    BY <2>2, <2>3, <2>4
<1>7. CASE UNCHANGED list
  BY <1>7, SameIsNews
<1> QED
  BY <1>2, <1>3, <1>4, <1>5, <1>6, <1>7
     DEF Next, Received, Joins, Commands, Listen, GiveUp, Start, KillServer, Crash,
         BreakConnection, CreateConnection, vars

\* An entry's number never goes down, a suspicion is lifted by a newer number
\* only, and a member is removed only as a suspect or by its kill notice:
\* startHeartbeats and the notifications of rpc.go, at any timing.
THEOREM ChangesAreNews == Spec => EntriesChangeByNews
<1>1. MembersInv /\ [Next]_vars => OnlyByNews
  BY WiseIsMembersInv, StepIsNews DEF OnlyByNews, ByNews, Present
<1> QED
  BY <1>1, MembersInvariant, PTL DEF Spec, EntriesChangeByNews

=============================================================================
