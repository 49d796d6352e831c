---------------------------- MODULE SessionProps ----------------------------
(***************************************************************************)
(* The properties of SessionKV.                                            *)
(***************************************************************************)
EXTENDS SessionKV

Writes == 1 .. Len(hist)

----------------------------------------------------------------------------
(* Of the code as it is (Spec) *)

\* The entry e is what the put it came from stored under k.
Accepted(k, e) ==
  e.val \in Writes /\ hist[e.val].key = k /\ hist[e.val].ver = e.ver

\* An entry a server holds, or a call carries, pairs a value with the version
\* its put was given, under its own key: merging field by field in
\* ProcessRemoteWrite and SendKVData never mixes two writes.
NoThinAir ==
  /\ \A s \in Servers, k \in Keys : Held(s, k) => Accepted(k, store[s][k])
  /\ \A m \in msgs, k \in Keys : m.data[k].val # 0 => Accepted(k, m.data[k])

\* Nothing but a put taken by the server itself lowers the version it stores
\* for a key: replicated writes and stabilize snapshots arriving late, or in
\* the wrong order, change nothing.
RegressesByOwnPut ==
  \A s \in Servers, k \in Keys :
    Held(s, k) =>
      \/ AtMost(store[s][k].ver, store'[s][k].ver)
      \/ Len(hist') > Len(hist) /\ hist'[Len(hist')].by = s

OnlyOwnPutsRegress == [][RegressesByOwnPut]_vars

\* Between two puts of a key by a client, the version the client keeps for it
\* never goes down, whichever servers its gets reach.
TokenGrowsUnlessPut ==
  \A c \in Clients, k \in Keys :
    own'[c][k] = own[c][k] => AtMost(seen[c][k], seen'[c][k])

TokenRegressesOnlyAtPuts == [][TokenGrowsUnlessPut]_vars

\* s took the put, or a call carrying it was sent to s.
Addressed(s, i) == s = hist[i].by \/ s \in hist[i].sent

Pending(s, i) ==
  \E m \in msgs : /\ m.type = "ProcessRemoteWrite"
                  /\ m.to = s
                  /\ m.data[hist[i].key].val = i

\* Two servers that were sent every write of k, with none on its way to them,
\* hold the same entry for k.
AgreedOn(k) ==
  \A s, t \in Servers :
    (\A i \in Writes : hist[i].key = k =>
       /\ Addressed(s, i) /\ ~Pending(s, i)
       /\ Addressed(t, i) /\ ~Pending(t, i))
    => store[s][k] = store[t][k]

\* The put went back: it was given a version no newer than that of a value it
\* came after.
PutBack(i) == \E j \in hist[i].past : ~Less(hist[j].ver, hist[i].ver)

NewPutAt(s) == Len(hist') > Len(hist) /\ hist'[Len(hist')].by = s

\* A put at s of a value that came after one which the next tick of the clock
\* of s would not pass.
PutBehind(s) ==
  /\ NewPutAt(s)
  /\ \E j \in hist'[Len(hist')].past : ~Less(hist[j].ver, <<clock[s] + 1, Pid[s]>>)

\* No clock goes back and no put goes back, except by a put at a server whose
\* clock is behind a value the put came after: not by the gets, heartbeats and
\* other puts that advance the clock in between, and not by the choice of
\* PutKVServer between the client's version and that of the entry it overwrites.
ForwardUnlessBehind ==
  \A s \in Servers :
    \/ PutBehind(s)
    \/ clock[s] <= clock'[s] /\ (NewPutAt(s) => ~PutBack(Len(hist))')

BackOnlyBehind == [][ForwardUnlessBehind]_vars

\* README, "Read Your Writes", at any timing: a client reads a value that its
\* last put came after only if that put itself went back.
ReadsOwnUnlessBack ==
  \A c \in Clients, k \in Keys :
    got[c][k] \in Past(own[c][k]) => PutBack(own[c][k])

\* No put of k has gone back.
NoneBack(k) == \A i \in Writes : hist[i].key = k => ~PutBack(i)

\* README, "eventually consistent", at any timing: replicated writes and
\* snapshots, in any order and over broken links, bring the servers to one entry
\* for each key of which no put went back.
AgreesUnlessBack == \A k \in Keys : NoneBack(k) => AgreedOn(k)

----------------------------------------------------------------------------
(* Of the code under CaughtUpSpec *)

\* README, "Read Your Writes": what a client reads after a put is not a value
\* that the put came after.
ReadYourWrites ==
  \A c \in Clients, k \in Keys : got[c][k] \notin Past(own[c][k])

\* README, "Monotonic Reads": a read does not return a value that the value
\* read before it came after.
ReadsForward ==
  \A c \in Clients, k \in Keys :
    got'[c][k] # got[c][k] => got'[c][k] \notin Past(got[c][k])

MonotonicReads == [][ReadsForward]_vars

\* README, "eventually consistent": once no replicated write of a key is on
\* its way to them, two servers that were both sent every write of the key
\* hold the same entry for it.
QuiescentAgreement == \A k \in Keys : AgreedOn(k)

\* The client sessions see the abstract store: view is the client's
\* keyVersionInfo, issued the versions of the accepted puts.
Abstract == INSTANCE SessionStore WITH
  Versions <- {<<t, p>> : t \in 1 .. MaxClock, p \in {Pid[s] : s \in Servers}},
  issued <- {<<hist[i].key, hist[i].ver>> : i \in Writes},
  view <- seen

AbstractSpec == Abstract!Spec

----------------------------------------------------------------------------
(* The inductive invariant of CaughtUpSpec, in parts *)

ClocksPositive == \A s \in Servers : clock[s] >= 1

\* A version is the time of the put at the server that took it, which holds
\* the key from then on and whose clock never falls below that time.
IssuerHolds ==
  \A i \in Writes :
    /\ 1 <= hist[i].ver[1] /\ hist[i].ver[1] <= clock[hist[i].by]
    /\ hist[i].ver[2] = Pid[hist[i].by]
    /\ Held(hist[i].by, hist[i].key)

\* What a write came after is older, and of the same key.
PastOlder ==
  \A i \in Writes : \A j \in hist[i].past :
    j \in Writes /\ hist[j].key = hist[i].key /\ Less(hist[j].ver, hist[i].ver)

\* The version a client keeps for a key is that of its last read, or of its
\* put if it has not read since, and covers its last put.
SeenCovers ==
  \A c \in Clients, k \in Keys :
    /\ seen[c][k] = NoVersion => own[c][k] = 0 /\ got[c][k] = 0
    /\ own[c][k] # 0 => /\ own[c][k] \in Writes
                        /\ hist[own[c][k]].key = k
                        /\ AtMost(hist[own[c][k]].ver, seen[c][k])
    /\ got[c][k] # 0 => Accepted(k, [val |-> got[c][k], ver |-> seen[c][k]])

\* No two writes of a key have the same version.
VersionsDiffer ==
  \A i, j \in Writes :
    hist[i].key = hist[j].key /\ hist[i].ver = hist[j].ver => i = j

Covers(s, i) ==
  Held(s, hist[i].key) /\ AtMost(hist[i].ver, store[s][hist[i].key].ver)

\* A write reached every server it was sent to, or is on its way.
Delivered ==
  \A i \in Writes, s \in Servers :
    Addressed(s, i) => Covers(s, i) \/ Pending(s, i)

\* What a client last wrote and read are accepted puts.
SessionsInHist ==
  \A c \in Clients, k \in Keys : {own[c][k], got[c][k]} \subseteq {0} \cup Writes

\* The part that holds of the code as it is (Spec).
CodeInv == TypeOK /\ NoThinAir /\ SessionsInHist

\* The part that holds whatever the fractions of the servers.
SessionInv ==
  CodeInv /\ ClocksPositive /\ IssuerHolds /\ PastOlder /\ SeenCovers

\* A server without a value for a key has no version for it either.
AbsentIsEmpty ==
  \A s \in Servers, k \in Keys : Held(s, k) \/ store[s][k] = NoEntry

ReplicaInv == SessionInv /\ AbsentIsEmpty /\ Delivered

\* With ids whose fractions differ.
DistinctPids == \A s, t \in Servers : Pid[s] = Pid[t] => s = t

IInv == ReplicaInv /\ VersionsDiffer

----------------------------------------------------------------------------
(* Under FairCaughtUpSpec *)

\* An accepted put gets to every server it was sent to, for good: from some
\* time on the server holds it or a newer one.
WritesArrive ==
  \A i \in 1 .. MaxPuts :
    i \in Writes ~> [](i \in Writes /\ \A s \in hist[i].sent : Covers(s, i))

\* README, "eventually consistent": while no connection between servers is
\* broken, once puts stop all servers come to the same store and keep it.
Converges == <>[](\A s, t \in Servers : store[s] = store[t])

============================================================================
