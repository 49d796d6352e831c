-------------------------- MODULE MembershipProps --------------------------
(***************************************************************************)
(* The properties of Membership, whenever the timeouts fire.               *)
(***************************************************************************)
EXTENDS Membership

Present(e) == e # Absent

TypeOK ==
  /\ phase \in [Procs -> {"unborn", "joining", "up", "killed", "crashed"}]
  /\ nodes \in SUBSET Procs
  /\ asks \in [Procs -> SUBSET Procs]
  /\ list \in [Procs -> EntryMap]
  /\ seq \in [Procs -> Nat \ {0}]
  /\ blacklist \in [Procs -> SUBSET Procs]
  /\ calls \in SUBSET Call

\* The entries that p lists, or that a call to some server carries.
Entries(i) == {list[p][i] : p \in Procs} \cup {m.data[i] : m \in calls}

\* No server lists itself, so it never counts, gossips to or drops itself:
\* each way in (the answers to a join, notifications, heartbeats) keeps it out.
NoSelf == \A p \in Procs : list[p][Id[p]] = Absent

\* An entry for an id has the address of a process started with that id.
RightAddress ==
  \A i \in Ids : \A e \in Entries(i) : Present(e) => Id[e.addr] = i

\* Nobody has a sequence number that no process of the id has reached, so a
\* server's next heartbeat is news to all who know only this process of it.
NewsIsOld ==
  \A i \in Ids : \A e \in Entries(i) : Present(e) =>
    \E q \in Procs : Id[q] = i /\ e.seq <= seq[q]

\* What lists and calls say of the members, whatever was lost, late or repeated
\* on the way: all of the above together, which is inductive.
MembersInv == TypeOK /\ NoSelf /\ RightAddress /\ NewsIsOld

\* README, "Membership Protocol": an entry changes by news only.  Its sequence
\* number never goes down; a suspicion is lifted by a newer number only; and an
\* entry goes only if it was under suspicion, or the server says it is killed.
OnlyByNews ==
  \A p \in Procs, i \in Ids :
    Present(list[p][i]) =>
      \/ /\ Present(list'[p][i])
         /\ list[p][i].seq <= list'[p][i].seq
         /\ list[p][i].suspected /\ ~list'[p][i].suspected
              => list[p][i].seq < list'[p][i].seq
      \/ list[p][i].suspected
      \/ \E m \in calls \ calls' : m.type = "KillServer" /\ m.to = p /\ Id[m.from] = i

EntriesChangeByNews == [][OnlyByNews]_vars

----------------------------------------------------------------------------
(* What the documentation says, and the code does not do *)

\* README, "joinServer": a server that is started comes up.
JoinsSucceed == \A p \in Procs : phase[p] = "joining" ~> phase[p] = "up"
=============================================================================
