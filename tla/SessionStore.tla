---------------------------- MODULE SessionStore ----------------------------
(***************************************************************************)
(* What pskDB promises each client session, with no servers in sight: a    *)
(* set of versions issued for each key, and for each client and key the    *)
(* version the client knows.  A write issues a version that is new and     *)
(* above the one its client knows; a read returns an issued version that   *)
(* is not below it.  A client without a version for the key may read any.  *)
(***************************************************************************)
EXTENDS LamportTime

CONSTANTS
  Clients, Keys,
  Versions     \* the versions that may be issued

VARIABLES
  issued,      \* the pairs <<key, version>> issued so far
  view         \* view[c][k]: the version c knows of k, NoVersion for none

vars == <<issued, view>>

Init ==
  /\ issued = {}
  /\ view = [c \in Clients |-> [k \in Keys |-> NoVersion]]

Write(c, k, v) ==
  /\ <<k, v>> \notin issued
  /\ Less(view[c][k], v)
  /\ issued' = issued \cup {<<k, v>>}
  /\ view' = [view EXCEPT ![c][k] = v]

Read(c, k, v) ==
  /\ <<k, v>> \in issued
  /\ AtMost(view[c][k], v)
  /\ view' = [view EXCEPT ![c][k] = v]
  /\ UNCHANGED issued

Next ==
  \/ \E c \in Clients, k \in Keys, v \in Versions : Write(c, k, v)
  \/ \E c \in Clients, e \in issued : Read(c, e[1], e[2])

Spec == Init /\ [][Next]_vars
============================================================================
