---------------------------- MODULE MCSessionKV ----------------------------
(* Small instances of SessionKV for TLC. *)
EXTENDS SessionProps, LamportChecks, TLC

CONSTANTS s1, s2, c1, c2

\* Two servers; s2 joined after s1, which recorded it without a clock, and
\* took over the clock s1 had then.
TwoServers  == {s1, s2}
TwoPids     == s1 :> 1 @@ s2 :> 2
TwoRecorded == [s \in TwoServers |-> [t \in TwoServers |-> IF s = s2 THEN 1 ELSE 0]]

\* The connections the master changes.
ClientLinks == Clients \X Servers
OneWayLinks == ClientLinks \cup {<<s1, s2>>}

\* The first client moves between the servers, the second stays with one.
MovingLinks == {c1} \X Servers
=============================================================================
