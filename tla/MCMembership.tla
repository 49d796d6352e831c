---------------------------- MODULE MCMembership ----------------------------
(* Small instances of Membership for TLC. *)
EXTENDS MembershipProps, TLC

CONSTANTS p1, p2, p3, a, b, c

ThreeProcs == {p1, p2, p3}

\* Three servers; or two, of which the first can be started again.
ThreeIds   == p1 :> a @@ p2 :> b @@ p3 :> c
RestartIds == p1 :> a @@ p2 :> b @@ p3 :> a

NoLinks == {}
OneLink == {<<p1, p2>>}
=============================================================================
