------------------------- MODULE MCMembershipTimed -------------------------
(* Small instances of MembershipTimed for TLC. *)
EXTENDS MembershipTimedProps, TLC

CONSTANTS p1, p2, p3, a, b, c

ThreeProcs == {p1, p2, p3}
ThreeIds   == p1 :> a @@ p2 :> b @@ p3 :> c

\* Three servers and their ids are renamed together.
Renamings ==
  {[x \in ThreeProcs \cup {a, b, c} |->
      IF x \in ThreeProcs THEN f[x] ELSE ThreeIds[f[CHOOSE p \in ThreeProcs : ThreeIds[p] = x]]]
    : f \in Permutations(ThreeProcs)}

NoLinks == {}
=============================================================================
