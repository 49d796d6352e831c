------------------------- MODULE MCMasterStabilize -------------------------
(* A small instance of MasterStabilize for TLC. *)
EXTENDS MasterStabilize, TLC

CONSTANTS s1, s2, s3, k1

\* A line whose last server has dropped the one before from its list: nothing
\* may come from it to the first two, and everything of theirs must reach it.
Line     == s1 :> {s2} @@ s2 :> {s1, s3} @@ s3 :> {}
OnlyLine == {Line}

\* The newest entry at one end of the line, an older one at the other.
OneNewest == {[s \in Servers |-> [k \in Keys |->
                 IF s = s1 THEN 2 ELSE IF s = s3 THEN 1 ELSE 0]]}

\* One write to s3 in flight, which may also never arrive.
OneLate == {{[to |-> s3, key |-> k1, ver |-> 3]}}
============================================================================
