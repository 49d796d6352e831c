---------------------------- MODULE MCServerLocks ----------------------------
(* Small instances of ServerLocks for TLC. *)
EXTENDS ServerLocks, TLC

AllRequests == Handlers \ {"startHeartbeats"}

\* Those that hold a mutex while they wait for another thread, and one that
\* takes mutexes one inside the other.
FewRequests == {"KillServer", "Stabilize", "PutKVServer"}

OnlyKill == {"KillServer"}

Renamings == Permutations(Servers) \cup Permutations(Workers)
==============================================================================
