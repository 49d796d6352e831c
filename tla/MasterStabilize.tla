-------------------------- MODULE MasterStabilize --------------------------
(***************************************************************************)
(* The stabilize command of the master (master.go) together with the       *)
(* servers' rounds: one goroutine for each server dials it, calls          *)
(* Stabilize, and passes the error and then the id in the answer to the    *)
(* collector over two unbuffered channels.                                 *)
(***************************************************************************)
EXTENDS StabilizeRounds

VARIABLES
  call,       \* call[s]: how far the goroutine for s is: "dial", "calling",
              \* "answered" or "failed" (sends the error), "naming" or
              \* "nameless" (sends reply.Id), "end", or "undialled" (ends
              \* sending nothing)
  taken,      \* the error the collector took ("nil" or "error") while it waits
              \* for an id; "none" while it waits for an error or the timer
  reports,    \* the pairs of an error and an id the collector has put
              \* together and logged
  acksRecv,
  timer,      \* stabilizeTimer: "running", or "read" by the collector
  done

masterVars == <<call, taken, reports, acksRecv, timer, done>>
vars == <<roundsVars, masterVars>>

Phases == {"dial", "calling", "answered", "failed", "naming", "nameless", "end",
           "undialled"}

TypeOK ==
  /\ RoundsTypeOK
  /\ call \in [Servers -> Phases]
  /\ taken \in {"nil", "error", "none"}
  /\ reports \subseteq {"nil", "error"} \X (Servers \cup {None})
  /\ acksRecv \in Nat
  /\ timer \in {"running", "read"}
  /\ done \in BOOLEAN

Init ==
  /\ RoundsInit
  /\ call = [s \in Servers |-> "dial"]
  /\ taken = "none"
  /\ reports = {}
  /\ acksRecv = 0
  /\ timer = "running"
  /\ done = FALSE

\* len(serverNodeMap): a crashed server stays in it.
num_nodes == Cardinality(Servers)

Goes(s, from, to) == call[s] = from /\ call' = [call EXCEPT ![s] = to]

----------------------------------------------------------------------------
(* the goroutine for s *)

Dial(s) ==
  /\ IF s \in up THEN Goes(s, "dial", "calling") ELSE Goes(s, "dial", "undialled")
  /\ UNCHANGED <<roundsVars, taken, reports, acksRecv, timer, done>>

CallAnswered(s) ==
  /\ s \in up /\ Returned(s)
  /\ Goes(s, "calling", "answered")
  /\ UNCHANGED <<roundsVars, taken, reports, acksRecv, timer, done>>

\* Plausible bug: an error is only logged, not sent.
ErrorDropped(s) ==
  /\ s \notin up /\ Goes(s, "calling", "end")
  /\ UNCHANGED <<roundsVars, taken, reports, acksRecv, timer, done>>

CallFails(s) ==
  /\ s \notin up /\ Goes(s, "calling", "failed")
  /\ UNCHANGED <<roundsVars, taken, reports, acksRecv, timer, done>>

----------------------------------------------------------------------------
(* the collector *)

\* The error that a goroutine sends, and where it goes on.
Error(s)   == IF call[s] = "answered" THEN "nil" ELSE "error"
AtReply(s) == IF call[s] = "answered" THEN "naming" ELSE "nameless"

\* Plausible bug: errChan is buffered, so a goroutine goes on to its id at
\* once and another's may be taken first.
BufferedErr(s) ==
  /\ ~done /\ call[s] \in {"answered", "failed"}
  /\ call' = [call EXCEPT ![s] = AtReply(s)]
  /\ taken' = IF taken = "none" THEN Error(s) ELSE taken
  /\ UNCHANGED <<roundsVars, reports, acksRecv, timer, done>>

TakeErr(s) ==
  /\ ~done /\ taken = "none" /\ call[s] \in {"answered", "failed"}
  /\ taken' = Error(s)
  /\ call' = [call EXCEPT ![s] = AtReply(s)]
  /\ UNCHANGED <<roundsVars, reports, acksRecv, timer, done>>

\* reply.Id is set by the server's handler; a failed call leaves it empty.
ReplyId(s) == IF call[s] = "naming" THEN s ELSE None

TakeReply(s) ==
  /\ taken # "none" /\ call[s] \in {"naming", "nameless"}
  /\ call' = [call EXCEPT ![s] = "end"]
  /\ taken' = "none"
  /\ reports' = reports \cup {<<taken, ReplyId(s)>>}
  /\ acksRecv' = acksRecv + 1
  /\ done' = (acksRecv + 1 = num_nodes)
  /\ UNCHANGED <<roundsVars, timer>>

\* The timer has fired and the collector comes to its select: break leaves
\* that only, and the timer does not fire again.
ReadTimer ==
  /\ ~done /\ taken = "none" /\ timer = "running"
  /\ timer' = "read"
  /\ UNCHANGED <<roundsVars, call, taken, reports, acksRecv, done>>

----------------------------------------------------------------------------
\* The steps of servers and goroutines that are bound to come.
Progress ==
  \/ \E s \in Servers :
       \/ Dial(s) \/ CallAnswered(s) \/ CallFails(s)
       \/ TakeErr(s) \/ TakeReply(s)
  \/ /\ \E s \in Servers :
          \/ call[s] # "dial" /\ Begin(s)
          \/ \E t \in Servers : SendTo(s, t)
          \/ SendKVData(s) \/ SendFails(s) \/ Tick(s)
     /\ InStep
     /\ UNCHANGED masterVars

Others ==
  \/ ReadTimer
  \/ /\ \/ \E w \in writes : ProcessRemoteWrite(w)
        \/ \E s \in Servers : Crash(s)
     /\ UNCHANGED masterVars

Next == Progress \/ Others

Spec == Init /\ [][Next]_vars

\* Goroutines and handlers are scheduled, calls are answered or fail.
FairSpec == Spec /\ WF_vars(Progress)

----------------------------------------------------------------------------
\* README, "Blocks until all values are able to propagate to all connected
\* servers": when the command ends, the flood is complete, the timer or not.
EndMeansPropagated == done /\ up = Servers => Flooded

\* The error and the id of an answer come over two channels on which every
\* goroutine sends; still, success is reported only of a server that has been
\* through all its rounds, a failure under no id, and when the command ends
\* every server in service has been reported.
ReportsAreTrue ==
  /\ \A report \in reports :
       IF report[1] = "nil" THEN report[2] \in Servers /\ Returned(report[2])
       ELSE report[2] = None
  /\ done => \A s \in up : <<"nil", s>> \in reports

Undialled == \E s \in Servers : call[s] = "undialled"

\* Some goroutine, handler or ticker can go on, the guards of Progress say.
CanProgress ==
  \E s \in Servers :
    \/ call[s] = "dial"
    \/ call[s] = "calling" /\ (s \notin up \/ Returned(s))
    \/ ~done /\ taken = "none" /\ call[s] \in {"answered", "failed"}
    \/ taken # "none" /\ call[s] \in {"naming", "nameless"}
    \/ sending[s] # None
    \/ /\ s \in up /\ sending[s] = None
       /\ \/ call[s] # "dial" /\ round[s] = 0
          \/ todo[s] # {}
          \/ /\ round[s] \in 1 .. Rounds /\ todo[s] = {}
             /\ \A t \in up : s \in peers[t] => Sent(t, round[s])

\* Until the command ends somebody can go on: servers in step never wait for
\* each other in a circle, nor the collector for an answer nobody sends.
NeverStuck == done \/ Undialled \/ CanProgress

\* What a goroutine has left to do, and a server that is in round r: in each
\* round a copy and a call to every server.
AnswerLeft(c) ==
  CASE c = "dial" -> 4 [] c = "calling" -> 3 [] c \in {"answered", "failed"} -> 2
    [] c \in {"naming", "nameless"} -> 1 [] OTHER -> 0
RoundsLeft(r, next, sent) ==
  (Rounds + 1 - r) * (2 * Cardinality(Servers) + 1)
    + 2 * Cardinality(next) + (IF sent = None THEN 0 ELSE 1)
Left(s) == AnswerLeft(call[s]) + RoundsLeft(round[s], todo[s], sending[s])

\* Each step of Progress brings somebody nearer to the end, and nothing, a crash
\* or a late write neither, gives anybody more to do.
CommandAdvances ==
  [][/\ \A s \in Servers : Left(s)' \in Nat /\ Left(s)' <= Left(s)
     /\ (\E s \in Servers : Left(s)' < Left(s)) \/ ~Progress]_vars

\* The command ends, though servers crash and the timer fires, unless a server
\* had crashed before it was dialled: its goroutine sends nothing, and the
\* collector waits for it without end.
EndsUnlessUndialled == <>(done \/ Undialled)
============================================================================
