----------------------------- MODULE SessionTurns -----------------------------
(***************************************************************************)
(* What a chat Session promises of its turns: one at a time, each of them  *)
(* run at most once, and told to its listeners at most once how it ended.  *)
(***************************************************************************)
CONSTANTS Turn, Outcome, None

VARIABLES state, session, told

Init ==
  /\ state = [n \in Turn |-> "new"]
  /\ session = [n \in Turn |-> None]
  /\ told = [n \in Turn |-> None]

Running(s) == {n \in Turn : state[n] = "running" /\ session[n] = s}

Start(n, s) ==
  /\ state[n] = "new" /\ Running(s) = {}
  /\ state' = [state EXCEPT ![n] = "running"]
  /\ session' = [session EXCEPT ![n] = s]
  /\ UNCHANGED told

\* A turn that never runs; a busy Session tells it.
Refuse(n, s, o) ==
  /\ state[n] = "new" /\ told[n] = None
  /\ state' = [state EXCEPT ![n] = "done"]
  /\ session' = [session EXCEPT ![n] = s]
  /\ told' = [told EXCEPT ![n] = o]

Tell(n, o) ==
  /\ state[n] = "running" /\ told[n] = None
  /\ told' = [told EXCEPT ![n] = o]
  /\ state' \in {state, [state EXCEPT ![n] = "done"]}
  /\ UNCHANGED session

Settle(n) ==
  /\ state[n] = "running" /\ told[n] # None
  /\ state' = [state EXCEPT ![n] = "done"]
  /\ UNCHANGED <<session, told>>

\* The process dies: what ran is over, what was being accepted may be.
Crash ==
  /\ state' \in [Turn -> {"new", "done"}]
  /\ \A n \in Turn : state[n] = "done" => state'[n] = "done"
  /\ UNCHANGED <<session, told>>

Next ==
  \/ \E n \in Turn, s \in Turn : Start(n, s)
  \/ \E n \in Turn, s \in Turn \cup {None}, o \in Outcome \cup {None} : Refuse(n, s, o)
  \/ \E n \in Turn, o \in Outcome : Tell(n, o)
  \/ \E n \in Turn : Settle(n)
  \/ Crash

Spec == Init /\ [][Next]_<<state, session, told>>
=============================================================================
