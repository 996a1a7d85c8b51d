-------------------------- MODULE GatewayLoneStart --------------------------
(***************************************************************************)
(* The gateway lock with a history variable: which run has had the machine *)
(* for itself since it started.  What earlier runs left behind when they   *)
(* died must not keep it out.                                              *)
(***************************************************************************)
EXTENDS GatewayLock

VARIABLE undisturbed  \* the run that is alone, if there is one

lonevars == <<vars, undisturbed>>

LoneInit == Init /\ undisturbed = {}

\* Nobody else is alive at the start; nobody else starts, dies, fails a write or
\* changes the process table until it ends.
LoneNext ==
  \/ \E r \in Run :
       \/ /\ Start(r)
          /\ undisturbed' = IF \E q \in Run : Alive(q) THEN {} ELSE {r}
       \/ RunStep(r) /\ UNCHANGED undisturbed
       \/ (WriteFails(r) \/ Shutdown(r) \/ Crash(r)) /\ undisturbed' = {}
  \/ \E p \in Pid : Recycle(p) /\ undisturbed' = {}

LoneSpec == LoneInit /\ [][LoneNext]_lonevars

LoneFairSpec == LoneSpec /\ Fairness

\* The pid in the record is somebody else's now, and the record has no start time
\* to tell the two apart.
Indistinguishable == file # None /\ file.written /\ file.owner \notin Stamped

\* A gateway started on its own always gets the lock in the end, whatever runs before
\* it left behind when they died: an empty pidfile, a record of a dead process, one
\* of a recycled pid.
LoneStartGetsIn ==
  \A r \in Run :
    r \in undisturbed ~> (Established(r) \/ r \notin undisturbed
                          \/ (pc[r] = "held" /\ Indistinguishable))

\* On the way it removes one stale file at most, is refused for nothing but a record
\* that could be a live gateway's, never runs out of attempts, never meets its port
\* in use, and has the lock established once it holds it.
LoneStartUnhindered ==
  \A r \in undisturbed :
    /\ attempt[r] <= 1
    /\ pc[r] \in Starting \cup Holding \cup {"held"}
    /\ pc[r] = "held" => Indistinguishable
    /\ pc[r] \in Holding => Established(r)

-----------------------------------------------------------------------------
(* Why.                                                                     *)

\* Who created the pidfile is past its start; a bound port has its run serving.
OwnerInv == file # None => pc[file.owner] \notin {"unborn"} \cup (Starting \ {"write"})
BoundInv == \A p \in Port : bound[p] # None => pc[bound[p]] = "serving"

\* Where a run alone stands.
Alone(r) ==
  /\ \A q \in Run \ {r} : ~Alive(q)
  /\ pc[r] \in Starting \cup Holding \cup {"held"}
  /\ attempt[r] <= 1
  /\ pc[r] = "create" => attempt[r] = 0 \/ file = None
  /\ pc[r] \in {"read", "probe", "stamp", "remove"} => attempt[r] = 0 /\ file # None
  /\ pc[r] \in {"probe", "stamp"} => file.written /\ seen[r] = file.owner
  /\ pc[r] = "stamp" => PidInUse(PidOf[file.owner])
  /\ pc[r] = "write" => file = [owner |-> r, written |-> FALSE]
  /\ pc[r] \in Holding => file = [owner |-> r, written |-> TRUE]
  /\ pc[r] = "held" => Indistinguishable

LoneInv ==
  /\ IInv /\ OwnerInv /\ BoundInv
  /\ undisturbed \subseteq Run
  /\ \A r \in undisturbed : Alone(r)
=============================================================================
