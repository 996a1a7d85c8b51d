------------------------- MODULE GatewayLockProofs -------------------------
(***************************************************************************)
(* For every set of runs, pids and ports: the type invariant of the        *)
(* gateway lock, that an established gateway keeps its lock, and that      *)
(* nothing dead keeps a gateway that starts alone out of it.               *)
(***************************************************************************)
EXTENDS GatewayLoneStart, TLAPS

\* The steps are disjoint groups, written once for the provers.
USE DEF Starting, Holding, Leaving, Ended, MaxAttempts

\* lock.ts at its first start: nothing is there.
LEMMA InitInv == Init => IInv
  BY RunsOK DEF Init, IInv, TypeOK, LoopInv, LoopFresh, PidsUnique, Alive, Steps

\* Every step of every run keeps the types (acquireGatewayLock, runGatewayForeground).
LEMMA TypeStep == ASSUME IInv, [Next]_vars PROVE TypeOK'
<1> USE RunsOK DEF IInv, TypeOK, Steps, File, Goto
<1>1. ASSUME NEW r \in Run, Start(r) PROVE TypeOK'
  BY <1>1 DEF Start
<1>2. ASSUME NEW r \in Run, Create(r) PROVE TypeOK'
  <2>1. CASE file = None
    <3>a. file' = [owner |-> r, written |-> FALSE]
      BY <1>2, <2>1, Zenon DEF Create
    <3>1. file' \in File
      BY <3>a
    <3>2. pc' = [pc EXCEPT ![r] = "write"] /\ UNCHANGED <<attempt, seen, bound, aliens>>
      BY <1>2, <2>1 DEF Create
    <3>3. QED
      BY <3>1, <3>2
  <2>2. CASE file # None
    BY <1>2, <2>2 DEF Create
  <2>3. QED
    BY <2>1, <2>2
<1>3. ASSUME NEW r \in Run, WriteRecord(r) PROVE TypeOK'
  BY <1>3 DEF WriteRecord
<1>4. ASSUME NEW r \in Run, WriteFails(r) PROVE TypeOK'
  BY <1>4 DEF WriteFails
<1>5. ASSUME NEW r \in Run, Read(r) PROVE TypeOK'
  BY <1>5 DEF Read
<1>6. ASSUME NEW r \in Run, Probe(r) PROVE TypeOK'
  BY <1>6 DEF Probe
<1>7. ASSUME NEW r \in Run, CompareStamp(r) PROVE TypeOK'
  BY <1>7 DEF CompareStamp
<1>8. ASSUME NEW r \in Run, Remove(r) PROVE TypeOK'
  <2>1. attempt[r] + 1 \in 0..MaxAttempts
    BY <1>8 DEF Remove, LoopInv
  <2>2. QED
    BY <1>8, <2>1 DEF Remove
<1>9. ASSUME NEW r \in Run, Bind(r) PROVE TypeOK'
  BY <1>9 DEF Bind
<1>10. ASSUME NEW r \in Run, Shutdown(r) PROVE TypeOK'
  BY <1>10 DEF Shutdown, Unbound
<1>11. ASSUME NEW r \in Run, ReleaseRead(r) PROVE TypeOK'
  BY <1>11 DEF ReleaseRead
<1>12. ASSUME NEW r \in Run, ReleaseRemove(r) PROVE TypeOK'
  BY <1>12 DEF ReleaseRemove
<1>13. ASSUME NEW r \in Run, Crash(r) PROVE TypeOK'
  BY <1>13 DEF Crash, Unbound
<1>14. ASSUME NEW p \in Pid, Recycle(p) PROVE TypeOK'
  BY <1>14 DEF Recycle
<1>15. CASE UNCHANGED vars
  BY <1>15 DEF vars
<1>16. QED
  BY <1>1, <1>2, <1>3, <1>4, <1>5, <1>6, <1>7, <1>8, <1>9, <1>10, <1>11, <1>12,
     <1>13, <1>14, <1>15 DEF Next, RunStep, AcquireStep

\* The loop counter stays below its bound while a run is starting (the for loop of
\* acquireGatewayLock).
LEMMA LoopStep == ASSUME IInv, [Next]_vars PROVE LoopInv' /\ LoopFresh'
<1> USE DEF IInv, TypeOK, LoopInv, LoopFresh, Goto
<1>1. ASSUME NEW r \in Run, Start(r) PROVE LoopInv' /\ LoopFresh'
  BY <1>1 DEF Start
<1>2. ASSUME NEW r \in Run, Remove(r) PROVE LoopInv' /\ LoopFresh'
  BY <1>2 DEF Remove
<1>3. ASSUME NEW r \in Run, AcquireStep(r), ~Remove(r) PROVE LoopInv' /\ LoopFresh'
  BY <1>3 DEF AcquireStep, Create, WriteRecord, Read, Probe, CompareStamp
<1>4. ASSUME NEW r \in Run, WriteFails(r) \/ Bind(r) \/ Shutdown(r) \/ ReleaseRead(r)
                            \/ ReleaseRemove(r) \/ Crash(r)
      PROVE LoopInv' /\ LoopFresh'
  BY <1>4 DEF WriteFails, Bind, Shutdown, ReleaseRead, ReleaseRemove, Crash, Alive
<1>5. ASSUME NEW p \in Pid, Recycle(p) PROVE LoopInv' /\ LoopFresh'
  BY <1>5 DEF Recycle
<1>6. CASE UNCHANGED vars
  BY <1>6 DEF vars
<1>7. QED
  BY <1>1, <1>2, <1>3, <1>4, <1>5, <1>6 DEF Next, RunStep

\* Only a start makes a run alive, and it takes a free pid (PidFree).
LEMMA AliveStep ==
  ASSUME IInv, [Next]_vars, NEW q \in Run, Alive(q)', ~Alive(q)
  PROVE  Start(q)
<1> USE DEF IInv, TypeOK, Alive, Goto
<1>1. ASSUME NEW r \in Run, AcquireStep(r) PROVE FALSE
  BY <1>1 DEF AcquireStep, Create, WriteRecord, Read, Probe, CompareStamp, Remove
<1>2. ASSUME NEW r \in Run, WriteFails(r) \/ Bind(r) \/ Shutdown(r) \/ ReleaseRead(r)
                            \/ ReleaseRemove(r) \/ Crash(r)
      PROVE FALSE
  BY <1>2 DEF WriteFails, Bind, Shutdown, ReleaseRead, ReleaseRemove, Crash
<1>3. ASSUME NEW r \in Run, Start(r), r # q PROVE FALSE
  BY <1>3 DEF Start
<1>4. CASE \E p \in Pid : Recycle(p)
  BY <1>4 DEF Recycle
<1>5. CASE UNCHANGED vars
  BY <1>5 DEF vars
<1>6. QED
  BY <1>1, <1>2, <1>3, <1>4, <1>5 DEF Next, RunStep

\* The pids that unrelated processes have change only by Recycle.
LEMMA AliensStep ==
  ASSUME [Next]_vars, aliens' # aliens
  PROVE  \E p \in Pid : Recycle(p)
BY DEF Next, RunStep, AcquireStep, vars, Start, Create, WriteRecord, WriteFails, Read,
       Probe, CompareStamp, Remove, Bind, Shutdown, ReleaseRead, ReleaseRemove, Crash

\* A live process keeps its pid to itself.
LEMMA PidStep ==
  ASSUME IInv, [Next]_vars
  PROVE  PidsUnique' /\ (\A r \in Run : Alive(r) => PidOf[r] \notin aliens)'
<1>1. \A q \in Run : Alive(q)' /\ ~Alive(q) => Start(q)
  BY AliveStep
<1>2. ASSUME NEW q \in Run, Start(q)
      PROVE  /\ PidFree(PidOf[q]) /\ aliens' = aliens
             /\ \A r \in Run \ {q} : Alive(r)' <=> Alive(r)
  BY <1>2 DEF Start, IInv, TypeOK, Alive, Goto
<1>3. PidsUnique'
  <2> SUFFICES ASSUME NEW q \in Run, NEW r \in Run, Alive(q)', Alive(r)',
                      PidOf[q] = PidOf[r], q # r
               PROVE  FALSE
    BY DEF PidsUnique
  <2>1. CASE Alive(q) /\ Alive(r)
    BY <2>1 DEF IInv, PidsUnique
  <2>2. CASE ~Alive(q)
    BY <2>2, <1>1, <1>2 DEF PidFree
  <2>3. CASE ~Alive(r)
    BY <2>3, <1>1, <1>2 DEF PidFree
  <2>4. QED
    BY <2>1, <2>2, <2>3
<1>4. ASSUME NEW r \in Run, Alive(r)' PROVE PidOf[r] \notin aliens'
  <2>1. CASE ~Alive(r)
    BY <2>1, <1>1, <1>2, <1>4 DEF PidFree
  <2>2. CASE Alive(r) /\ aliens' = aliens
    BY <2>2 DEF IInv
  <2>3. CASE Alive(r) /\ aliens' # aliens
    <3>1. PICK p \in Pid : Recycle(p)
      BY <2>3, AliensStep
    <3>2. CASE p = PidOf[r]
      BY <3>1, <3>2, <2>3 DEF Recycle, PidFree, IInv
    <3>3. CASE p # PidOf[r]
      BY <3>1, <3>3, <2>3 DEF Recycle, IInv
    <3>4. QED
      BY <3>2, <3>3
  <2>4. QED
    BY <2>1, <2>2, <2>3
<1>5. QED
  BY <1>3, <1>4

\* The inductive invariant holds in every reachable state: what the theorems rest on.
LEMMA Invariant == Spec => []IInv
<1>1. Init => IInv
  BY InitInv
<1>2. IInv /\ [Next]_vars => IInv'
  BY TypeStep, LoopStep, PidStep DEF IInv
<1>3. QED
  BY <1>1, <1>2, PTL DEF Spec

\* Type correctness of the lock and of the runs, for every number of runs: a run that
\* judges a record has one to judge.
THEOREM TypeCorrect == Spec => []TypeOK
<1>1. IInv => TypeOK
  BY DEF IInv
<1>2. QED
  BY Invariant, <1>1, PTL

\* While h holds an established lock, a step of another run leaves that run harmless
\* and the pidfile alone: it finds h's record, h's process alive and h's start time.
LEMMA OthersHarmless ==
  ASSUME IInv, NEW h \in Run, Established(h), NEW q \in Run, q # h,
         Start(q) \/ RunStep(q) \/ WriteFails(q) \/ Shutdown(q) \/ Crash(q)
  PROVE  file' = file /\ Harmless(q, h)' /\ \A r \in Run \ {q} : pc'[r] = pc[r] /\ seen'[r] = seen[r]
<1> DEFINE Rest == \A r \in Run \ {q} : pc'[r] = pc[r] /\ seen'[r] = seen[r]
<1> SUFFICES file' = file /\ Harmless(q, h)' /\ Rest
  OBVIOUS
<1>1. Harmless(q, h) /\ Alive(h) /\ file # None /\ file.written /\ file.owner = h
  <2>1. file = [owner |-> h, written |-> TRUE] /\ Harmless(q, h) /\ Alive(h)
    BY DEF Established, Alive
  <2>2. file \in File
    BY <2>1 DEF File
  <2>3. QED
    BY <2>1, <2>2, RunsOK
<1> USE DEF IInv, TypeOK, Goto
<1>2. CASE Start(q)
  BY <1>2 DEF Start, Harmless
<1>3. CASE Create(q)
  BY <1>3, <1>1 DEF Create, Harmless
<1>4. CASE Read(q)
  BY <1>4, <1>1 DEF Read, Harmless
<1>5. CASE Probe(q)
  <2>1. seen[q] = h /\ PidInUse(PidOf[seen[q]])
    BY <1>5, <1>1 DEF Probe, Harmless, Alive, PidInUse
  <2>2. pc'[q] \in {"stamp", "held"} /\ seen' = seen /\ file' = file /\ Rest
    BY <1>5, <2>1 DEF Probe, Steps
  <2>3. QED
    BY <2>1, <2>2 DEF Harmless, Alive
<1>6. CASE CompareStamp(q)
  <2>1. seen[q] = h /\ ~Recycled(seen[q])
    BY <1>6, <1>1 DEF CompareStamp, Harmless, Alive, Recycled
  <2>2. pc'[q] = "held" /\ file' = file /\ Rest
    BY <1>6, <2>1 DEF CompareStamp, Steps
  <2>3. QED
    BY <2>2 DEF Harmless, Alive
<1>7. CASE ReleaseRead(q)
  <2>1. PidOf[h] # PidOf[q]
    BY <1>7, <1>1 DEF ReleaseRead, PidsUnique, Alive
  <2>2. pc'[q] = "stopped" /\ file' = file /\ Rest
    BY <1>7, <1>1, <2>1 DEF ReleaseRead
  <2>3. QED
    BY <2>2 DEF Harmless, Alive
<1>8. CASE Crash(q)
  BY <1>8 DEF Crash, Harmless, Alive
<1>9. CASE WriteRecord(q) \/ WriteFails(q) \/ Remove(q) \/ Bind(q) \/ Shutdown(q) \/ ReleaseRemove(q)
  BY <1>9, <1>1 DEF WriteRecord, WriteFails, Remove, Bind, Shutdown, ReleaseRemove, Harmless, Alive
<1>10. QED
  BY <1>2, <1>3, <1>4, <1>5, <1>6, <1>7, <1>8, <1>9 DEF RunStep, AcquireStep

\* A step of h itself after which it still runs is the bind of its port.
LEMMA HolderStep ==
  ASSUME IInv, NEW h \in Run, Established(h), pc'[h] \in Holding,
         Start(h) \/ RunStep(h) \/ WriteFails(h) \/ Shutdown(h) \/ Crash(h)
  PROVE  file' = file /\ \A r \in Run \ {h} : pc'[r] = pc[r] /\ seen'[r] = seen[r]
<1> USE DEF IInv, TypeOK, Goto, Established
<1>1. CASE Bind(h)
  BY <1>1 DEF Bind
<1>2. CASE Shutdown(h) \/ Crash(h)
  BY <1>2 DEF Shutdown, Crash, Steps
<1>3. CASE Start(h) \/ WriteFails(h) \/ AcquireStep(h) \/ ReleaseRead(h) \/ ReleaseRemove(h)
  BY <1>3 DEF Start, WriteFails, AcquireStep, Create, WriteRecord, Read, Probe, CompareStamp,
              Remove, ReleaseRead, ReleaseRemove
<1>4. QED
  BY <1>1, <1>2, <1>3 DEF RunStep

\* An established lock stays established as long as its holder runs.
LEMMA EstablishedStep ==
  ASSUME IInv, [Next]_vars, NEW h \in Run, Established(h), pc'[h] \in Holding
  PROVE  Established(h)'
<1>1. ASSUME NEW q \in Run, q # h,
             Start(q) \/ RunStep(q) \/ WriteFails(q) \/ Shutdown(q) \/ Crash(q)
      PROVE  Established(h)'
  <2>1. file' = file /\ Harmless(q, h)' /\ \A r \in Run \ {q} : pc'[r] = pc[r] /\ seen'[r] = seen[r]
    BY <1>1, OthersHarmless
  <2>2. ASSUME NEW r \in Run \ {h}, r # q PROVE Harmless(r, h)'
    BY <2>1, <2>2 DEF Established, Harmless, Alive
  <2>3. QED
    BY <2>1, <2>2 DEF Established
<1>2. ASSUME Start(h) \/ RunStep(h) \/ WriteFails(h) \/ Shutdown(h) \/ Crash(h)
      PROVE  Established(h)'
  <2>1. file' = file /\ \A r \in Run \ {h} : pc'[r] = pc[r] /\ seen'[r] = seen[r]
    BY <1>2, HolderStep
  <2>2. QED
    BY <2>1 DEF Established, Harmless, Alive
<1>3. CASE \E p \in Pid : Recycle(p)
  BY <1>3 DEF Recycle, Established, Harmless, Alive
<1>4. CASE UNCHANGED vars
  BY <1>4 DEF vars, Established, Harmless, Alive
<1>5. QED
  BY <1>1, <1>2, <1>3, <1>4 DEF Next

\* A gateway whose record is in the pidfile, with nobody else half way through a start,
\* keeps the lock to itself until it ends, for any number of later starts, deaths and
\* recycled pids.
THEOREM LockIsKept == Spec => KeptByItsHolder
<1>1. IInv /\ [Next]_vars =>
        [\A h \in Run : Established(h) /\ pc'[h] \in Holding => Established(h)']_vars
  BY EstablishedStep
<1>2. QED
  BY Invariant, <1>1, PTL DEF Spec, KeptByItsHolder

-----------------------------------------------------------------------------
(* A gateway that starts alone.                                             *)

\* Who created the pidfile never goes back to where it has not (writeLock).
LEMMA OwnerStep == ASSUME IInv, OwnerInv, [Next]_vars PROVE OwnerInv'
<1> USE RunsOK DEF IInv, TypeOK, OwnerInv, Goto, File
<1>1. ASSUME NEW r \in Run, Create(r), file = None PROVE OwnerInv'
  <2>1. file' = [owner |-> r, written |-> FALSE] /\ pc'[r] = "write"
    BY <1>1, Zenon DEF Create, Steps
  <2>2. QED
    BY <2>1
<1>2. ASSUME NEW r \in Run, Create(r), file # None PROVE OwnerInv'
  BY <1>2 DEF Create
<1>3. ASSUME NEW r \in Run, WriteRecord(r) PROVE OwnerInv'
  <2>1. pc' = [pc EXCEPT ![r] = "acquired"]
    BY <1>3 DEF WriteRecord
  <2>2. file' = file \/ (file # None /\ file' = [file EXCEPT !.written = TRUE])
    BY <1>3 DEF WriteRecord
  <2>3. file' # None => file # None /\ file'.owner = file.owner
    BY <2>2
  <2>4. QED
    BY <2>1, <2>3
<1>4. ASSUME NEW r \in Run, Start(r) \/ WriteFails(r) \/ Read(r) \/ Probe(r) \/ CompareStamp(r)
                            \/ Bind(r) \/ Shutdown(r) \/ ReleaseRead(r) \/ Crash(r)
      PROVE  OwnerInv'
  BY <1>4 DEF Start, WriteFails, Read, Probe, CompareStamp, Bind, Shutdown, ReleaseRead, Crash, Alive
<1>5. ASSUME NEW r \in Run, Remove(r) \/ ReleaseRemove(r) PROVE OwnerInv'
  BY <1>5 DEF Remove, ReleaseRemove
<1>6. CASE (\E p \in Pid : Recycle(p)) \/ UNCHANGED vars
  BY <1>6 DEF Recycle, vars
<1>7. QED
  BY <1>1, <1>2, <1>3, <1>4, <1>5, <1>6 DEF Next, RunStep, AcquireStep

\* A port is given back by every way out of serving (Deno.serve, a process's end).
LEMMA BoundStep == ASSUME IInv, BoundInv, [Next]_vars PROVE BoundInv'
<1> USE RunsOK DEF IInv, TypeOK, BoundInv, Goto
<1>1. ASSUME NEW r \in Run, Bind(r) PROVE BoundInv'
  <2>1. CASE bound[PortOf[r]] = None
    <3>1. bound' = [bound EXCEPT ![PortOf[r]] = r] /\ pc' = [pc EXCEPT ![r] = "serving"]
      BY <1>1, <2>1 DEF Bind
    <3>2. QED
      BY <3>1
  <2>2. CASE bound[PortOf[r]] # None
    <3>1. bound' = bound /\ pc' = [pc EXCEPT ![r] = "closing"] /\ pc[r] = "acquired"
      BY <1>1, <2>2 DEF Bind
    <3>2. QED
      BY <3>1
  <2>3. QED
    BY <2>1, <2>2
<1>2. ASSUME NEW r \in Run, Shutdown(r) \/ Crash(r) PROVE BoundInv'
  <2>1. /\ bound' = [p \in Port |-> IF bound[p] = r THEN None ELSE bound[p]]
        /\ \A q \in Run \ {r} : pc'[q] = pc[q]
    BY <1>2 DEF Shutdown, Crash, Unbound
  <2>2. QED
    BY <2>1
<1>3. ASSUME NEW r \in Run, bound' = bound, pc[r] # "serving",
             \A q \in Run \ {r} : pc'[q] = pc[q]
      PROVE  BoundInv'
  BY <1>3
<1>4. ASSUME NEW r \in Run, Start(r) \/ AcquireStep(r) \/ WriteFails(r) \/ ReleaseRead(r) \/ ReleaseRemove(r)
      PROVE  BoundInv'
  <2>1. bound' = bound /\ pc[r] # "serving" /\ \A q \in Run \ {r} : pc'[q] = pc[q]
    BY <1>4 DEF Start, AcquireStep, Create, WriteRecord, Read, Probe, CompareStamp, Remove,
                WriteFails, ReleaseRead, ReleaseRemove
  <2>2. QED
    BY <2>1, <1>3
<1>5. CASE (\E p \in Pid : Recycle(p)) \/ UNCHANGED vars
  BY <1>5 DEF Recycle, vars
<1>6. QED
  BY <1>1, <1>2, <1>4, <1>5 DEF Next, RunStep

\* A run that starts with nobody else alive finds at most what the dead left.
LEMMA AloneStart ==
  ASSUME LoneInv, NEW r \in Run, Start(r), \A q \in Run : ~Alive(q)
  PROVE  Alone(r)'
<1>1. /\ pc' = [pc EXCEPT ![r] = "create"] /\ pc[r] = "unborn"
      /\ attempt' = attempt /\ file' = file /\ attempt[r] = 0
  BY DEF Start, Goto, LoneInv, IInv, LoopFresh
<1>2. \A q \in Run \ {r} : ~Alive(q)'
  BY <1>1 DEF LoneInv, IInv, TypeOK, Alive
<1>3. QED
  BY <1>1, <1>2 DEF Alone, LoneInv, IInv, TypeOK

\* One step of a run that is alone, and nobody else makes one (acquireGatewayLock, and
\* the start of the server in runGatewayForeground).
LEMMA AloneStep ==
  ASSUME LoneInv, NEW r \in undisturbed, RunStep(r)
  PROVE  Alone(r)'
<1>1. r \in Run /\ Alone(r) /\ TypeOK
  BY DEF LoneInv, IInv
<1> USE RunsOK, <1>1 DEF TypeOK, Goto
<1>2. \A q \in Run \ {r} : ~Alive(q)'
  <2>1. \A q \in Run \ {r} : pc'[q] = pc[q]
    BY DEF RunStep, AcquireStep, Create, WriteRecord, Read, Probe, CompareStamp, Remove,
           Bind, ReleaseRead, ReleaseRemove
  <2>2. QED
    BY <2>1 DEF Alone, Alive
<1>a. file # None => file.owner \in Run /\ file.written \in BOOLEAN
  BY DEF File
<1>3. CASE Create(r) /\ file = None
  <2>1. file' = [owner |-> r, written |-> FALSE] /\ pc' = [pc EXCEPT ![r] = "write"] /\ attempt' = attempt
    BY <1>3, Zenon DEF Create
  <2>2. QED
    BY <2>1, <1>2 DEF Alone
<1>4. CASE Create(r) /\ file # None
  <2>1. pc' = [pc EXCEPT ![r] = "read"] /\ pc[r] = "create" /\ file' = file /\ attempt' = attempt
    BY <1>4 DEF Create
  <2>2. QED
    BY <2>1, <1>2, <1>4 DEF Alone
<1>5. CASE WriteRecord(r)
  <2>1. file = [owner |-> r, written |-> FALSE] /\ pc[r] = "write"
    BY <1>5 DEF WriteRecord, Alone
  <2>2. file # None
    <3>1. file \in File
      BY <2>1 DEF File
    <3>2. QED
      BY <3>1, RunsOK
  <2>3. file' = [owner |-> r, written |-> TRUE]
    BY <1>5, <2>1, <2>2 DEF WriteRecord
  <2>4. pc' = [pc EXCEPT ![r] = "acquired"] /\ attempt' = attempt
    BY <1>5 DEF WriteRecord
  <2>5. QED
    BY <2>3, <2>4, <1>2 DEF Alone
<1>6. CASE Read(r)
  <2>1. pc[r] = "read" /\ file # None /\ file' = file /\ attempt' = attempt /\ attempt[r] = 0
    BY <1>6 DEF Read, Alone
  <2>2. CASE file.written
    <3>1. seen' = [seen EXCEPT ![r] = file.owner] /\ pc' = [pc EXCEPT ![r] = "probe"]
      BY <1>6, <2>1, <2>2 DEF Read
    <3>2. QED
      BY <3>1, <2>1, <2>2, <1>2 DEF Alone
  <2>3. CASE ~file.written
    <3>1. pc' = [pc EXCEPT ![r] = "remove"]
      BY <1>6, <2>1, <2>3 DEF Read
    <3>2. QED
      BY <3>1, <2>1, <1>2 DEF Alone
  <2>4. QED
    BY <2>2, <2>3
<1>7. CASE Probe(r)
  <2>1. /\ pc[r] = "probe" /\ file # None /\ file.written /\ seen[r] = file.owner /\ attempt[r] = 0
        /\ file' = file /\ attempt' = attempt /\ seen' = seen /\ aliens' = aliens
    BY <1>7 DEF Probe, Alone
  <2>2. CASE ~PidInUse(PidOf[file.owner])
    <3>1. pc' = [pc EXCEPT ![r] = "remove"]
      BY <1>7, <2>1, <2>2 DEF Probe
    <3>2. QED
      BY <3>1, <2>1, <1>2 DEF Alone
  <2>3. CASE PidInUse(PidOf[file.owner]) /\ file.owner \in Stamped
    <3>1. pc' = [pc EXCEPT ![r] = "stamp"]
      BY <1>7, <2>1, <2>3 DEF Probe
    <3>2. Alive(r) /\ Alive(r)'
      BY <3>1, <2>1 DEF Alive
    <3>3. PidInUse(PidOf[file.owner])'
      <4>1. CASE PidOf[file.owner] \in aliens
        BY <4>1, <2>1 DEF PidInUse
      <4>2. CASE PidOf[file.owner] \notin aliens
        <5>1. PICK q \in Run : Alive(q) /\ PidOf[q] = PidOf[file.owner]
          BY <4>2, <2>3 DEF PidInUse
        <5>2. q = r
          BY <5>1 DEF Alone
        <5>3. QED
          BY <5>1, <5>2, <3>2, <2>1 DEF PidInUse
      <4>3. QED
        BY <4>1, <4>2
    <3>4. QED
      BY <3>1, <3>3, <2>1, <1>2 DEF Alone
  <2>4. CASE PidInUse(PidOf[file.owner]) /\ file.owner \notin Stamped
    <3>1. pc' = [pc EXCEPT ![r] = "held"]
      BY <1>7, <2>1, <2>4 DEF Probe
    <3>2. Indistinguishable'
      BY <2>1, <2>4 DEF Indistinguishable
    <3>3. QED
      BY <3>1, <3>2, <2>1, <1>2 DEF Alone
  <2>5. QED
    BY <2>2, <2>3, <2>4
<1>8. CASE CompareStamp(r)
  <2>1. /\ pc[r] = "stamp" /\ file # None /\ seen[r] = file.owner /\ attempt[r] = 0
        /\ file' = file /\ attempt' = attempt /\ PidInUse(PidOf[file.owner])
    BY <1>8 DEF CompareStamp, Alone
  <2>2. file.owner # r
    BY <2>1 DEF LoneInv, OwnerInv
  <2>3. Recycled(seen[r])
    BY <2>1, <2>2, <1>a DEF Recycled, Alone
  <2>4. pc' = [pc EXCEPT ![r] = "remove"]
    BY <1>8, <2>3 DEF CompareStamp
  <2>5. QED
    BY <2>1, <2>4, <1>2 DEF Alone
<1>9. CASE Remove(r)
  <2>1. /\ attempt[r] = 0 /\ file' = None /\ attempt' = [attempt EXCEPT ![r] = 1]
        /\ pc' = [pc EXCEPT ![r] = "create"]
    BY <1>9 DEF Remove, Alone
  <2>2. QED
    BY <2>1, <1>2 DEF Alone
<1>10. CASE Bind(r)
  <2>1. bound[PortOf[r]] = None
    <3> SUFFICES ASSUME bound[PortOf[r]] # None PROVE FALSE
      OBVIOUS
    <3>1. bound[PortOf[r]] \in Run /\ pc[bound[PortOf[r]]] = "serving"
      BY DEF LoneInv, BoundInv
    <3>2. bound[PortOf[r]] = r
      BY <3>1 DEF Alone, Alive
    <3>3. QED
      BY <3>1, <3>2, <1>10 DEF Bind
  <2>2. pc' = [pc EXCEPT ![r] = "serving"] /\ pc[r] = "acquired" /\ file' = file /\ attempt' = attempt
    BY <1>10, <2>1 DEF Bind
  <2>3. QED
    BY <2>2, <1>2 DEF Alone
<1>11. CASE ReleaseRead(r) \/ ReleaseRemove(r)
  BY <1>11 DEF ReleaseRead, ReleaseRemove, Alone
<1>12. QED
  BY <1>3, <1>4, <1>5, <1>6, <1>7, <1>8, <1>9, <1>10, <1>11 DEF RunStep, AcquireStep

\* Only a live run makes a step of its own, so nobody else does while one is alone.
LEMMA RunStepAlive == ASSUME NEW r \in Run, RunStep(r) PROVE Alive(r)
BY DEF RunStep, AcquireStep, Create, WriteRecord, Read, Probe, CompareStamp, Remove,
       Bind, ReleaseRead, ReleaseRemove, Alive

\* The history variable only watches.
LEMMA LoneIsNext == ASSUME [LoneNext]_lonevars PROVE [Next]_vars
BY DEF LoneNext, lonevars, Next

LEMMA LoneStep == ASSUME LoneInv, [LoneNext]_lonevars PROVE LoneInv'
<1>1. IInv' /\ OwnerInv' /\ BoundInv'
  BY LoneIsNext, TypeStep, LoopStep, PidStep, OwnerStep, BoundStep DEF LoneInv, IInv
<1>2. ASSUME NEW r \in Run, Start(r),
             undisturbed' = IF \E q \in Run : Alive(q) THEN {} ELSE {r}
      PROVE  undisturbed' \subseteq Run /\ \A s \in undisturbed' : Alone(s)'
  BY <1>2, AloneStart
<1>3. ASSUME NEW r \in Run, RunStep(r), UNCHANGED undisturbed
      PROVE  undisturbed' \subseteq Run /\ \A s \in undisturbed' : Alone(s)'
  <2>1. ASSUME NEW s \in undisturbed PROVE s = r
    BY <1>3, RunStepAlive DEF LoneInv, Alone
  <2>2. QED
    BY <1>3, <2>1, AloneStep DEF LoneInv
<1>4. CASE undisturbed' = {}
  BY <1>4, <1>1 DEF LoneInv
<1>5. CASE UNCHANGED lonevars
  BY <1>5 DEF lonevars, vars, LoneInv, IInv, OwnerInv, BoundInv, Alone, Alive, Indistinguishable,
              PidInUse, TypeOK, LoopInv, LoopFresh, PidsUnique
<1>6. QED
  BY <1>1, <1>2, <1>3, <1>4, <1>5 DEF LoneNext, LoneInv

\* A gateway that starts with no other alive, and that nobody disturbs, is refused for
\* nothing the dead left but a record without a start time whose pid is in use: it needs
\* two attempts at most, its port is free, and what it holds is established.
THEOREM LoneStartSucceeds == LoneSpec => []LoneStartUnhindered
<1>1. LoneInit => LoneInv
  BY InitInv DEF LoneInit, LoneInv, Init, OwnerInv, BoundInv
<1>2. LoneInv /\ [LoneNext]_lonevars => LoneInv'
  BY LoneStep
<1>3. LoneInv => LoneStartUnhindered
  <2> SUFFICES ASSUME LoneInv, NEW r \in undisturbed
               PROVE  /\ attempt[r] <= 1
                      /\ pc[r] \in Starting \cup Holding \cup {"held"}
                      /\ pc[r] = "held" => Indistinguishable
                      /\ pc[r] \in Holding => Established(r)
    BY DEF LoneStartUnhindered
  <2>1. Alone(r) /\ r \in Run
    BY DEF LoneInv
  <2>2. \A q \in Run \ {r} : Harmless(q, r)
    BY <2>1 DEF Alone, Harmless
  <2>3. pc[r] \in Holding => Established(r)
    BY <2>1, <2>2 DEF Alone, Established
  <2>4. QED
    BY <2>1, <2>3 DEF Alone
<1>4. QED
  BY <1>1, <1>2, <1>3, PTL DEF LoneSpec
=============================================================================
