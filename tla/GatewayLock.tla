---------------------------- MODULE GatewayLock ----------------------------
(***************************************************************************)
(* Single-instance enforcement of the gateway daemon: acquireGatewayLock   *)
(* and releaseGatewayLock of cli/src/gateway/lock.ts, inside the life of   *)
(* one `slv gateway run` (runForeground.ts).                               *)
(*                                                                         *)
(* A run is one process from exec to exit.  Pids are reused: by later      *)
(* runs, and by processes that have nothing to do with the gateway.  The   *)
(* pidfile is an inode: a run that still has it open writes to that inode  *)
(* also when somebody else has unlinked it.                                *)
(***************************************************************************)
EXTENDS Naturals

CONSTANTS
  Run,       \* the runs of the gateway that ever happen
  Pid, Port,
  PidOf,     \* pid of each run
  PortOf,    \* port its configuration names
  Stamped,   \* runs that could read their own start time (readProcStartTime)
  None

File == [owner : Run, written : BOOLEAN]

ASSUME RunsOK ==
  /\ PidOf \in [Run -> Pid]
  /\ PortOf \in [Run -> Port]
  /\ Stamped \subseteq Run
  /\ None \notin Run /\ None \notin File

VARIABLES
  file,      \* pidfile: None, or [owner, written], its creator and whether the record is in it
  pc,        \* what a run does: see Steps
  attempt,   \* the for loop's counter
  seen,      \* the record a run read
  bound,     \* which run listens on a port
  aliens     \* pids that unrelated processes have

vars == <<file, pc, attempt, seen, bound, aliens>>

Starting == {"create", "write", "read", "probe", "stamp", "remove"}
Holding  == {"acquired", "serving"}
Leaving  == {"closing", "unlink"}
Ended    == {"held", "failed", "stopped", "dead"}
Steps    == {"unborn"} \cup Starting \cup Holding \cup Leaving \cup Ended

MaxAttempts == 3

Alive(r) == pc[r] \in Starting \cup Holding \cup Leaving

TypeOK ==
  /\ file \in File \cup {None}
  /\ pc \in [Run -> Steps]
  /\ attempt \in [Run -> 0..MaxAttempts]
  /\ seen \in [Run -> Run \cup {None}]
  /\ \A r \in Run : pc[r] \in {"probe", "stamp"} => seen[r] \in Run
  /\ bound \in [Port -> Run \cup {None}]
  /\ aliens \subseteq Pid

Init ==
  /\ file = None
  /\ pc = [r \in Run |-> "unborn"]
  /\ attempt = [r \in Run |-> 0]
  /\ seen = [r \in Run |-> None]
  /\ bound = [p \in Port |-> None]
  /\ aliens = {}

Goto(r, step) == pc' = [pc EXCEPT ![r] = step]

PidFree(p) == p \notin aliens /\ \A r \in Run : Alive(r) => PidOf[r] # p

Start(r) ==
  /\ pc[r] = "unborn" /\ PidFree(PidOf[r])
  /\ Goto(r, "create")
  /\ UNCHANGED <<file, attempt, seen, bound, aliens>>

-----------------------------------------------------------------------------
(* acquireGatewayLock                                                       *)

\* writeLock: Deno.open with createNew.
Create(r) ==
  /\ pc[r] = "create"
  /\ IF file = None
       THEN file' = [owner |-> r, written |-> FALSE] /\ Goto(r, "write")
       ELSE Goto(r, "read") /\ UNCHANGED file
  /\ UNCHANGED <<attempt, seen, bound, aliens>>

\* writeLock: file.write goes to the inode this run created, linked or not.
WriteRecord(r) ==
  /\ pc[r] = "write"
  /\ file' = IF file # None /\ file.owner = r THEN [file EXCEPT !.written = TRUE] ELSE file
  /\ Goto(r, "acquired")
  /\ UNCHANGED <<attempt, seen, bound, aliens>>

\* The write fails (a full disk): the empty file stays.
WriteFails(r) ==
  /\ pc[r] = "write"
  /\ Goto(r, "failed")
  /\ UNCHANGED <<file, attempt, seen, bound, aliens>>

\* Mutant: a file without a record is somebody's lock.
ReadStrict(r) ==
  /\ pc[r] = "read"
  /\ IF file # None /\ file.written
       THEN seen' = [seen EXCEPT ![r] = file.owner] /\ Goto(r, "probe")
       ELSE Goto(r, "held") /\ UNCHANGED seen
  /\ UNCHANGED <<file, attempt, bound, aliens>>

\* Mutant: the null of a file that cannot be parsed is judged like a record.
ReadUnchecked(r) ==
  /\ pc[r] = "read"
  /\ seen' = [seen EXCEPT ![r] = IF file # None /\ file.written THEN file.owner ELSE None]
  /\ Goto(r, "probe")
  /\ UNCHANGED <<file, attempt, bound, aliens>>

\* readExistingLock: null for no file and for one without a record yet.
Read(r) ==
  /\ pc[r] = "read"
  /\ IF file # None /\ file.written
       THEN seen' = [seen EXCEPT ![r] = file.owner] /\ Goto(r, "probe")
       ELSE Goto(r, "remove") /\ UNCHANGED seen
  /\ UNCHANGED <<file, attempt, bound, aliens>>

\* Mutant: EPERM, the answer for a process of another user, means that there is none.
PidInUseHere(p) == p \in aliens

PidInUse(p) == p \in aliens \/ \E q \in Run : Alive(q) /\ PidOf[q] = p

\* isProcessAlive(existing.pid), then the test of existing.procStartTime.
Probe(r) ==
  /\ pc[r] = "probe"
  /\ Goto(r, IF ~PidInUse(PidOf[seen[r]]) THEN "remove"
             ELSE IF seen[r] \in Stamped THEN "stamp" ELSE "held")
  /\ UNCHANGED <<file, attempt, seen, bound, aliens>>

\* Mutant: a recycled pid is thought to be some other program's, never the starter's own.
RecycledElsewhere(r) == PidOf[r] \in aliens /\ ~Alive(r)

\* readProcStartTime(existing.pid): a start time that is not the recorded one means
\* that the pid was recycled; one that cannot be read (the process has just ended)
\* counts as a match.
Recycled(r) == PidInUse(PidOf[r]) /\ ~Alive(r)

CompareStamp(r) ==
  /\ pc[r] = "stamp"
  /\ Goto(r, IF Recycled(seen[r]) THEN "remove" ELSE "held")
  /\ UNCHANGED <<file, attempt, seen, bound, aliens>>

\* Deno.remove(gatewayPidPath), whatever is there by now; then the next attempt.
Remove(r) ==
  /\ pc[r] = "remove"
  /\ file' = None
  /\ attempt' = [attempt EXCEPT ![r] = @ + 1]
  /\ Goto(r, IF attempt[r] + 1 < MaxAttempts THEN "create" ELSE "failed")
  /\ seen' = [seen EXCEPT ![r] = None]
  /\ UNCHANGED <<bound, aliens>>

-----------------------------------------------------------------------------
(* runGatewayForeground                                                     *)

\* Deno.serve: a port has one listener.
Bind(r) ==
  /\ pc[r] = "acquired"
  /\ IF bound[PortOf[r]] = None
       THEN bound' = [bound EXCEPT ![PortOf[r]] = r] /\ Goto(r, "serving")
       ELSE Goto(r, "closing") /\ UNCHANGED bound
  /\ UNCHANGED <<file, attempt, seen, aliens>>

Unbound(r) == bound' = [p \in Port |-> IF bound[p] = r THEN None ELSE bound[p]]

\* SIGTERM or SIGINT: gracefulShutdown, server.finished.
Shutdown(r) ==
  /\ pc[r] = "serving"
  /\ Unbound(r)
  /\ Goto(r, "closing")
  /\ UNCHANGED <<file, attempt, seen, aliens>>

\* releaseGatewayLock reads the pidfile; only a record of this pid is removed.
ReleaseRead(r) ==
  LET mine == file # None /\ file.written /\ PidOf[file.owner] = PidOf[r] IN
  /\ pc[r] = "closing"
  /\ Goto(r, IF mine THEN "unlink" ELSE "stopped")
  /\ UNCHANGED <<file, attempt, seen, bound, aliens>>

ReleaseRemove(r) ==
  /\ pc[r] = "unlink"
  /\ file' = None
  /\ Goto(r, "stopped")
  /\ UNCHANGED <<attempt, seen, bound, aliens>>

\* SIGKILL, a reboot, or a signal before the handlers are installed.
Crash(r) ==
  /\ Alive(r)
  /\ Goto(r, "dead")
  /\ Unbound(r)
  /\ UNCHANGED <<file, attempt, seen, aliens>>

\* An unrelated process gets, or gives back, a pid.
Recycle(p) ==
  /\ \/ PidFree(p) /\ aliens' = aliens \cup {p}
     \/ p \in aliens /\ aliens' = aliens \ {p}
  /\ UNCHANGED <<file, pc, attempt, seen, bound>>

AcquireStep(r) ==
  \/ Create(r) \/ WriteRecord(r) \/ Read(r) \/ Probe(r) \/ CompareStamp(r)
  \/ Remove(r)

RunStep(r) == AcquireStep(r) \/ Bind(r) \/ ReleaseRead(r) \/ ReleaseRemove(r)

Next ==
  \/ \E r \in Run : Start(r) \/ RunStep(r) \/ WriteFails(r) \/ Shutdown(r) \/ Crash(r)
  \/ \E p \in Pid : Recycle(p)

Spec == Init /\ [][Next]_vars

\* A process that is not killed goes on; nothing forces a start or a shutdown.
Fairness == \A r \in Run : WF_vars(RunStep(r))
-----------------------------------------------------------------------------
(* Properties.                                                              *)

\* The header of lock.ts: the pidfile is opened with O_EXCL "so two concurrent
\* `slv gateway run` invocations can't both claim the slot".
OneGateway ==
  \A r, q \in Run : pc[r] \in Holding /\ pc[q] \in Holding => r = q

\* A run that is about to refuse, or has not looked yet, when h has the pidfile.
Harmless(q, h) ==
  \/ ~Alive(q)
  \/ pc[q] \in {"create", "read", "closing"}
  \/ pc[q] \in {"probe", "stamp"} /\ seen[q] = h

\* h has the lock and nobody is in the middle of taking it.
Established(h) ==
  /\ pc[h] \in Holding
  /\ file = [owner |-> h, written |-> TRUE]
  /\ \A q \in Run \ {h} : Harmless(q, h)

\* What the lock does give: once a gateway has its record in the pidfile and no
\* other start is half way, no later start, whatever dies or is recycled around it,
\* gets in or takes the file away for as long as that gateway runs.
KeptByItsHolder ==
  [][\A h \in Run : Established(h) /\ pc'[h] \in Holding => Established(h)']_vars

\* Two live processes never have one pid.
PidsUnique ==
  \A q, r \in Run : Alive(q) /\ Alive(r) /\ PidOf[q] = PidOf[r] => q = r

\* Another attempt is only made while the loop has one left.
LoopInv == \A r \in Run : pc[r] \in Starting => attempt[r] < MaxAttempts
LoopFresh == \A r \in Run : pc[r] = "unborn" => attempt[r] = 0

\* The inductive invariant: a live run has its pid to itself.
IInv ==
  /\ TypeOK /\ LoopInv /\ LoopFresh /\ PidsUnique
  /\ \A r \in Run : Alive(r) => PidOf[r] \notin aliens
=============================================================================
